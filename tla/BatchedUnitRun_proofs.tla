------------------------ MODULE BatchedUnitRun_proofs ------------------------
(***************************************************************************)
(* Both ways of running the unit tests implement the gate; a verdict of    *)
(* zero failures means that every test ran; a test counts as passed only   *)
(* where a report says so that was written with the test's own values; a   *)
(* result of an earlier test case needs a Maven that was left alone and    *)
(* never looked for; and the trace of a passed test is lost only with its  *)
(* report.  For any tests, parameters, batches and number of test cases.   *)
(***************************************************************************)
EXTENDS BatchedUnitRun, TLAPS

-----------------------------------------------------------------------------
(* The gate.                                                               *)

\* No value is left in the injected files outside the unit tests, and in parallel not even
\* while the traces are read.
Clean ==
    /\ status \in {0, 1}
    /\ pc \in {"idle", "judged", "system", "trace"} => conf = NoConf

LEMMA CleanInductive == Spec => []Clean
<1>1. Init => Clean
  BY DEF Init, Clean
<1>2. Clean /\ [Next]_vars => Clean'
  <2> SUFFICES ASSUME Clean, [Next]_vars PROVE Clean'
    OBVIOUS
  <2> USE DEF Clean
  <2>1. CASE BeginClass \/ EndClass \/ ExitMaven
    BY <2>1 DEF BeginClass, EndClass, ExitMaven, plan, verdict
  <2>2. CASE StartUnmapped
    BY <2>2 DEF StartUnmapped, Select
  <2>3. CASE StartGrouped
    BY <2>3 DEF StartGrouped, Select
  <2>4. CASE StartParallel
    BY <2>4 DEF StartParallel, Select
  <2>5. CASE StartGroup
    BY <2>5 DEF StartGroup, verdict
  <2>6. CASE GroupEnded \/ GroupTimeout
    BY <2>6 DEF GroupEnded, GroupTimeout, verdict
  <2>7. CASE ParseGroup
    BY <2>7 DEF ParseGroup
  <2>8. CASE FinishGroups
    BY <2>8 DEF FinishGroups, Cleaned, StatusOf
  <2>9. CASE Spawn
    BY <2>9 DEF Spawn, verdict
  <2>10. CASE MavenEnded \/ MavenTimeout
    BY <2>10 DEF MavenEnded, MavenTimeout, Waited, verdict
  <2>11. CASE ParseClass
    BY <2>11 DEF ParseClass
  <2>12. CASE CleanUp
    BY <2>12 DEF CleanUp, Cleaned, verdict
  <2>13. CASE TraceClass
    BY <2>13 DEF TraceClass, StatusOf
  <2>14. CASE Reject \/ LookForMaven \/ EndSystemTest
    BY <2>14 DEF Reject, LookForMaven, EndSystemTest, verdict
  <2>15. CASE Abort
    BY <2>15 DEF Abort, verdict
  <2>16. CASE UNCHANGED vars
    BY <2>16 DEF vars, verdict
  <2> QED
    BY <2>1, <2>2, <2>3, <2>4, <2>5, <2>6, <2>7, <2>8, <2>9, <2>10, <2>11, <2>12, <2>13,
       <2>14, <2>15, <2>16 DEF Next, MavenStep, TesterStep, Start, Grouped, Parallel, Validate
<1> QED
  BY <1>1, <1>2, PTL DEF Spec

\* A run of the batched ways is a run of the gate.
THEOREM BatchedRunImplementsGate == Spec => ImplementsGate
<1>1. Init => Gate!Init
  <2> SUFFICES ASSUME Init PROVE Gate!Init
    OBVIOUS
  <2>1. GatePhase = "idle" /\ status = 0
    BY DEF Init, GatePhase
  <2>2. (mavens # {}) = FALSE /\ (conf # NoConf) = FALSE /\ (failed # {}) = FALSE
    BY DEF Init
  <2> QED
    BY <2>1, <2>2, Zenon DEF Gate!Init
<1>2. Clean /\ Clean' /\ [Next]_vars => [Gate!Next]_(Gate!vars)
  <2> SUFFICES ASSUME Clean, Clean', [Next]_vars
               PROVE  Gate!Next \/ UNCHANGED Gate!vars
    BY DEF Gate!vars
  <2>1. CASE BeginClass \/ EndClass
    <3>1. UNCHANGED <<pc, conf, failed, status>> /\ mavens # {} /\ mavens' # {}
      BY <2>1 DEF BeginClass, EndClass, verdict
    <3>2. GatePhase' = GatePhase
      BY <3>1 DEF GatePhase
    <3> QED
      BY <3>1, <3>2 DEF Gate!vars
  <2>2. CASE ExitMaven
    <3>1. UNCHANGED <<pc, conf, failed, status>> /\ mavens # {}
      BY <2>2 DEF ExitMaven, verdict
    <3>2. GatePhase' = GatePhase
      BY <3>1 DEF GatePhase
    <3> QED
      BY <3>1, <3>2 DEF Gate!vars, Gate!Next, Gate!LeftOverEnds
  <2>3. CASE StartUnmapped
    <3>1. /\ pc = "idle" /\ pc' = "judged" /\ failed' = {} /\ status' = 0
          /\ UNCHANGED <<conf, mavens>>
      BY <2>3 DEF StartUnmapped, Select
    <3>2. GatePhase = "idle" /\ GatePhase' = "judged" /\ conf = NoConf
      BY <3>1 DEF GatePhase, Clean
    <3> QED
      BY <3>1, <3>2 DEF Gate!Next, Gate!NoTests
  <2>4. CASE StartGrouped \/ StartParallel
    <3>1. /\ pc = "idle" /\ pc' \in {"group", "spawn"} /\ failed' = {} /\ status' = 0
      BY <2>4 DEF StartGrouped, StartParallel, Select
    <3>2. GatePhase = "idle" /\ GatePhase' = "unit" /\ conf = NoConf
      BY <3>1 DEF GatePhase, Clean
    <3> QED
      BY <3>1, <3>2 DEF Gate!Next, Gate!Begin
  <2>5. CASE StartGroup \/ GroupEnded \/ GroupTimeout \/ Spawn \/ MavenEnded \/ MavenTimeout
             \/ CleanUp
    <3>1. /\ pc \in {"group", "wait", "spawn", "clean"}
          /\ pc' \in {"wait", "parse", "spawn", "trace"}
          /\ failed' = failed /\ status' \in {0, 1}
      BY <2>5 DEF StartGroup, GroupEnded, GroupTimeout, Spawn, MavenEnded, MavenTimeout, CleanUp,
                  Waited, verdict, Clean
    <3>2. GatePhase = "unit" /\ GatePhase' = "unit"
      BY <3>1 DEF GatePhase
    <3> QED
      BY <3>1, <3>2 DEF Gate!Next, Gate!Work
  <2>6. CASE ParseGroup \/ ParseClass
    <3>1. pc = "parse" /\ pc' \in {"group", "parse", "clean"} /\ status' \in {0, 1}
      BY <2>6 DEF ParseGroup, ParseClass, Clean
    <3>2. failed \subseteq failed'
      BY <2>6 DEF ParseGroup, ParseClass, Record
    <3>3. GatePhase = "unit" /\ GatePhase' = "unit"
      BY <3>1 DEF GatePhase
    <3> QED
      BY <3>1, <3>2, <3>3 DEF Gate!Next, Gate!Work
  <2>7. CASE FinishGroups
    <3>1. /\ pc = "group" /\ pc' = "judged" /\ conf' = NoConf
          /\ UNCHANGED <<mavens, failed>> /\ status' = StatusOf(failed)
      BY <2>7 DEF FinishGroups, Cleaned
    <3>2. GatePhase = "unit" /\ GatePhase' = "judged"
      BY <3>1 DEF GatePhase
    <3> QED
      BY <3>1, <3>2 DEF Gate!Next, Gate!Judge, StatusOf
  <2>8. CASE TraceClass
    <3>1. pc = "trace" /\ pc' \in {"judged", "trace"} /\ UNCHANGED <<mavens, conf, failed>>
      BY <2>8 DEF TraceClass
    <3>2. conf = NoConf /\ status \in {0, 1}
      BY <3>1 DEF Clean
    <3>3. CASE pc' = "judged"
      <4>1. status' = StatusOf(failed)
        BY <2>8, <3>3 DEF TraceClass
      <4>2. GatePhase = "unit" /\ GatePhase' = "judged"
        BY <3>1, <3>3 DEF GatePhase
      <4> QED
        BY <3>1, <3>2, <4>1, <4>2 DEF Gate!Next, Gate!Judge, StatusOf
    <3>4. CASE pc' = "trace"
      <4>1. status' = status
        BY <2>8, <3>4 DEF TraceClass
      <4>2. GatePhase' = GatePhase
        BY <3>1, <3>4 DEF GatePhase
      <4> QED
        BY <3>1, <4>1, <4>2 DEF Gate!vars
    <3> QED
      BY <3>1, <3>3, <3>4
  <2>9. CASE Reject \/ EndSystemTest
    <3>1. pc \in {"judged", "system"} /\ pc' = "idle" /\ UNCHANGED <<mavens, conf, failed, status>>
      BY <2>9 DEF Reject, EndSystemTest, verdict
    <3>2. GatePhase = pc /\ GatePhase' = "idle"
      BY <3>1 DEF GatePhase
    <3> QED
      BY <3>1, <3>2 DEF Gate!Next, Gate!Reject, Gate!EndSystemTest
  <2>10. CASE LookForMaven
    <3>1. /\ pc = "judged" /\ UNCHANGED <<mavens, conf, failed, status>>
          /\ pc' = IF mavens = {} THEN "system" ELSE "exited"
      BY <2>10 DEF LookForMaven, NoMavenLeft, verdict
    <3>2. GatePhase = "judged" /\ GatePhase' = IF mavens = {} THEN "system" ELSE "ended"
      BY <3>1 DEF GatePhase
    <3> QED
      BY <3>1, <3>2 DEF Gate!Next, Gate!StartSystemTest, Gate!End
  <2>11. CASE Abort
    <3>1. pc' = "aborted" /\ UNCHANGED <<mavens, conf, failed, status>>
      BY <2>11 DEF Abort, verdict
    <3>2. GatePhase' = "ended"
      BY <3>1 DEF GatePhase
    <3> QED
      BY <3>1, <3>2 DEF Gate!Next, Gate!End
  <2>12. CASE UNCHANGED vars
    <3>1. UNCHANGED <<pc, mavens, conf, failed, status>>
      BY <2>12 DEF vars, verdict
    <3> QED
      BY <3>1 DEF Gate!vars, GatePhase
  <2> QED
    BY <2>1, <2>2, <2>3, <2>4, <2>5, <2>6, <2>7, <2>8, <2>9, <2>10, <2>11, <2>12
    DEF Next, MavenStep, TesterStep, Start, Grouped, Parallel, Validate
<1> QED
  BY <1>1, <1>2, CleanInductive, PTL DEF Spec, ImplementsGate, Gate!Spec

-----------------------------------------------------------------------------
(* No test is lost on the way to the verdict.                              *)

\* The tests that have no result yet, where one is still to come: in a group that has not
\* been started, in the one that runs, or in a class whose report is not parsed.
Awaited(t) ==
    \/ ~setting.parallel /\ \E g \in todo : t \in g.tests
    \/ ~setting.parallel /\ pc \in {"wait", "parse"} /\ t \in current.tests
    \/ setting.parallel /\ pc \in {"spawn", "wait", "parse"} /\ ClassOf[t] \in unparsed

Finished == pc \in {"clean", "trace", "judged"}

Accounted ==
    /\ pc = "group" => ~setting.parallel
    /\ pc \in {"spawn", "clean", "trace"} => setting.parallel
    /\ pc = "judged" => status = StatusOf(failed)
    /\ ~setting.alluxio =>
        /\ pc \in {"group", "wait", "parse", "spawn"} =>
             \A t \in TestsOf(selected) : t \in DOMAIN results \/ Awaited(t)
        /\ Finished => TestsOf(selected) \subseteq DOMAIN results

\* Except on alluxio, every expected test of a report that is parsed gets a result.
LEMMA AllRecorded ==
    ASSUME NEW report, NEW tests, Record(report, tests)
    PROVE  /\ DOMAIN results \subseteq DOMAIN results'
           /\ ~setting.alluxio => tests \subseteq DOMAIN results'
<1>1. PICK parsed \in Parsed(report, tests, setting.alluxio) :
         DOMAIN results' = DOMAIN results \cup parsed.ran
  BY DEF Record
<1>2. ~setting.alluxio => parsed.ran = tests
  BY <1>1 DEF Parsed, ReadReport
<1> QED
  BY <1>1, <1>2

\* Every test of a selection is in one of its groups.
LEMMA InSomeGroup ==
    ASSUME NEW selection, NEW t \in TestsOf(selection)
    PROVE  \E g \in Groups(selection) : t \in g.tests
<1> DEFINE g == [params |-> Signature(selection, t),
                 tests |-> {u \in TestsOf(selection) :
                              Signature(selection, u) = Signature(selection, t)}]
<1>1. g \in Groups(selection)
  BY DEF Groups
<1>2. t \in g.tests
  OBVIOUS
<1> QED
  BY <1>1, <1>2

LEMMA AccountedInductive == Spec => []Accounted
<1>1. Init => Accounted
  BY DEF Init, Accounted, Finished
<1>2. Accounted /\ [Next]_vars => Accounted'
  <2> SUFFICES ASSUME Accounted, [Next]_vars PROVE Accounted'
    OBVIOUS
  <2>1. CASE BeginClass \/ EndClass \/ ExitMaven
    <3>1. UNCHANGED <<pc, setting, selected, todo, current, unparsed, results, failed, status>>
      BY <2>1 DEF BeginClass, EndClass, ExitMaven, plan, verdict
    <3> QED
      BY <3>1 DEF Accounted, Awaited, Finished
  <2>2. CASE StartUnmapped
    <3>1. /\ pc' = "judged" /\ TestsOf(selected') = {} /\ failed' = {} /\ status' = 0
      BY <2>2 DEF StartUnmapped, Select
    <3> QED
      BY <3>1 DEF Accounted, Finished, StatusOf
  <2>3. CASE StartGrouped
    <3>1. /\ pc' = "group" /\ ~setting.parallel /\ setting' = setting
          /\ todo' = Groups(selected')
      BY <2>3 DEF StartGrouped, Select
    <3>2. \A t \in TestsOf(selected') : \E g \in todo' : t \in g.tests
      BY <3>1, InSomeGroup
    <3> QED
      BY <3>1, <3>2 DEF Accounted, Awaited, Finished
  <2>4. CASE StartParallel
    <3>1. /\ pc' = "spawn" /\ setting.parallel /\ setting' = setting
          /\ unparsed' = ClassesOf(TestsOf(selected'))
      BY <2>4 DEF StartParallel, Select
    <3>2. \A t \in TestsOf(selected') : ClassOf[t] \in unparsed'
      BY <3>1 DEF ClassesOf
    <3> QED
      BY <3>1, <3>2 DEF Accounted, Awaited, Finished
  <2>5. CASE StartGroup
    <3>1. /\ pc = "group" /\ pc' = "wait" /\ UNCHANGED <<setting, selected, results>>
      BY <2>5 DEF StartGroup, plan, verdict
    <3>2. PICK group \in todo : current' = group /\ todo' = todo \ {group}
      BY <2>5 DEF StartGroup
    <3> QED
      BY <3>1, <3>2 DEF Accounted, Awaited, Finished
  <2>6. CASE GroupEnded \/ GroupTimeout
    <3>1. /\ pc = "wait" /\ pc' = "parse" /\ ~setting.parallel
          /\ UNCHANGED <<setting, selected, todo, current, results>>
      BY <2>6 DEF GroupEnded, GroupTimeout, plan, verdict
    <3> QED
      BY <3>1 DEF Accounted, Awaited, Finished
  <2>7. CASE ParseGroup
    <3>1. PICK class \in ClassesOf(current.tests) :
            /\ Record(reports[class], OfClass(current.tests, class))
            /\ current' = [current EXCEPT !.tests = @ \ OfClass(current.tests, class)]
            /\ pc' = IF current.tests = OfClass(current.tests, class) THEN "group" ELSE "parse"
      BY <2>7 DEF ParseGroup
    <3>2. pc = "parse" /\ ~setting.parallel /\ UNCHANGED <<setting, selected, todo>>
      BY <2>7 DEF ParseGroup, plan
    <3>3. /\ DOMAIN results \subseteq DOMAIN results'
          /\ ~setting.alluxio => OfClass(current.tests, class) \subseteq DOMAIN results'
      BY <3>1, AllRecorded
    <3>4. \A t \in current.tests :
            ~setting.alluxio => t \in DOMAIN results' \/ (pc' = "parse" /\ t \in current'.tests)
      <4>1. CASE pc' = "group"
        BY <3>1, <3>3, <4>1
      <4>2. CASE pc' = "parse"
        <5>1. \A t \in current.tests :
                t \in OfClass(current.tests, class) \/ t \in current'.tests
          BY <3>1 DEF OfClass
        <5> QED
          BY <3>3, <4>2, <5>1
      <4> QED
        BY <3>1, <4>1, <4>2
    <3>5. \A t \in TestsOf(selected) :
            ~setting.alluxio =>
              \/ t \in DOMAIN results \/ \E g \in todo : t \in g.tests
              \/ t \in current.tests
      BY <3>2 DEF Accounted, Awaited
    <3>6. \A t \in TestsOf(selected) :
            ~setting.alluxio =>
              \/ t \in DOMAIN results' \/ \E g \in todo' : t \in g.tests
              \/ pc' = "parse" /\ t \in current'.tests
      BY <3>2, <3>3, <3>4, <3>5
    <3>7. pc' \in {"group", "parse"}
      BY <3>1
    <3> QED
      BY <3>2, <3>6, <3>7 DEF Accounted, Awaited, Finished
  <2>8. CASE FinishGroups
    <3>1. /\ pc = "group" /\ pc' = "judged" /\ todo = {} /\ status' = StatusOf(failed)
          /\ UNCHANGED <<setting, selected, results, failed>>
      BY <2>8 DEF FinishGroups, plan
    <3>2. ~setting.alluxio => TestsOf(selected) \subseteq DOMAIN results
      BY <3>1 DEF Accounted, Awaited
    <3> QED
      BY <3>1, <3>2 DEF Accounted, Awaited, Finished
  <2>9. CASE Spawn
    <3>1. /\ pc = "spawn" /\ pc' \in {"wait", "spawn"}
          /\ UNCHANGED <<setting, selected, unparsed, results>>
      BY <2>9 DEF Spawn, plan, verdict
    <3> QED
      BY <3>1 DEF Accounted, Awaited, Finished
  <2>10. CASE MavenEnded \/ MavenTimeout
    <3>1. /\ pc = "wait" /\ pc' \in {"wait", "spawn", "parse"} /\ setting.parallel
          /\ UNCHANGED <<setting, selected, unparsed, results>>
      BY <2>10 DEF MavenEnded, MavenTimeout, Waited, plan, verdict
    <3> QED
      BY <3>1 DEF Accounted, Awaited, Finished
  <2>11. CASE ParseClass
    <3>1. PICK class \in unparsed :
            /\ Record(reports[class], OfClass(TestsOf(selected), class))
            /\ unparsed' = unparsed \ {class}
            /\ pc' = IF unparsed' = {} THEN "clean" ELSE "parse"
      BY <2>11 DEF ParseClass
    <3>2. pc = "parse" /\ setting.parallel /\ UNCHANGED <<setting, selected>>
      BY <2>11 DEF ParseClass, plan
    <3>3. /\ DOMAIN results \subseteq DOMAIN results'
          /\ ~setting.alluxio => OfClass(TestsOf(selected), class) \subseteq DOMAIN results'
      BY <3>1, AllRecorded
    <3>4. \A t \in TestsOf(selected) :
            ~setting.alluxio => t \in DOMAIN results \/ ClassOf[t] \in unparsed
      BY <3>2 DEF Accounted, Awaited
    <3>5. \A t \in TestsOf(selected) :
            ~setting.alluxio => t \in DOMAIN results' \/ ClassOf[t] \in unparsed'
      BY <3>1, <3>3, <3>4 DEF OfClass
    <3> QED
      BY <3>1, <3>2, <3>5 DEF Accounted, Awaited, Finished
  <2>12. CASE CleanUp
    <3>1. /\ pc = "clean" /\ pc' = "trace" /\ UNCHANGED <<setting, selected, results>>
      BY <2>12 DEF CleanUp, plan, verdict
    <3> QED
      BY <3>1 DEF Accounted, Finished
  <2>13. CASE TraceClass
    <3>1. /\ pc = "trace" /\ pc' = IF unparsed' = {} THEN "judged" ELSE "trace"
          /\ status' = IF unparsed' = {} THEN StatusOf(failed) ELSE status
          /\ UNCHANGED <<setting, selected, results, failed>>
      BY <2>13 DEF TraceClass, plan
    <3> QED
      BY <3>1 DEF Accounted, Finished
  <2>14. CASE Reject \/ LookForMaven \/ EndSystemTest \/ Abort
    <3>1. pc' \in {"idle", "system", "exited", "aborted"}
      BY <2>14 DEF Reject, LookForMaven, EndSystemTest, Abort
    <3> QED
      BY <3>1 DEF Accounted, Finished
  <2>15. CASE UNCHANGED vars
    BY <2>15 DEF vars, plan, verdict, Accounted, Awaited, Finished
  <2> QED
    BY <2>1, <2>2, <2>3, <2>4, <2>5, <2>6, <2>7, <2>8, <2>9, <2>10, <2>11, <2>12, <2>13,
       <2>14, <2>15 DEF Next, MavenStep, TesterStep, Start, Grouped, Parallel, Validate
<1> QED
  BY <1>1, <1>2, PTL DEF Spec

\* A verdict of zero failures means that every selected test was recorded as passed, in
\* whatever order the Mavens are killed, end or write their reports.
THEOREM PassMeansEveryTest == Spec => []PassMeansAllRan
<1>1. Accounted => PassMeansAllRan
  BY DEF Accounted, Finished, StatusOf, PassMeansAllRan, Passed
<1> QED
  BY <1>1, AccountedInductive, PTL
-----------------------------------------------------------------------------
(* Types.                                                                  *)

LEMMA SelectionsTyped ==
    ASSUME NEW params \in SUBSET Params, NEW choice \in Selections(Mapped, params, Sampling, slow)
    PROVE  /\ DOMAIN choice \subseteq params
           /\ \A p \in DOMAIN choice : choice[p] \subseteq Tests
BY DEF Selections, FilteredByTime

LEMMA GroupsTyped ==
    ASSUME NEW choice, DOMAIN choice \subseteq Params,
           \A p \in DOMAIN choice : choice[p] \subseteq Tests
    PROVE  /\ TestsOf(choice) \subseteq Tests
           /\ Groups(choice) \subseteq [params : SUBSET Params, tests : SUBSET Tests]
<1>1. TestsOf(choice) \subseteq Tests
  BY DEF TestsOf
<1>2. \A t : Signature(choice, t) \in SUBSET Params
  BY DEF Signature
<1> QED
  BY <1>1, <1>2 DEF Groups

LEMMA ClassesTyped ==
    ASSUME NEW tests \in SUBSET Tests
    PROVE  /\ ClassesOf(tests) \subseteq Classes
           /\ \A class : OfClass(tests, class) \in SUBSET Tests
BY DEF ClassesOf, Classes, OfClass

\* Where the type of a Maven is set the test case has a number, and a Maven waited for in
\* parallel is in the list.
Placed ==
    /\ TypeOK
    /\ pc \in {"group", "spawn", "wait", "parse"} => round \in 1..MaxRounds
    /\ pc = "wait" /\ setting.parallel => waiting # <<>>

ReportOK(report) == report \in {NoReport, TornReport} \/ FullReport(report)

\* What is recorded of a class has its type.
LEMMA RecordTyped ==
    ASSUME TypeOK, NEW report, ReportOK(report), NEW tests \in SUBSET Tests,
           Record(report, tests)
    PROVE  /\ DOMAIN results' \subseteq Tests /\ failed' \subseteq DOMAIN results'
           /\ \A t \in DOMAIN results' : results'[t] \in EntrySet
           /\ slow' \subseteq Tests
<1>1. PICK parsed \in Parsed(report, tests, setting.alluxio) :
        /\ results' = [t \in DOMAIN results \cup parsed.ran |->
                        IF t \in parsed.ran THEN Entry(report, t) ELSE results[t]]
        /\ failed' = failed \cup (parsed.failed \cap parsed.ran)
        /\ slow' \in Retimed(report, parsed.ran)
  BY DEF Record
<1>2. parsed.ran \subseteq tests
  BY <1>1 DEF Parsed, ReadReport
<1>3. \A t \in parsed.ran : Entry(report, t) \in EntrySet
  <2> SUFFICES ASSUME NEW t \in parsed.ran PROVE Entry(report, t) \in EntrySet
    OBVIOUS
  <2>1. CASE t \in Listed(report)
    <3>1. report.kind = "full"
      BY <2>1 DEF Listed, Says
    <3>2. FullReport(report)
      BY <3>1 DEF ReportOK, NoReport, TornReport
    <3>3. report.says[t] \in Results /\ report.of \in 0..MaxRounds
      BY <2>1, <3>1, <3>2, BatchedAssumption DEF FullReport, Listed, Says
    <3> QED
      BY <2>1, <3>2, <3>3 DEF Entry, EntrySet, FullReport
  <2>2. CASE t \notin Listed(report)
    BY <2>2, BatchedAssumption DEF Entry, EntrySet, NoEntry, NoConf, ConfSet
  <2> QED
    BY <2>1, <2>2
<1>4. slow' \subseteq Tests
  BY <1>1, <1>2 DEF Retimed, TypeOK
<1> QED
  BY <1>1, <1>2, <1>3, <1>4 DEF TypeOK

LEMMA PlacedInductive == Spec => []Placed
<1>1. Init => Placed
  <2> SUFFICES ASSUME Init PROVE Placed
    OBVIOUS
  <2>1. conf \in ConfSet /\ current \in [params : SUBSET Params, tests : SUBSET Tests]
    BY BatchedAssumption DEF Init, NoConf, ConfSet, NoGroup
  <2> QED
    BY <2>1, SettingsAssumption, BatchedAssumption DEF Init, Placed, TypeOK, PCs
<1>2. Placed /\ Accounted /\ [Next]_vars => Placed'
  <2> SUFFICES ASSUME Placed, Accounted, [Next]_vars PROVE Placed'
    OBVIOUS
  <2>1. CASE BeginClass
    <3>1. PICK m \in mavens : \E class \in m.left :
            mavens' = (mavens \ {m}) \cup
                        {[m EXCEPT !.class = class, !.left = @ \ {class}, !.conf = conf]}
      BY <2>1 DEF BeginClass
    <3>2. mavens' \subseteq MavenSet
      <4>1. PICK class \in m.left :
              mavens' = (mavens \ {m}) \cup
                          {[m EXCEPT !.class = class, !.left = @ \ {class}, !.conf = conf]}
        BY <3>1
      <4>2. m \in MavenSet /\ conf \in ConfSet
        BY <3>1 DEF Placed, TypeOK
      <4>3. [m EXCEPT !.class = class, !.left = @ \ {class}, !.conf = conf] \in MavenSet
        BY <4>1, <4>2 DEF MavenSet
      <4> QED
        BY <4>1, <4>3 DEF Placed, TypeOK
    <3> QED
      BY <2>1, <3>2 DEF BeginClass, plan, verdict, Placed, TypeOK, FullReport
  <2>2. CASE EndClass
    <3>1. PICK m \in mavens : \E listed \in SUBSET OfClass(m.tests, m.class) :
            /\ \E says \in [listed -> Results] :
                 reports' = [reports EXCEPT ![m.class] =
                    [kind |-> "full", says |-> says, of |-> m.of, conf |-> m.conf,
                     alone |-> m.alone]]
            /\ mavens' = (mavens \ {m}) \cup {[m EXCEPT !.class = Idle]}
      BY <2>2 DEF EndClass
    <3>2. m \in MavenSet
      BY <3>1 DEF Placed, TypeOK
    <3>3. PICK listed \in SUBSET OfClass(m.tests, m.class) :
            \E says \in [listed -> Results] :
               reports' = [reports EXCEPT ![m.class] =
                  [kind |-> "full", says |-> says, of |-> m.of, conf |-> m.conf,
                   alone |-> m.alone]]
      BY <3>1
    <3>4. PICK says \in [listed -> Results] :
            reports' = [reports EXCEPT ![m.class] =
               [kind |-> "full", says |-> says, of |-> m.of, conf |-> m.conf,
                alone |-> m.alone]]
      BY <3>3
    <3>5. FullReport([kind |-> "full", says |-> says, of |-> m.of, conf |-> m.conf,
                      alone |-> m.alone])
      BY <3>2, <3>4 DEF FullReport, MavenSet, OfClass
    <3>6. DOMAIN reports' = Classes /\ \A c \in Classes : ReportOK(reports'[c])
      BY <3>4, <3>5 DEF Placed, TypeOK, ReportOK
    <3>7. mavens' \subseteq MavenSet
      BY <3>1, <3>2 DEF Placed, TypeOK, MavenSet
    <3> QED
      BY <2>2, <3>6, <3>7 DEF EndClass, plan, verdict, Placed, TypeOK, ReportOK, FullReport
  <2>3. CASE ExitMaven
    BY <2>3 DEF ExitMaven, plan, verdict, Placed, TypeOK, FullReport
  <2>4. ASSUME NEW params \in SUBSET Params, Select(params)
        PROVE  /\ setting' = setting /\ round' \in 1..MaxRounds
               /\ DOMAIN selected' \subseteq params
               /\ \A p \in DOMAIN selected' : selected'[p] \subseteq Tests
               /\ DOMAIN reports' = Classes /\ \A c \in Classes : reports'[c] = NoReport
               /\ results' = <<>> /\ failed' = {} /\ observed' = {} /\ status' = 0
               /\ slow' = slow
    <3>1. round' \in 1..MaxRounds
      BY <2>4, BatchedAssumption DEF Select, Placed, TypeOK
    <3> QED
      BY <2>4, <3>1, SelectionsTyped DEF Select, Deleted
  <2> DEFINE Reset ==
        /\ setting' = setting /\ round' \in 1..MaxRounds
        /\ DOMAIN selected' \subseteq Params
        /\ \A p \in DOMAIN selected' : selected'[p] \subseteq Tests
        /\ DOMAIN reports' = Classes /\ \A c \in Classes : reports'[c] = NoReport
        /\ results' = <<>> /\ failed' = {} /\ observed' = {} /\ status' = 0
        /\ slow' = slow
  <2>5. CASE StartUnmapped
    <3>1. Reset
      BY <2>4, <2>5, BatchedAssumption DEF StartUnmapped
    <3> HIDE DEF Reset
    <3>2. /\ pc' = "judged"
          /\ UNCHANGED <<todo, current, waiting, unparsed, conf, mavens>>
      BY <2>5 DEF StartUnmapped
    <3> QED
      BY <3>1, <3>2 DEF Reset, Placed, TypeOK, PCs
  <2>6. CASE StartGrouped
    <3>1. Reset
      BY <2>4, <2>6, BatchedAssumption DEF StartGrouped
    <3>2. todo' = Groups(selected') /\ pc' = "group" /\ ~setting.parallel
          /\ UNCHANGED <<current, waiting, unparsed, conf, mavens>>
      BY <2>6 DEF StartGrouped
    <3>3. todo' \subseteq [params : SUBSET Params, tests : SUBSET Tests]
      BY <3>1, <3>2, GroupsTyped
    <3> HIDE DEF Reset
    <3> QED
      BY <3>1, <3>2, <3>3 DEF Reset, Placed, TypeOK, PCs
  <2>7. CASE StartParallel
    <3>1. PICK params \in Inputs : Select(params) /\ conf' = [of |-> round + 1, params |-> params]
      BY <2>7 DEF StartParallel
    <3>2. params \in SUBSET Params
      BY BatchedAssumption
    <3>3. Reset
      BY <2>4, <3>1, <3>2
    <3>4. conf' \in ConfSet
      BY <3>1, <3>2, BatchedAssumption DEF ConfSet, Select, Placed, TypeOK
    <3>5. /\ todo' = ClassesOf(TestsOf(selected')) /\ unparsed' = todo'
          /\ pc' = "spawn" /\ setting.parallel /\ UNCHANGED <<current, waiting, mavens>>
      BY <2>7 DEF StartParallel
    <3>6. todo' \subseteq Classes
      BY <3>3, <3>5, GroupsTyped, ClassesTyped
    <3> HIDE DEF Reset
    <3> QED
      BY <3>3, <3>4, <3>5, <3>6 DEF Reset, Placed, TypeOK, PCs
  <2>8. CASE StartGroup
    <3>1. /\ pc = "group" /\ pc' = "wait" /\ ~setting.parallel
          /\ UNCHANGED <<setting, round, selected, waiting, unparsed, reports, results, failed,
                         observed, slow, status>>
      BY <2>8 DEF StartGroup, plan, verdict, Accounted
    <3>2. PICK group \in todo :
            /\ current' = group /\ todo' = todo \ {group}
            /\ conf' = Injected(group) /\ mavens' = mavens \cup {NewMaven(group.tests)}
      BY <2>8 DEF StartGroup
    <3>3. group \in [params : SUBSET Params, tests : SUBSET Tests] /\ round \in 1..MaxRounds
      BY <3>1, <3>2 DEF Placed, TypeOK
    <3>4. NewMaven(group.tests) \in MavenSet
      BY <3>3, ClassesTyped, BatchedAssumption DEF NewMaven, MavenSet, NoConf, ConfSet
    <3>5. conf' \in ConfSet
      BY <3>2, <3>3, BatchedAssumption DEF Injected, ConfSet
    <3> QED
      BY <3>1, <3>2, <3>3, <3>4, <3>5 DEF Placed, TypeOK, PCs, FullReport
  <2>9. ASSUME NEW m \in mavens, MayTear(m)
        PROVE  DOMAIN reports' = Classes /\ \A c \in Classes : ReportOK(reports'[c])
    BY <2>9 DEF MayTear, Placed, TypeOK, ReportOK, FullReport
  <2>10. CASE GroupEnded
    BY <2>10 DEF GroupEnded, plan, verdict, Placed, TypeOK, PCs, FullReport
  <2>11. CASE GroupTimeout
    <3>1. DOMAIN reports' = Classes /\ \A c \in Classes : ReportOK(reports'[c])
      BY <2>9, <2>11 DEF GroupTimeout
    <3> QED
      BY <2>11, <3>1 DEF GroupTimeout, plan, verdict, Placed, TypeOK, PCs, ReportOK, FullReport
  <2>12. CASE ParseGroup
    <3>1. PICK class \in ClassesOf(current.tests) :
            /\ Record(reports[class], OfClass(current.tests, class))
            /\ observed' = observed \cup
                             Observed(reports[class], OfClass(current.tests, class))
            /\ current' = [current EXCEPT !.tests = @ \ OfClass(current.tests, class)]
            /\ pc' \in {"group", "parse"}
      BY <2>12 DEF ParseGroup
    <3>2. current.tests \in SUBSET Tests
      BY DEF Placed, TypeOK
    <3>3. class \in Classes /\ OfClass(current.tests, class) \in SUBSET Tests
      BY <3>1, <3>2, ClassesTyped
    <3>4. ReportOK(reports[class])
      BY <3>3 DEF Placed, TypeOK, ReportOK
    <3>5. /\ DOMAIN results' \subseteq Tests /\ failed' \subseteq DOMAIN results'
          /\ \A t \in DOMAIN results' : results'[t] \in EntrySet
          /\ slow' \subseteq Tests
      BY <3>1, <3>3, <3>4, RecordTyped DEF Placed
    <3>6. observed' \subseteq Tests
      BY <3>1, <3>3 DEF Observed, Placed, TypeOK
    <3>7. current' \in [params : SUBSET Params, tests : SUBSET Tests]
      BY <3>1 DEF Placed, TypeOK
    <3>8. /\ pc = "parse" /\ ~setting.parallel
          /\ UNCHANGED <<setting, round, selected, todo, waiting, unparsed, conf, mavens, reports,
                         status>>
      BY <2>12 DEF ParseGroup, plan
    <3> QED
      BY <3>1, <3>5, <3>6, <3>7, <3>8 DEF Placed, TypeOK, PCs, FullReport
  <2>13. CASE FinishGroups
    BY <2>13, BatchedAssumption
    DEF FinishGroups, Cleaned, NoConf, ConfSet, StatusOf, plan, Placed, TypeOK, PCs, FullReport
  <2>14. CASE Spawn
    <3>1. /\ pc = "spawn" /\ pc' \in {"wait", "spawn"} /\ setting.parallel
          /\ UNCHANGED <<setting, round, selected, current, unparsed, conf, reports, results,
                         failed, observed, slow, status>>
      BY <2>14 DEF Spawn, plan, verdict, Accounted
    <3>2. PICK class \in todo :
            /\ todo' = todo \ {class} /\ waiting' = Append(waiting, class)
            /\ mavens' = mavens \cup {NewMaven(OfClass(TestsOf(selected), class))}
      BY <2>14 DEF Spawn
    <3>3. class \in Classes /\ round \in 1..MaxRounds
      BY <3>1, <3>2 DEF Placed, TypeOK
    <3>4. TestsOf(selected) \in SUBSET Tests
      BY GroupsTyped DEF Placed, TypeOK
    <3>5. OfClass(TestsOf(selected), class) \in SUBSET Tests
      BY <3>4, ClassesTyped
    <3>6. NewMaven(OfClass(TestsOf(selected), class)) \in MavenSet
      BY <3>3, <3>5, ClassesTyped, BatchedAssumption DEF NewMaven, MavenSet, NoConf, ConfSet
    <3>7. waiting' \in Seq(Classes) /\ waiting' # <<>>
      BY <3>2, <3>3 DEF Placed, TypeOK
    <3> QED
      BY <3>1, <3>2, <3>3, <3>6, <3>7 DEF Placed, TypeOK, PCs, FullReport
  <2>15. ASSUME Waited, pc = "wait", setting.parallel
         PROVE  /\ waiting' \in Seq(Classes) /\ pc' \in {"wait", "parse", "spawn"}
                /\ pc' = "wait" => waiting' # <<>>
    <3>1. waiting \in Seq(Classes) /\ waiting # <<>>
      BY <2>15 DEF Placed, TypeOK
    <3>2. waiting' = Tail(waiting) /\ waiting' \in Seq(Classes)
      BY <2>15, <3>1 DEF Waited
    <3>3. Len(waiting) > 1 => waiting' # <<>>
      BY <3>1, <3>2
    <3>4. pc' = IF Len(waiting) > 1 THEN "wait" ELSE IF todo = {} THEN "parse" ELSE "spawn"
      BY <2>15 DEF Waited
    <3>5. pc' \in {"wait", "parse", "spawn"} /\ (pc' = "wait" => Len(waiting) > 1)
      BY <3>4
    <3> QED
      BY <3>2, <3>3, <3>5
  <2>16. CASE MavenEnded
    <3>1. /\ waiting' \in Seq(Classes) /\ pc' \in {"wait", "parse", "spawn"}
          /\ pc' = "wait" => waiting' # <<>>
      BY <2>15, <2>16 DEF MavenEnded
    <3> QED
      BY <2>16, <3>1 DEF MavenEnded, plan, verdict, Placed, TypeOK, PCs, FullReport
  <2>17. CASE MavenTimeout
    <3>1. /\ waiting' \in Seq(Classes) /\ pc' \in {"wait", "parse", "spawn"}
          /\ pc' = "wait" => waiting' # <<>>
      BY <2>15, <2>17 DEF MavenTimeout
    <3>2. /\ mavens' \subseteq MavenSet
          /\ DOMAIN reports' = Classes /\ \A c \in Classes : ReportOK(reports'[c])
      <4>1. PICK m \in MavenOf(Head(waiting)) :
              \/ MayTear(m) /\ mavens' = mavens \ {m}
              \/ /\ mavens' = (mavens \ {m}) \cup {[m EXCEPT !.alone = TRUE]}
                 /\ UNCHANGED reports
        BY <2>17 DEF MavenTimeout
      <4>2. m \in mavens /\ m \in MavenSet
        BY <4>1 DEF MavenOf, Placed, TypeOK
      <4>3. CASE MayTear(m) /\ mavens' = mavens \ {m}
        BY <2>9, <4>2, <4>3 DEF Placed, TypeOK
      <4>4. CASE mavens' = (mavens \ {m}) \cup {[m EXCEPT !.alone = TRUE]} /\ UNCHANGED reports
        BY <4>2, <4>4 DEF Placed, TypeOK, MavenSet, ReportOK, FullReport
      <4> QED
        BY <4>1, <4>3, <4>4
    <3>3. /\ pc = "wait" /\ setting.parallel
          /\ UNCHANGED <<setting, round, selected, todo, current, unparsed, conf, results, failed,
                         observed, slow, status>>
      BY <2>17 DEF MavenTimeout, plan, verdict
    <3> QED
      BY <3>1, <3>2, <3>3 DEF Placed, TypeOK, PCs, ReportOK, FullReport
  <2>18. CASE ParseClass
    <3>1. PICK class \in unparsed :
            /\ Record(reports[class], OfClass(TestsOf(selected), class))
            /\ unparsed' = unparsed \ {class} /\ pc' \in {"clean", "parse"}
      BY <2>18 DEF ParseClass
    <3>2. TestsOf(selected) \in SUBSET Tests
      BY GroupsTyped DEF Placed, TypeOK
    <3>3. class \in Classes /\ OfClass(TestsOf(selected), class) \in SUBSET Tests
      BY <3>1, <3>2, ClassesTyped DEF Placed, TypeOK
    <3>4. ReportOK(reports[class])
      BY <3>3 DEF Placed, TypeOK, ReportOK
    <3>5. /\ DOMAIN results' \subseteq Tests /\ failed' \subseteq DOMAIN results'
          /\ \A t \in DOMAIN results' : results'[t] \in EntrySet
          /\ slow' \subseteq Tests
      BY <3>1, <3>3, <3>4, RecordTyped DEF Placed
    <3>6. /\ pc = "parse" /\ setting.parallel
          /\ UNCHANGED <<setting, round, selected, todo, current, waiting, conf, mavens, reports,
                         observed, status>>
      BY <2>18 DEF ParseClass, plan
    <3> QED
      BY <3>1, <3>5, <3>6 DEF Placed, TypeOK, PCs, FullReport
  <2>19. CASE CleanUp
    <3>1. unparsed' \subseteq Classes
      BY <2>19, GroupsTyped, ClassesTyped DEF CleanUp, Placed, TypeOK
    <3>2. conf' \in ConfSet
      BY <2>19, BatchedAssumption DEF CleanUp, Cleaned, NoConf, ConfSet
    <3> QED
      BY <2>19, <3>1, <3>2 DEF CleanUp, plan, verdict, Placed, TypeOK, PCs, FullReport
  <2>20. CASE TraceClass
    <3>1. PICK class \in unparsed :
            /\ observed' = observed \cup
                             Observed(reports[class], OfClass(TestsOf(selected), class))
            /\ unparsed' = unparsed \ {class}
      BY <2>20 DEF TraceClass
    <3>2. observed' \subseteq Tests
      BY <3>1, GroupsTyped DEF Observed, OfClass, Placed, TypeOK
    <3>3. pc' \in {"judged", "trace"} /\ status' \in {0, 1}
      BY <2>20 DEF TraceClass, StatusOf, Placed, TypeOK
    <3>4. UNCHANGED <<setting, round, selected, todo, current, waiting, conf, mavens, reports,
                      results, failed, slow>>
      BY <2>20 DEF TraceClass, plan
    <3> QED
      BY <3>1, <3>2, <3>3, <3>4 DEF Placed, TypeOK, PCs, FullReport
  <2>21. CASE Reject \/ LookForMaven \/ EndSystemTest \/ Abort
    <3>1. /\ pc' \in {"idle", "system", "exited", "aborted"}
          /\ UNCHANGED <<setting, round, selected, todo, current, waiting, unparsed, conf, mavens,
                         reports, results, failed, observed, slow, status>>
      BY <2>21 DEF Reject, LookForMaven, EndSystemTest, Abort, plan, verdict
    <3> QED
      BY <3>1 DEF Placed, TypeOK, PCs, FullReport
  <2>22. CASE UNCHANGED vars
    BY <2>22 DEF vars, plan, verdict, Placed, TypeOK, FullReport
  <2> QED
    BY <2>1, <2>2, <2>3, <2>5, <2>6, <2>7, <2>8, <2>10, <2>11, <2>12, <2>13, <2>14, <2>16,
       <2>17, <2>18, <2>19, <2>20, <2>21, <2>22
    DEF Next, MavenStep, TesterStep, Start, Grouped, Parallel, Validate
<1> QED
  BY <1>1, <1>2, AccountedInductive, PTL DEF Spec
\* The state keeps its type, for every project, batch and bound.
THEOREM BatchedTyping == Spec => []TypeOK
<1>1. Placed => TypeOK
  BY DEF Placed
<1> QED
  BY <1>1, PlacedInductive, PTL

-----------------------------------------------------------------------------
(* Which values a Maven runs with.                                         *)

Active == pc \notin {"exited", "aborted"}

\* One Maven after the other: it runs alone, with the values of its group, and the groups
\* are those of the signatures.
GroupedOrder ==
    ~setting.parallel =>
        /\ Active /\ pc # "wait" => mavens = {}
        /\ Active => \A m, n \in mavens : m = n
        /\ pc \in {"group", "wait", "parse"} =>
             \A g \in todo : \A t \in g.tests : Signature(selected, t) = g.params
        /\ pc = "wait" =>
             /\ conf = [of |-> round, params |-> current.params]
             /\ \A t \in current.tests : Signature(selected, t) = current.params
             /\ \A m \in mavens : /\ m.tests = current.tests
                                  /\ m.class # Idle => m.conf = conf

LEMMA GroupsSigned ==
    ASSUME NEW selection, NEW g \in Groups(selection), NEW t \in g.tests
    PROVE  Signature(selection, t) = g.params
<1>1. PICK u \in TestsOf(selection) :
        g = [params |-> Signature(selection, u),
             tests |-> {v \in TestsOf(selection) :
                          Signature(selection, v) = Signature(selection, u)}]
  BY DEF Groups
<1>2. g.params = Signature(selection, u)
  BY <1>1
<1>3. g.tests = {v \in TestsOf(selection) : Signature(selection, v) = Signature(selection, u)}
  BY <1>1
<1> QED
  BY <1>2, <1>3

LEMMA SettingKept == [Next]_vars => setting' = setting
BY DEF Next, MavenStep, TesterStep, Start, Grouped, Parallel, Validate, BeginClass, EndClass,
       ExitMaven, StartUnmapped, StartGrouped, StartParallel, Select, StartGroup, GroupEnded,
       GroupTimeout, ParseGroup, FinishGroups, Spawn, MavenEnded, MavenTimeout, ParseClass,
       CleanUp, TraceClass, Reject, LookForMaven, EndSystemTest, Abort, vars, plan

LEMMA GroupedOrderInductive == Spec => []GroupedOrder
<1>1. Init => GroupedOrder
  BY DEF Init, GroupedOrder, Active
<1>2. GroupedOrder /\ Placed /\ Accounted /\ [Next]_vars => GroupedOrder'
  <2> SUFFICES ASSUME GroupedOrder, Placed, Accounted, [Next]_vars, ~setting.parallel,
                      setting' = setting
               PROVE  GroupedOrder'
    BY SettingKept DEF GroupedOrder
  <2>1. CASE BeginClass
    <3>1. UNCHANGED <<pc, setting, round, selected, todo, current, conf>>
      BY <2>1 DEF BeginClass, plan
    <3>2. PICK m \in mavens : \E class \in m.left :
            mavens' = (mavens \ {m}) \cup
                        {[m EXCEPT !.class = class, !.left = @ \ {class}, !.conf = conf]}
      BY <2>1 DEF BeginClass
    <3>3. PICK class \in m.left :
            mavens' = (mavens \ {m}) \cup
                        {[m EXCEPT !.class = class, !.left = @ \ {class}, !.conf = conf]}
      BY <3>2
    <3>4. CASE Active
      <4> DEFINE m2 == [m EXCEPT !.class = class, !.left = @ \ {class}, !.conf = conf]
      <4>1. mavens = {m} /\ pc = "wait" /\ m.tests = current.tests
        BY <3>2, <3>4 DEF GroupedOrder
      <4>2. mavens' = {m2}
        BY <3>3, <4>1
      <4>3. m2.tests = current.tests /\ m2.conf = conf
        BY <3>2, <4>1 DEF Placed, TypeOK, MavenSet
      <4> QED
        BY <3>1, <4>1, <4>2, <4>3 DEF GroupedOrder, Active
    <3> QED
      BY <3>1, <3>4 DEF GroupedOrder, Active
  <2>2. CASE EndClass
    <3>1. UNCHANGED <<pc, setting, round, selected, todo, current, conf>>
      BY <2>2 DEF EndClass, plan
    <3>2. PICK m \in mavens :
            m.class # Idle /\ mavens' = (mavens \ {m}) \cup {[m EXCEPT !.class = Idle]}
      BY <2>2 DEF EndClass
    <3>3. CASE Active
      <4>1. mavens = {m} /\ pc = "wait" /\ m.tests = current.tests
        BY <3>2, <3>3 DEF GroupedOrder
      <4>2. mavens' = {[m EXCEPT !.class = Idle]}
        BY <3>2, <4>1
      <4>3. [m EXCEPT !.class = Idle].tests = current.tests /\ [m EXCEPT !.class = Idle].class = Idle
        BY <3>2, <4>1 DEF Placed, TypeOK, MavenSet
      <4> QED
        BY <3>1, <4>1, <4>2, <4>3 DEF GroupedOrder, Active
    <3> QED
      BY <3>1, <3>3 DEF GroupedOrder, Active
  <2>3. CASE ExitMaven
    <3>1. UNCHANGED <<pc, setting, round, selected, todo, current, conf>> /\ mavens' \subseteq mavens
      BY <2>3 DEF ExitMaven, plan
    <3> QED
      BY <3>1 DEF GroupedOrder, Active
  <2>4. CASE StartUnmapped
    <3>1. pc = "idle" /\ pc' = "judged" /\ mavens' = mavens
      BY <2>4 DEF StartUnmapped, Select
    <3> QED
      BY <3>1 DEF GroupedOrder, Active
  <2>5. CASE StartGrouped
    <3>1. pc = "idle" /\ pc' = "group" /\ mavens' = mavens /\ todo' = Groups(selected')
      BY <2>5 DEF StartGrouped, Select
    <3>2. \A g \in todo' : \A t \in g.tests : Signature(selected', t) = g.params
      BY <3>1, GroupsSigned
    <3> QED
      BY <3>1, <3>2 DEF GroupedOrder, Active
  <2>6. CASE StartParallel
    BY <2>6 DEF StartParallel
  <2>7. CASE StartGroup
    <3>1. pc = "group" /\ pc' = "wait" /\ UNCHANGED <<round, selected>>
      BY <2>7 DEF StartGroup, plan
    <3>2. PICK group \in todo :
            /\ current' = group /\ todo' = todo \ {group}
            /\ conf' = Injected(group) /\ mavens' = mavens \cup {NewMaven(group.tests)}
      BY <2>7 DEF StartGroup
    <3>3. mavens = {}
      BY <3>1 DEF GroupedOrder, Active
    <3>4. mavens' = {NewMaven(group.tests)}
      BY <3>2, <3>3
    <3>5. NewMaven(group.tests).tests = group.tests /\ NewMaven(group.tests).class = Idle
      BY DEF NewMaven
    <3>6. conf' = [of |-> round, params |-> current'.params]
      BY <3>2 DEF Injected
    <3> QED
      BY <3>1, <3>2, <3>4, <3>5, <3>6 DEF GroupedOrder, Active
  <2>8. CASE GroupEnded
    <3>1. /\ pc = "wait" /\ pc' = "parse" /\ mavens = {}
          /\ UNCHANGED <<round, selected, todo, current, mavens>>
      BY <2>8 DEF GroupEnded, plan
    <3> QED
      BY <3>1 DEF GroupedOrder, Active
  <2>9. CASE GroupTimeout
    <3>1. /\ pc = "wait" /\ pc' = "parse" /\ UNCHANGED <<round, selected, todo, current>>
      BY <2>9 DEF GroupTimeout, plan
    <3>2. mavens' = {}
      BY <2>9, <3>1 DEF GroupTimeout, GroupedOrder, Active
    <3> QED
      BY <3>1, <3>2 DEF GroupedOrder, Active
  <2>10. CASE ParseGroup
    <3>1. /\ pc = "parse" /\ pc' \in {"group", "parse"}
          /\ UNCHANGED <<round, selected, todo, mavens>>
      BY <2>10 DEF ParseGroup, plan
    <3> QED
      BY <3>1 DEF GroupedOrder, Active
  <2>11. CASE FinishGroups
    <3>1. pc = "group" /\ pc' = "judged" /\ mavens' = mavens
      BY <2>11 DEF FinishGroups
    <3> QED
      BY <3>1 DEF GroupedOrder, Active
  <2>12. CASE Spawn \/ MavenEnded \/ MavenTimeout \/ ParseClass \/ CleanUp \/ TraceClass
    BY <2>12
    DEF Spawn, MavenEnded, MavenTimeout, ParseClass, CleanUp, TraceClass, Accounted
  <2>13. CASE Reject \/ LookForMaven \/ EndSystemTest
    <3>1. /\ pc \in {"judged", "system"} /\ pc' \in {"idle", "system", "exited"}
          /\ mavens' = mavens
      BY <2>13 DEF Reject, LookForMaven, EndSystemTest
    <3> QED
      BY <3>1 DEF GroupedOrder, Active
  <2>14. CASE Abort
    BY <2>14 DEF Abort, GroupedOrder, Active
  <2>15. CASE UNCHANGED vars
    BY <2>15 DEF vars, plan, GroupedOrder, Active
  <2> QED
    BY <2>1, <2>2, <2>3, <2>4, <2>5, <2>6, <2>7, <2>8, <2>9, <2>10, <2>11, <2>12, <2>13,
       <2>14, <2>15 DEF Next, MavenStep, TesterStep, Start, Grouped, Parallel, Validate
<1> QED
  BY <1>1, <1>2, PlacedInductive, AccountedInductive, PTL DEF Spec

\* One Maven for each class: those that are waited for are of this test case, are in the
\* list, each for its class, and read its values.
ParallelOrder ==
    setting.parallel =>
        /\ Active => \A m \in mavens : ~m.alone =>
             /\ pc \in {"spawn", "wait"} /\ m.of = round
             /\ \E i \in DOMAIN waiting : ClassesOf(m.tests) = {waiting[i]}
             /\ m.class # Idle => m.conf = conf
        /\ Active => \A m, n \in mavens :
             ~m.alone /\ ~n.alone /\ ClassesOf(m.tests) = ClassesOf(n.tests) => m = n
        /\ Active /\ pc \notin {"spawn", "wait"} => waiting = <<>>
        /\ pc \in {"spawn", "wait"} =>
             /\ todo \subseteq ClassesOf(TestsOf(selected))
             /\ \A i \in DOMAIN waiting : waiting[i] \notin todo
             /\ conf.of = round /\ DOMAIN selected \subseteq conf.params

LEMMA ClassOfClass ==
    ASSUME NEW tests, NEW class \in ClassesOf(tests)
    PROVE  ClassesOf(OfClass(tests, class)) = {class}
BY DEF ClassesOf, OfClass

LEMMA ParallelOrderInductive == Spec => []ParallelOrder
<1>1. Init => ParallelOrder
  BY DEF Init, ParallelOrder, Active
<1>2. ParallelOrder /\ Placed /\ Accounted /\ [Next]_vars => ParallelOrder'
  <2> SUFFICES ASSUME ParallelOrder, Placed, Accounted, [Next]_vars, setting.parallel,
                      setting' = setting
               PROVE  ParallelOrder'
    BY SettingKept DEF ParallelOrder
  <2>1. CASE BeginClass
    <3>1. UNCHANGED <<pc, setting, round, selected, todo, waiting, conf>>
      BY <2>1 DEF BeginClass, plan
    <3>2. PICK m \in mavens : \E class \in m.left :
            mavens' = (mavens \ {m}) \cup
                        {[m EXCEPT !.class = class, !.left = @ \ {class}, !.conf = conf]}
      BY <2>1 DEF BeginClass
    <3>3. PICK class \in m.left :
            mavens' = (mavens \ {m}) \cup
                        {[m EXCEPT !.class = class, !.left = @ \ {class}, !.conf = conf]}
      BY <3>2
    <3> DEFINE m2 == [m EXCEPT !.class = class, !.left = @ \ {class}, !.conf = conf]
    <3>4. /\ m2.tests = m.tests /\ m2.alone = m.alone /\ m2.of = m.of /\ m2.conf = conf
      BY <3>2 DEF Placed, TypeOK, MavenSet
    <3>5. mavens' = (mavens \ {m}) \cup {m2}
      BY <3>3
    <3> HIDE DEF m2
    <3>6. Active => \A n \in mavens' : ~n.alone =>
             /\ pc \in {"spawn", "wait"} /\ n.of = round
             /\ \E i \in DOMAIN waiting : ClassesOf(n.tests) = {waiting[i]}
             /\ n.class # Idle => n.conf = conf
      <4> SUFFICES ASSUME Active, NEW n \in mavens', ~n.alone
                   PROVE  /\ pc \in {"spawn", "wait"} /\ n.of = round
                          /\ \E i \in DOMAIN waiting : ClassesOf(n.tests) = {waiting[i]}
                          /\ n.class # Idle => n.conf = conf
        OBVIOUS
      <4>1. CASE n \in mavens
        BY <4>1 DEF ParallelOrder
      <4>2. CASE n = m2
        <5>1. m \in mavens /\ ~m.alone
          BY <3>2, <3>4, <4>2
        <5> QED
          BY <3>4, <4>2, <5>1 DEF ParallelOrder
      <4> QED
        BY <3>5, <4>1, <4>2
    <3>7. Active => \A n, o \in mavens' :
             ~n.alone /\ ~o.alone /\ ClassesOf(n.tests) = ClassesOf(o.tests) => n = o
      BY <3>2, <3>4, <3>5 DEF ParallelOrder
    <3> QED
      BY <3>1, <3>6, <3>7 DEF ParallelOrder, Active
  <2>2. CASE EndClass
    <3>1. UNCHANGED <<pc, setting, round, selected, todo, waiting, conf>>
      BY <2>2 DEF EndClass, plan
    <3>2. PICK m \in mavens :
            m.class # Idle /\ mavens' = (mavens \ {m}) \cup {[m EXCEPT !.class = Idle]}
      BY <2>2 DEF EndClass
    <3> DEFINE m2 == [m EXCEPT !.class = Idle]
    <3>3. /\ m2.tests = m.tests /\ m2.alone = m.alone /\ m2.of = m.of /\ m2.class = Idle
      BY <3>2 DEF Placed, TypeOK, MavenSet
    <3>4. mavens' = (mavens \ {m}) \cup {m2}
      BY <3>2
    <3> HIDE DEF m2
    <3> QED
      BY <3>1, <3>2, <3>3, <3>4 DEF ParallelOrder, Active
  <2>3. CASE ExitMaven
    <3>1. /\ UNCHANGED <<pc, setting, round, selected, todo, waiting, conf>>
          /\ mavens' \subseteq mavens
      BY <2>3 DEF ExitMaven, plan
    <3> QED
      BY <3>1 DEF ParallelOrder, Active
  <2>4. CASE StartUnmapped
    <3>1. pc = "idle" /\ pc' = "judged" /\ UNCHANGED <<mavens, waiting>>
      BY <2>4 DEF StartUnmapped, Select
    <3> QED
      BY <3>1 DEF ParallelOrder, Active
  <2>5. CASE StartGrouped
    BY <2>5 DEF StartGrouped
  <2>6. CASE StartParallel
    <3>1. PICK params \in Inputs : Select(params) /\ conf' = [of |-> round + 1, params |-> params]
      BY <2>6 DEF StartParallel
    <3>2. params \in SUBSET Params
      BY BatchedAssumption
    <3>3. /\ pc = "idle" /\ pc' = "spawn" /\ UNCHANGED <<mavens, waiting>>
          /\ todo' = ClassesOf(TestsOf(selected')) /\ round' = round + 1
      BY <2>6, <3>1 DEF StartParallel, Select
    <3>4. selected' \in Selections(Mapped, params, Sampling, slow)
      BY <3>1 DEF Select
    <3>5. DOMAIN selected' \subseteq params
      BY <3>2, <3>4, SelectionsTyped
    <3>6. \A m \in mavens : m.alone
      BY <3>3 DEF ParallelOrder, Active
    <3>7. waiting' = <<>>
      BY <3>3 DEF ParallelOrder, Active
    <3>8. conf'.of = round' /\ conf'.params = params
      BY <3>1, <3>3
    <3> QED
      BY <3>3, <3>5, <3>6, <3>7, <3>8 DEF ParallelOrder, Active
  <2>7. CASE StartGroup \/ GroupEnded \/ GroupTimeout \/ ParseGroup \/ FinishGroups
    BY <2>7 DEF StartGroup, GroupEnded, GroupTimeout, ParseGroup, FinishGroups, Accounted
  <2>8. CASE Spawn
    <3>1. /\ pc = "spawn" /\ pc' \in {"wait", "spawn"} /\ UNCHANGED <<round, selected, conf>>
      BY <2>8 DEF Spawn, plan
    <3>2. PICK class \in todo :
            /\ todo' = todo \ {class} /\ waiting' = Append(waiting, class)
            /\ mavens' = mavens \cup {NewMaven(OfClass(TestsOf(selected), class))}
      BY <2>8 DEF Spawn
    <3>3. class \in ClassesOf(TestsOf(selected)) /\ \A i \in DOMAIN waiting : waiting[i] # class
      BY <3>1, <3>2 DEF ParallelOrder
    <3> DEFINE m2 == NewMaven(OfClass(TestsOf(selected), class))
    <3>4. m2.of = round /\ m2.class = Idle /\ ClassesOf(m2.tests) = {class}
      BY <3>3, ClassOfClass DEF NewMaven
    <3>5. waiting \in Seq(Classes) /\ class \in Classes
      BY <3>1, <3>2 DEF Placed, TypeOK, Accounted
    <3>6. /\ \A i \in DOMAIN waiting : i \in DOMAIN waiting' /\ waiting'[i] = waiting[i]
          /\ \A i \in DOMAIN waiting' : i \in DOMAIN waiting \/ waiting'[i] = class
          /\ \E i \in DOMAIN waiting' : waiting'[i] = class
      <4>1. DOMAIN waiting = 1..Len(waiting) /\ DOMAIN waiting' = 1..(Len(waiting) + 1)
        BY <3>2, <3>5
      <4>2. Len(waiting) \in Nat /\ waiting'[Len(waiting) + 1] = class
        BY <3>2, <3>5
      <4>3. \A i \in 1..Len(waiting) : waiting'[i] = waiting[i]
        BY <3>2, <3>5
      <4> QED
        BY <4>1, <4>2, <4>3
    <3>7. mavens' = mavens \cup {m2}
      BY <3>2
    <3> HIDE DEF m2
    <3>8. \A m \in mavens' : ~m.alone =>
            /\ m.of = round
            /\ \E i \in DOMAIN waiting' : ClassesOf(m.tests) = {waiting'[i]}
            /\ m.class # Idle => m.conf = conf
      BY <3>1, <3>4, <3>6, <3>7 DEF ParallelOrder, Active
    <3>9. \A m \in mavens : ~m.alone => ClassesOf(m.tests) # {class}
      BY <3>1, <3>3 DEF ParallelOrder, Active
    <3>10. \A m, n \in mavens' :
             ~m.alone /\ ~n.alone /\ ClassesOf(m.tests) = ClassesOf(n.tests) => m = n
      BY <3>1, <3>4, <3>7, <3>9 DEF ParallelOrder, Active
    <3>11. \A i \in DOMAIN waiting' : waiting'[i] \notin todo'
      BY <3>1, <3>2, <3>6 DEF ParallelOrder
    <3> QED
      BY <3>1, <3>2, <3>8, <3>10, <3>11 DEF ParallelOrder, Active
  <2>9. ASSUME pc = "wait", Waited, UNCHANGED <<round, selected, todo, conf>>,
               \A m \in mavens' : ~m.alone =>
                   m \in mavens /\ ClassesOf(m.tests) # {Head(waiting)}
        PROVE  ParallelOrder'
    <3>1. waiting \in Seq(Classes) /\ waiting # <<>> /\ waiting' = Tail(waiting)
      BY <2>9 DEF Placed, TypeOK, Waited
    <3>2. /\ DOMAIN waiting = 1..Len(waiting) /\ Len(waiting) \in Nat \ {0}
          /\ DOMAIN waiting' = 1..(Len(waiting) - 1)
      BY <3>1
    <3>3. /\ waiting[1] = Head(waiting)
          /\ \A i \in 1..(Len(waiting) - 1) : waiting'[i] = waiting[i + 1]
      BY <3>1
    <3>4. \A m \in mavens' : ~m.alone =>
            /\ m.of = round' /\ (m.class # Idle => m.conf = conf')
            /\ \E i \in DOMAIN waiting' : ClassesOf(m.tests) = {waiting'[i]}
      <4> SUFFICES ASSUME NEW m \in mavens', ~m.alone
                   PROVE  /\ m.of = round' /\ (m.class # Idle => m.conf = conf')
                          /\ \E i \in DOMAIN waiting' : ClassesOf(m.tests) = {waiting'[i]}
        OBVIOUS
      <4>1. m \in mavens /\ ClassesOf(m.tests) # {Head(waiting)}
        BY <2>9
      <4>2. PICK i \in DOMAIN waiting : ClassesOf(m.tests) = {waiting[i]}
        BY <2>9, <4>1 DEF ParallelOrder, Active
      <4>3. i - 1 \in DOMAIN waiting' /\ waiting'[i - 1] = waiting[i]
        BY <3>2, <3>3, <4>1, <4>2
      <4> QED
        BY <2>9, <4>1, <4>2, <4>3 DEF ParallelOrder, Active
    <3>5. pc' \in {"spawn", "wait"} \/ waiting' = <<>>
      BY <2>9, <3>1, <3>2 DEF Waited
    <3>6. pc' \in {"spawn", "wait", "parse"}
      BY <2>9 DEF Waited
    <3>7. pc' = "parse" => waiting' = <<>> /\ \A m \in mavens' : m.alone
      <4>1. DOMAIN <<>> = {}
        OBVIOUS
      <4> QED
        BY <3>4, <3>5, <4>1
    <3>8. \A i \in DOMAIN waiting' : waiting'[i] \notin todo'
      <4>1. \A i \in DOMAIN waiting : waiting[i] \notin todo
        BY <2>9 DEF ParallelOrder
      <4> QED
        BY <2>9, <3>2, <3>3, <4>1
    <3>9. \A m, n \in mavens' :
            ~m.alone /\ ~n.alone /\ ClassesOf(m.tests) = ClassesOf(n.tests) => m = n
      BY <2>9 DEF ParallelOrder, Active
    <3>10. todo \subseteq ClassesOf(TestsOf(selected)) /\ conf.of = round
           /\ DOMAIN selected \subseteq conf.params
      BY <2>9 DEF ParallelOrder
    <3> QED
      BY <2>9, <3>4, <3>6, <3>7, <3>8, <3>9, <3>10 DEF ParallelOrder, Active
  <2>10. CASE MavenEnded
    <3>1. /\ pc = "wait" /\ MavenOf(Head(waiting)) = {} /\ Waited
          /\ UNCHANGED <<round, selected, todo, conf, mavens>>
      BY <2>10 DEF MavenEnded, plan
    <3>2. \A m \in mavens' : ~m.alone => m \in mavens /\ ClassesOf(m.tests) # {Head(waiting)}
      BY <3>1 DEF MavenOf, ParallelOrder, Active
    <3> QED
      BY <2>9, <3>1, <3>2
  <2>11. CASE MavenTimeout
    <3>1. pc = "wait" /\ Waited /\ UNCHANGED <<round, selected, todo, conf>>
      BY <2>11 DEF MavenTimeout, plan
    <3>2. PICK m \in MavenOf(Head(waiting)) :
            \/ mavens' = mavens \ {m}
            \/ mavens' = (mavens \ {m}) \cup {[m EXCEPT !.alone = TRUE]}
      BY <2>11 DEF MavenTimeout
    <3>3. m \in mavens /\ ~m.alone /\ ClassesOf(m.tests) = {Head(waiting)}
      BY <3>2 DEF MavenOf
    <3>4. [m EXCEPT !.alone = TRUE].alone = TRUE
      BY <3>3 DEF Placed, TypeOK, MavenSet
    <3>5. \A n \in mavens : ~n.alone /\ n # m => ClassesOf(n.tests) # {Head(waiting)}
      BY <3>1, <3>3 DEF ParallelOrder, Active
    <3>6. \A n \in mavens' : ~n.alone => n \in mavens /\ ClassesOf(n.tests) # {Head(waiting)}
      BY <3>2, <3>4, <3>5
    <3> QED
      BY <2>9, <3>1, <3>6
  <2>12. CASE ParseClass \/ CleanUp \/ TraceClass
    <3>1. /\ pc \in {"parse", "clean", "trace"} /\ pc' \in {"parse", "clean", "trace", "judged"}
          /\ UNCHANGED <<waiting, mavens>>
      BY <2>12 DEF ParseClass, CleanUp, TraceClass
    <3> QED
      BY <3>1 DEF ParallelOrder, Active
  <2>13. CASE Reject \/ LookForMaven \/ EndSystemTest
    <3>1. /\ pc \in {"judged", "system"} /\ pc' \in {"idle", "system", "exited"}
          /\ UNCHANGED <<waiting, mavens>>
      BY <2>13 DEF Reject, LookForMaven, EndSystemTest
    <3> QED
      BY <3>1 DEF ParallelOrder, Active
  <2>14. CASE Abort
    BY <2>14 DEF Abort, ParallelOrder, Active
  <2>15. CASE UNCHANGED vars
    BY <2>15 DEF vars, plan, ParallelOrder, Active
  <2> QED
    BY <2>1, <2>2, <2>3, <2>4, <2>5, <2>6, <2>7, <2>8, <2>10, <2>11, <2>12, <2>13,
       <2>14, <2>15 DEF Next, MavenStep, TesterStep, Start, Grouped, Parallel, Validate
<1> QED
  BY <1>1, <1>2, PlacedInductive, AccountedInductive, PTL DEF Spec
-----------------------------------------------------------------------------
(* What counts as passed has been earned.                                  *)

\* What a report says was found with the test's own values, or by a Maven left alone.
Sound(report) ==
    report.kind = "full" =>
        \A t \in DOMAIN report.says :
            OwnValues(report.conf, t) \/ (setting.parallel /\ report.alone)

ReportsSound == Active => \A c \in Classes : Sound(reports[c])

Earned == PassEarned /\ ReportsSound

\* A recorded test that has not failed stands as passed in the report, on alluxio perhaps
\* as a failure without a text.
LEMMA RecordedAsPassed ==
    ASSUME NEW report, ReportOK(report), NEW tests, NEW alluxio \in BOOLEAN,
           NEW parsed \in Parsed(report, tests, alluxio), NEW t \in parsed.ran \ parsed.failed
    PROVE  /\ Says(report) /\ t \in DOMAIN report.says
           /\ report.says[t] = "pass" \/ (alluxio /\ report.says[t] = "blank")
<1>1. CASE Says(report) /\ Blanks(report) = {}
  <2>1. parsed.ran = tests
        /\ parsed.failed = {u \in tests : u \in Listed(report) => report.says[u] = "fail"}
    BY <1>1 DEF Parsed, ReadReport
  <2>2. t \in Listed(report) /\ report.says[t] # "fail"
    BY <2>1
  <2>3. report.says[t] # "blank"
    BY <1>1, <2>2 DEF Blanks
  <2>4. FullReport(report)
    BY <1>1 DEF Says, ReportOK, NoReport, TornReport
  <2>5. report.says[t] \in Results
    BY <1>1, <2>2, <2>4 DEF FullReport, Listed
  <2> QED
    BY <1>1, <2>2, <2>3, <2>5 DEF Results, Listed
<1>2. CASE ~(Says(report) /\ Blanks(report) = {}) /\ ~alluxio
  <2>1. parsed.ran = tests /\ parsed.failed = tests
    BY <1>2 DEF Parsed
  <2> QED
    BY <2>1
<1>3. CASE ~Says(report) /\ alluxio
  <2>1. parsed.ran = {}
    BY <1>3 DEF Parsed
  <2> QED
    BY <2>1
<1>4. CASE Says(report) /\ Blanks(report) # {} /\ alluxio
  <2>1. PICK before \in SUBSET (Listed(report) \ Blanks(report)), blank \in Blanks(report) :
          /\ parsed.ran = (before \cup {blank}) \cap tests
          /\ parsed.failed = {u \in before : report.says[u] = "fail"} \cap tests
    BY <1>4 DEF Parsed, BrokenOff
  <2>2. FullReport(report)
    BY <1>4 DEF Says, ReportOK, NoReport, TornReport
  <2>3. CASE t \in before
    <3>1. t \in Listed(report) /\ report.says[t] # "blank" /\ report.says[t] # "fail"
      BY <2>1, <2>3 DEF Blanks
    <3>2. report.says[t] \in Results
      BY <1>4, <2>2, <3>1 DEF FullReport, Listed
    <3> QED
      BY <1>4, <3>1, <3>2 DEF Results, Listed
  <2>4. CASE t = blank
    BY <1>4, <2>4 DEF Blanks, Listed
  <2> QED
    BY <2>1, <2>3, <2>4
<1> QED
  BY <1>1, <1>2, <1>3, <1>4

LEMMA RecordEarned ==
    ASSUME TypeOK, PassEarned, UNCHANGED <<setting, round, selected>>,
           NEW report, ReportOK(report), Sound(report), NEW tests, Record(report, tests)
    PROVE  PassEarned'
<1>1. PICK parsed \in Parsed(report, tests, setting.alluxio) :
        /\ results' = [t \in DOMAIN results \cup parsed.ran |->
                        IF t \in parsed.ran THEN Entry(report, t) ELSE results[t]]
        /\ failed' = failed \cup (parsed.failed \cap parsed.ran)
  BY DEF Record
<1> SUFFICES ASSUME NEW t \in Passed'
             PROVE  /\ \/ results'[t].says = "pass"
                       \/ setting.alluxio /\ results'[t].says = "blank"
                    /\ \/ OwnValues(results'[t].conf, t)
                       \/ setting.parallel /\ results'[t].alone
  BY DEF PassEarned, OwnValues
<1>2. CASE t \in parsed.ran
  <2>1. t \notin parsed.failed
    BY <1>1, <1>2 DEF Passed
  <2>2. setting.alluxio \in BOOLEAN
    BY DEF TypeOK, SettingSet
  <2>3. /\ Says(report) /\ t \in DOMAIN report.says
        /\ report.says[t] = "pass" \/ (setting.alluxio /\ report.says[t] = "blank")
    BY <1>1, <1>2, <2>1, <2>2, RecordedAsPassed
  <2>4. results'[t] = [says |-> report.says[t], of |-> report.of, conf |-> report.conf,
                       alone |-> report.alone]
    BY <1>1, <1>2, <2>3 DEF Entry, Listed
  <2>5. OwnValues(report.conf, t) \/ (setting.parallel /\ report.alone)
    BY <2>3 DEF Sound, Says
  <2> QED
    BY <2>3, <2>4, <2>5
<1>3. CASE t \notin parsed.ran
  <2>1. t \in Passed /\ results'[t] = results[t]
    BY <1>1, <1>3 DEF Passed
  <2> QED
    BY <2>1 DEF PassEarned
<1> QED
  BY <1>2, <1>3

LEMMA EarnedInductive == Spec => []Earned
<1>1. Init => Earned
  <2> SUFFICES ASSUME Init PROVE Earned
    OBVIOUS
  <2>1. Passed = {}
    BY DEF Init, Passed
  <2>2. \A c \in Classes : reports[c] = NoReport
    BY DEF Init
  <2> QED
    BY <2>1, <2>2 DEF Earned, PassEarned, ReportsSound, Sound, NoReport
<1>2. Earned /\ Placed /\ Accounted /\ GroupedOrder /\ ParallelOrder /\ [Next]_vars => Earned'
  <2> SUFFICES ASSUME Earned, Placed, Accounted, GroupedOrder, ParallelOrder, [Next]_vars
               PROVE  Earned'
    OBVIOUS
  <2>1. ASSUME UNCHANGED <<setting, round, selected, results, failed>>
        PROVE  PassEarned'
    BY <2>1 DEF Earned, PassEarned, Passed, OwnValues
  <2>3. ASSUME UNCHANGED <<setting, round, selected>>, Active' => Active,
               \A c \in Classes : reports'[c] \in {reports[c], TornReport, NoReport}
        PROVE  ReportsSound'
    BY <2>3 DEF Earned, ReportsSound, Sound, OwnValues, TornReport, NoReport
  <2>4. CASE BeginClass \/ ExitMaven
    <3>1. UNCHANGED <<pc, setting, round, selected, reports, results, failed>>
      BY <2>4 DEF BeginClass, ExitMaven, plan, verdict
    <3> QED
      BY <2>1, <2>3, <3>1 DEF Active, Earned
  <2>5. CASE EndClass
    <3>1. UNCHANGED <<pc, setting, round, selected, results, failed>>
      BY <2>5 DEF EndClass, plan, verdict
    <3>2. PICK m \in mavens : \E listed \in SUBSET OfClass(m.tests, m.class) :
            /\ m.class # Idle
            /\ \E says \in [listed -> Results] :
                 reports' = [reports EXCEPT ![m.class] =
                    [kind |-> "full", says |-> says, of |-> m.of, conf |-> m.conf,
                     alone |-> m.alone]]
      BY <2>5 DEF EndClass
    <3>3. PICK listed \in SUBSET OfClass(m.tests, m.class) :
            \E says \in [listed -> Results] :
               reports' = [reports EXCEPT ![m.class] =
                  [kind |-> "full", says |-> says, of |-> m.of, conf |-> m.conf,
                   alone |-> m.alone]]
      BY <3>2
    <3>4. PICK says \in [listed -> Results] :
            reports' = [reports EXCEPT ![m.class] =
               [kind |-> "full", says |-> says, of |-> m.of, conf |-> m.conf,
                alone |-> m.alone]]
      BY <3>3
    <3> DEFINE report == [kind |-> "full", says |-> says, of |-> m.of, conf |-> m.conf,
                          alone |-> m.alone]
    <3>5. CASE Active
      <4>1. \A t \in listed : OwnValues(m.conf, t) \/ (setting.parallel /\ m.alone)
        <5>1. CASE setting.parallel /\ ~m.alone
          BY <3>2, <3>5, <5>1 DEF ParallelOrder, OwnValues
        <5>2. CASE ~setting.parallel
          <6>1. pc = "wait" /\ m.tests = current.tests /\ m.conf = conf
            BY <3>2, <3>5, <5>2 DEF GroupedOrder
          <6>2. conf = [of |-> round, params |-> current.params]
            BY <5>2, <6>1 DEF GroupedOrder
          <6>3. \A t \in listed : Signature(selected, t) = current.params
            BY <5>2, <6>1 DEF GroupedOrder, OfClass
          <6> QED
            BY <5>2, <6>1, <6>2, <6>3 DEF OwnValues
        <5> QED
          BY <5>1, <5>2
      <4>2. Sound(report)
        BY <3>4, <4>1 DEF Sound
      <4>3. \A c \in Classes : reports'[c] = reports[c] \/ reports'[c] = report
        BY <3>4 DEF Placed, TypeOK
      <4>4. \A c \in Classes : Sound(reports'[c])
        BY <3>5, <4>2, <4>3 DEF Earned, ReportsSound
      <4> QED
        BY <2>1, <3>1, <4>4 DEF Earned, ReportsSound, Sound, OwnValues
    <3> QED
      BY <2>1, <3>1, <3>5 DEF Earned, ReportsSound, Active
  <2>6. CASE StartUnmapped \/ StartGrouped \/ StartParallel
    <3>1. results' = <<>> /\ reports' = Deleted(reports)
      BY <2>6 DEF StartUnmapped, StartGrouped, StartParallel, Select
    <3>2. Passed' = {}
      BY <3>1 DEF Passed
    <3>3. \A c \in Classes : reports'[c] = NoReport
      BY <3>1 DEF Deleted
    <3> QED
      BY <3>2, <3>3 DEF Earned, PassEarned, ReportsSound, Sound, NoReport
  <2>7. CASE StartGroup \/ GroupEnded \/ FinishGroups \/ Spawn \/ MavenEnded \/ CleanUp
             \/ TraceClass
    <3>1. pc \notin {"exited", "aborted"} /\ UNCHANGED <<setting, round, selected, reports, results,
                                                         failed>>
      BY <2>7 DEF StartGroup, GroupEnded, FinishGroups, Spawn, MavenEnded, CleanUp, TraceClass,
                  plan, verdict
    <3> QED
      BY <2>1, <2>3, <3>1 DEF Active, Earned
  <2>8. CASE GroupTimeout \/ MavenTimeout
    <3>1. pc = "wait" /\ UNCHANGED <<setting, round, selected, results, failed>>
      BY <2>8 DEF GroupTimeout, MavenTimeout, plan, verdict
    <3>2. \A c \in Classes : reports'[c] \in {reports[c], TornReport}
      BY <2>8 DEF GroupTimeout, MavenTimeout, MayTear, Placed, TypeOK
    <3> QED
      BY <2>1, <2>3, <3>1, <3>2 DEF Active, Earned
  <2>9. CASE ParseGroup
    <3>1. PICK class \in ClassesOf(current.tests) :
            Record(reports[class], OfClass(current.tests, class))
      BY <2>9 DEF ParseGroup
    <3>2. pc = "parse" /\ UNCHANGED <<setting, round, selected, reports>>
      BY <2>9 DEF ParseGroup, plan
    <3>3. class \in Classes
      BY <3>1, ClassesTyped DEF Placed, TypeOK
    <3>4. ReportOK(reports[class]) /\ Sound(reports[class])
      BY <3>2, <3>3 DEF Placed, TypeOK, ReportOK, Earned, ReportsSound, Active
    <3>5. PassEarned'
      BY <3>1, <3>2, <3>4, RecordEarned DEF Placed, Earned
    <3> QED
      BY <2>3, <3>2, <3>5 DEF Active, Earned
  <2>10. CASE ParseClass
    <3>1. PICK class \in unparsed :
            Record(reports[class], OfClass(TestsOf(selected), class))
      BY <2>10 DEF ParseClass
    <3>2. pc = "parse" /\ UNCHANGED <<setting, round, selected, reports>>
      BY <2>10 DEF ParseClass, plan
    <3>3. class \in Classes
      BY <3>1 DEF Placed, TypeOK
    <3>4. ReportOK(reports[class]) /\ Sound(reports[class])
      BY <3>2, <3>3 DEF Placed, TypeOK, ReportOK, Earned, ReportsSound, Active
    <3>5. PassEarned'
      BY <3>1, <3>2, <3>4, RecordEarned DEF Placed, Earned
    <3> QED
      BY <2>3, <3>2, <3>5 DEF Active, Earned
  <2>11. CASE Reject \/ LookForMaven \/ EndSystemTest \/ Abort
    <3>1. /\ pc \notin {"exited", "aborted"}
          /\ UNCHANGED <<setting, round, selected, reports, results, failed>>
      BY <2>11 DEF Reject, LookForMaven, EndSystemTest, Abort, plan, verdict
    <3> QED
      BY <2>1, <2>3, <3>1 DEF Active, Earned
  <2>12. CASE UNCHANGED vars
    BY <2>1, <2>3, <2>12 DEF vars, plan, verdict, Active, Earned
  <2> QED
    BY <2>4, <2>5, <2>6, <2>7, <2>8, <2>9, <2>10, <2>11, <2>12
    DEF Next, MavenStep, TesterStep, Start, Grouped, Parallel, Validate
<1> QED
  BY <1>1, <1>2, PlacedInductive, AccountedInductive, GroupedOrderInductive,
     ParallelOrderInductive, PTL DEF Spec

\* A test that counts as passed stands as passed in a report and ran with exactly the
\* values of its own group, for any number of groups and classes and any order in which
\* Mavens end, are killed, tear their reports or are left alone.
THEOREM PassesEarned == Spec => []PassEarned
<1>1. Earned => PassEarned
  BY DEF Earned
<1> QED
  BY <1>1, EarnedInductive, PTL
-----------------------------------------------------------------------------
(* Where a result comes from.                                              *)

\* The classes whose report a Maven has still to write.
Ahead(m) == m.left \cup ({m.class} \ {Idle})

\* No two Mavens of a test case work on one class.
OneWriter ==
    /\ \A m \in mavens : m.of <= round /\ (m.class # Idle => m.class \notin m.left)
    /\ \A m, n \in mavens : m.of = n.of /\ Ahead(m) \cap Ahead(n) # {} => m = n

\* Whoever is still to write the report of a class has written neither the one that lies
\* there nor what was recorded of the class.
WritersDone ==
    /\ \A c \in Classes : Says(reports[c]) =>
         \A m \in mavens : m.of = reports[c].of => c \notin Ahead(m)
    /\ \A t \in DOMAIN results : results[t].says # "nothing" =>
         \A m \in mavens : m.of = results[t].of => ClassOf[t] \notin Ahead(m)

\* Nothing is recorded while Mavens are started, and none is at work on a class for which
\* one is still to be started.
Unstarted ==
    pc \in {"spawn", "wait"} =>
        /\ DOMAIN results = {} /\ todo \subseteq unparsed
        /\ \A m \in mavens : m.of = round => Ahead(m) \cap todo = {}
        /\ \A c \in todo : Says(reports[c]) => reports[c].of # round

\* In parallel a test case has one Maven for each class, which writes its report once.
WrittenOnce ==
    setting.parallel =>
        OneWriter /\ WritersDone /\ Unstarted /\ DOMAIN results \subseteq TestsOf(selected)

\* What a step of one Maven leaves of the others.
LEMMA OneMoves ==
    ASSUME OneWriter, NEW m \in mavens, NEW m2, mavens' = (mavens \ {m}) \cup {m2},
           m2.of = m.of, Ahead(m2) \subseteq Ahead(m), round' = round,
           m2.class # Idle => m2.class \notin m2.left
    PROVE  /\ OneWriter'
           /\ \A n \in mavens' : \E o \in mavens : o.of = n.of /\ Ahead(n) \subseteq Ahead(o)
           /\ \A n \in mavens' : n \in mavens \ {m} \/ n = m2
<1>1. \A n \in mavens' : n \in mavens \ {m} \/ n = m2
  OBVIOUS
<1>2. \A n \in mavens' : \E o \in mavens : o.of = n.of /\ Ahead(n) \subseteq Ahead(o)
  BY <1>1
<1>3. \A n \in mavens' : n.of <= round' /\ (n.class # Idle => n.class \notin n.left)
  BY <1>1 DEF OneWriter
<1>4. \A n, o \in mavens' : n.of = o.of /\ Ahead(n) \cap Ahead(o) # {} => n = o
  <2> SUFFICES ASSUME NEW n \in mavens', NEW o \in mavens', n.of = o.of,
                      NEW c \in Ahead(n) \cap Ahead(o)
               PROVE  n = o
    OBVIOUS
  <2>1. CASE n \in mavens \ {m} /\ o \in mavens \ {m}
    BY <2>1 DEF OneWriter
  <2>2. CASE n \in mavens \ {m} /\ o = m2
    BY <2>2 DEF OneWriter
  <2>3. CASE n = m2 /\ o \in mavens \ {m}
    BY <2>3 DEF OneWriter
  <2>4. CASE n = m2 /\ o = m2
    BY <2>4
  <2> QED
    BY <1>1, <2>1, <2>2, <2>3, <2>4
<1>5. OneWriter'
  BY <1>3, <1>4 DEF OneWriter, Ahead
<1> QED
  BY <1>1, <1>2, <1>5

\* A Maven that begins a class, that ends one, and that is left alone.
LEMMA MavenBegins ==
    ASSUME NEW m \in MavenSet, NEW class \in m.left, NEW m2,
           m2 = [m EXCEPT !.class = class, !.left = @ \ {class}, !.conf = conf]
    PROVE  /\ m2.of = m.of /\ m2.alone = m.alone /\ Ahead(m2) \subseteq Ahead(m)
           /\ m2.class # Idle => m2.class \notin m2.left
BY DEF MavenSet, Ahead

LEMMA MavenEnds ==
    ASSUME NEW m \in MavenSet, NEW m2, m2 = [m EXCEPT !.class = Idle]
    PROVE  /\ m2.of = m.of /\ m2.alone = m.alone /\ m2.class = Idle /\ m2.left = m.left
           /\ Ahead(m2) = m.left
BY DEF MavenSet, Ahead

LEMMA MavenLeft ==
    ASSUME NEW m \in MavenSet, NEW m2, m2 = [m EXCEPT !.alone = TRUE]
    PROVE  /\ m2.of = m.of /\ m2.class = m.class /\ m2.left = m.left
           /\ Ahead(m2) = Ahead(m)
BY DEF MavenSet, Ahead

\* What was recorded of a report is of the Maven that wrote it.
LEMMA RecordOfReport ==
    ASSUME NEW report, NEW tests, Record(report, tests)
    PROVE  /\ DOMAIN results' \subseteq DOMAIN results \cup tests
           /\ \A t \in DOMAIN results' :
                \/ t \in DOMAIN results /\ results'[t] = results[t]
                \/ t \in tests /\ results'[t] = Entry(report, t)
           /\ failed \subseteq failed'
<1>1. PICK parsed \in Parsed(report, tests, setting.alluxio) :
        /\ results' = [t \in DOMAIN results \cup parsed.ran |->
                        IF t \in parsed.ran THEN Entry(report, t) ELSE results[t]]
        /\ failed' = failed \cup (parsed.failed \cap parsed.ran)
  BY DEF Record
<1>2. parsed.ran \subseteq tests
  BY <1>1 DEF Parsed, ReadReport
<1> QED
  BY <1>1, <1>2

LEMMA EntryOf ==
    ASSUME NEW report, NEW t, Entry(report, t).says # "nothing"
    PROVE  /\ Says(report) /\ t \in Listed(report) /\ Entry(report, t).of = report.of
           /\ Entry(report, t).alone = report.alone
BY DEF Entry, NoEntry, Listed

\* A step that parses nothing and writes no report.
LEMMA NoneWritten ==
    ASSUME TypeOK, WritersDone, Unstarted,
           UNCHANGED <<pc, round, todo, unparsed, results>>,
           \A c \in Classes : reports'[c] = reports[c] \/ ~Says(reports'[c]),
           \A n \in mavens' : \E o \in mavens : o.of = n.of /\ Ahead(n) \subseteq Ahead(o)
    PROVE  WritersDone' /\ Unstarted'
<1>1. \A c \in Classes : Says(reports'[c]) =>
        \A m \in mavens' : m.of = reports'[c].of => c \notin Ahead(m)
  BY DEF WritersDone
<1>2. \A t \in DOMAIN results : results[t].says # "nothing" =>
        \A m \in mavens' : m.of = results[t].of => ClassOf[t] \notin Ahead(m)
  BY DEF WritersDone
<1>3. WritersDone'
  BY <1>1, <1>2 DEF WritersDone, Ahead, Says
<1>4. ASSUME pc \in {"spawn", "wait"}
      PROVE  /\ \A n \in mavens' : n.of = round => Ahead(n) \cap todo = {}
             /\ \A c \in todo : Says(reports'[c]) => reports'[c].of # round
             /\ DOMAIN results = {} /\ todo \subseteq unparsed
  BY <1>4 DEF Unstarted, TypeOK
<1>5. Unstarted'
  BY <1>4 DEF Unstarted, Ahead, Says
<1> QED
  BY <1>3, <1>5

LEMMA WrittenOnceInductive == Spec => []WrittenOnce
<1>1. Init => WrittenOnce
  BY DEF Init, WrittenOnce, OneWriter, WritersDone, Unstarted, Says, NoReport
<1>2. WrittenOnce /\ Placed /\ Accounted /\ ParallelOrder /\ [Next]_vars => WrittenOnce'
  <2> SUFFICES ASSUME WrittenOnce, Placed, Accounted, ParallelOrder, [Next]_vars,
                      setting.parallel, setting' = setting
               PROVE  WrittenOnce'
    BY SettingKept DEF WrittenOnce
  <2>0. TypeOK /\ OneWriter /\ WritersDone /\ Unstarted /\ DOMAIN results \subseteq TestsOf(selected)
    BY DEF WrittenOnce, Placed
  <2>2. CASE BeginClass
    <3>1. UNCHANGED <<pc, round, selected, todo, unparsed, results, reports>>
      BY <2>2 DEF BeginClass, plan, verdict
    <3>2. PICK m \in mavens : \E class \in m.left :
            mavens' = (mavens \ {m}) \cup
                        {[m EXCEPT !.class = class, !.left = @ \ {class}, !.conf = conf]}
      BY <2>2 DEF BeginClass
    <3>3. PICK class \in m.left :
            mavens' = (mavens \ {m}) \cup
                        {[m EXCEPT !.class = class, !.left = @ \ {class}, !.conf = conf]}
      BY <3>2
    <3> DEFINE m2 == [m EXCEPT !.class = class, !.left = @ \ {class}, !.conf = conf]
    <3>4. /\ m2.of = m.of /\ Ahead(m2) \subseteq Ahead(m)
          /\ m2.class # Idle => m2.class \notin m2.left
      <4>1. m \in MavenSet
        BY <2>0, <3>2 DEF TypeOK
      <4> QED
        BY <3>3, <4>1, MavenBegins
    <3>5. mavens' = (mavens \ {m}) \cup {m2}
      BY <3>3
    <3> HIDE DEF m2
    <3> QED
      BY <2>0, <3>1, <3>4, <3>5, OneMoves, NoneWritten DEF WrittenOnce
  <2>3. CASE EndClass
    <3>1. UNCHANGED <<pc, round, selected, todo, unparsed, results>>
      BY <2>3 DEF EndClass, plan, verdict
    <3>2. PICK m \in mavens : \E listed \in SUBSET OfClass(m.tests, m.class) :
            /\ m.class # Idle
            /\ \E says \in [listed -> Results] :
                 reports' = [reports EXCEPT ![m.class] =
                    [kind |-> "full", says |-> says, of |-> m.of, conf |-> m.conf,
                     alone |-> m.alone]]
            /\ mavens' = (mavens \ {m}) \cup {[m EXCEPT !.class = Idle]}
      BY <2>3 DEF EndClass
    <3>3. /\ \A c \in Classes : c # m.class => reports'[c] = reports[c]
          /\ m.class \in Classes => reports'[m.class].of = m.of
      BY <2>0, <3>2 DEF TypeOK
    <3>4. m.class \in Classes /\ m.class # Idle /\ m.class \in Ahead(m) /\ m.class \notin m.left
      BY <2>0, <3>2 DEF TypeOK, MavenSet, OneWriter, Ahead
    <3> DEFINE m2 == [m EXCEPT !.class = Idle]
    <3>5. m2.of = m.of /\ Ahead(m2) = m.left /\ m2.class = Idle
      <4>1. m \in MavenSet
        BY <2>0, <3>2 DEF TypeOK
      <4> QED
        BY <4>1, MavenEnds
    <3>6. mavens' = (mavens \ {m}) \cup {m2}
      BY <3>2
    <3> HIDE DEF m2
    <3>7. Ahead(m2) \subseteq Ahead(m) \ {m.class}
      BY <3>4, <3>5 DEF Ahead
    <3>8. /\ OneWriter'
          /\ \A n \in mavens' : \E o \in mavens : o.of = n.of /\ Ahead(n) \subseteq Ahead(o)
          /\ \A n \in mavens' : n \in mavens \ {m} \/ n = m2
      BY <2>0, <3>1, <3>5, <3>6, <3>7, OneMoves
    <3>9. \A n \in mavens' : n.of = m.of => m.class \notin Ahead(n)
      BY <2>0, <3>4, <3>7, <3>8 DEF OneWriter
    <3>10. WritersDone'
      <4>1. \A c \in Classes : Says(reports'[c]) =>
              \A n \in mavens' : n.of = reports'[c].of => c \notin Ahead(n)
        BY <2>0, <3>3, <3>8, <3>9 DEF WritersDone
      <4>2. \A t \in DOMAIN results : results[t].says # "nothing" =>
              \A n \in mavens' : n.of = results[t].of => ClassOf[t] \notin Ahead(n)
        BY <2>0, <3>8 DEF WritersDone
      <4> QED
        BY <3>1, <4>1, <4>2 DEF WritersDone, Ahead, Says
    <3>11. Unstarted'
      <4> SUFFICES ASSUME pc \in {"spawn", "wait"}
                   PROVE  /\ \A n \in mavens' : n.of = round => Ahead(n) \cap todo = {}
                          /\ \A c \in todo : Says(reports'[c]) => reports'[c].of # round
                          /\ DOMAIN results = {} /\ todo \subseteq unparsed
        BY <3>1 DEF Unstarted, Ahead, Says
      <4>1. m.class \in todo => m.of # round
        BY <2>0, <3>4 DEF Unstarted
      <4>2. \A c \in todo : c \in Classes
        BY <2>0 DEF Unstarted, TypeOK
      <4>3. \A c \in todo : Says(reports'[c]) => reports'[c].of # round
        BY <2>0, <3>3, <3>4, <4>1, <4>2 DEF Unstarted
      <4> QED
        BY <2>0, <3>8, <4>3 DEF Unstarted
    <3> QED
      BY <2>0, <3>1, <3>8, <3>10, <3>11 DEF WrittenOnce
  <2>4. CASE ExitMaven
    <3>1. /\ UNCHANGED <<pc, round, selected, todo, unparsed, results, reports>>
          /\ mavens' \subseteq mavens
      BY <2>4 DEF ExitMaven, plan, verdict
    <3>2. OneWriter'
      BY <2>0, <3>1 DEF OneWriter, Ahead
    <3> QED
      BY <2>0, <3>1, <3>2, NoneWritten DEF WrittenOnce
  <2>5. CASE StartUnmapped \/ StartParallel
    <3>1. /\ round' = round + 1 /\ mavens' = mavens /\ DOMAIN results' = {}
          /\ reports' = [c \in Classes |-> NoReport]
      BY <2>5 DEF StartUnmapped, StartParallel, Select, Deleted
    <3>2. pc' = "judged" \/ (pc' = "spawn" /\ todo' = unparsed')
      BY <2>5 DEF StartUnmapped, StartParallel
    <3>3. \A m \in mavens : m.of <= round /\ m.of \in Nat /\ round \in Nat
      BY <2>0, BatchedAssumption DEF TypeOK, MavenSet, OneWriter
    <3>4. \A m \in mavens : m.of <= round + 1 /\ m.of # round + 1
      BY <3>3
    <3>5. \A c \in Classes : ~Says(reports'[c])
      BY <3>1 DEF Says, NoReport
    <3>6. OneWriter'
      BY <2>0, <3>1, <3>4 DEF OneWriter, Ahead
    <3>7. WritersDone'
      BY <3>1, <3>5 DEF WritersDone
    <3>8. Unstarted'
      <4>1. pc' = "spawn" => \A c \in todo' : ~Says(reports'[c])
        <5>1. pc' = "spawn" => todo' \subseteq Classes
          <6>1. CASE StartParallel
            <7>1. PICK params \in Inputs : Select(params)
              BY <6>1 DEF StartParallel
            <7>2. params \in SUBSET Params
              BY BatchedAssumption
            <7>3. /\ DOMAIN selected' \subseteq params
                  /\ \A p \in DOMAIN selected' : selected'[p] \subseteq Tests
              BY <7>1, <7>2, SelectionsTyped DEF Select
            <7>4. TestsOf(selected') \subseteq Tests
              BY <7>3 DEF TestsOf
            <7> QED
              BY <6>1, <7>4, ClassesTyped DEF StartParallel
          <6>2. CASE StartUnmapped
            BY <6>2 DEF StartUnmapped
          <6> QED
            BY <2>5, <6>1, <6>2
        <5> QED
          BY <3>5, <5>1
      <4> QED
        BY <3>1, <3>2, <3>4, <4>1 DEF Unstarted
    <3> QED
      BY <3>1, <3>6, <3>7, <3>8 DEF WrittenOnce
  <2>6. CASE StartGrouped \/ StartGroup \/ GroupEnded \/ GroupTimeout \/ ParseGroup \/ FinishGroups
    BY <2>6 DEF StartGrouped, StartGroup, GroupEnded, GroupTimeout, ParseGroup, FinishGroups,
                Accounted
  <2>7. CASE Spawn
    <3>1. pc = "spawn" /\ UNCHANGED <<round, selected, unparsed, reports, results>>
      BY <2>7 DEF Spawn, plan, verdict
    <3>2. PICK class \in todo :
            /\ todo' = todo \ {class}
            /\ mavens' = mavens \cup {NewMaven(OfClass(TestsOf(selected), class))}
      BY <2>7 DEF Spawn
    <3> DEFINE m2 == NewMaven(OfClass(TestsOf(selected), class))
    <3>3. class \in ClassesOf(TestsOf(selected))
      BY <3>1, <3>2 DEF ParallelOrder
    <3>4. m2.of = round /\ m2.class = Idle /\ Ahead(m2) = {class}
      BY <3>3, ClassOfClass DEF NewMaven, Ahead
    <3>5. mavens' = mavens \cup {m2}
      BY <3>2
    <3> HIDE DEF m2
    <3>6. round \in Nat
      BY <2>0, BatchedAssumption DEF TypeOK
    <3>7. \A n \in mavens : n.of = round => class \notin Ahead(n)
      BY <2>0, <3>1, <3>2 DEF Unstarted
    <3>8. OneWriter'
      <4>1. \A n \in mavens' : n.of <= round /\ (n.class # Idle => n.class \notin n.left)
        BY <2>0, <3>4, <3>5, <3>6 DEF OneWriter
      <4>2. \A n, o \in mavens' : n.of = o.of /\ Ahead(n) \cap Ahead(o) # {} => n = o
        BY <2>0, <3>4, <3>5, <3>7 DEF OneWriter
      <4> QED
        BY <3>1, <4>1, <4>2 DEF OneWriter, Ahead
    <3>9. class \in Classes /\ Says(reports[class]) => reports[class].of # round
      BY <2>0, <3>1, <3>2 DEF Unstarted
    <3>10. WritersDone'
      <4>1. \A c \in Classes : Says(reports[c]) =>
              \A n \in mavens' : n.of = reports[c].of => c \notin Ahead(n)
        BY <2>0, <3>4, <3>5, <3>9 DEF WritersDone
      <4>2. DOMAIN results = {}
        BY <2>0, <3>1 DEF Unstarted
      <4> QED
        BY <3>1, <4>1, <4>2 DEF WritersDone, Ahead, Says
    <3>11. Unstarted'
      <4>1. /\ DOMAIN results = {} /\ todo \subseteq unparsed
            /\ \A c \in todo : Says(reports[c]) => reports[c].of # round
            /\ \A n \in mavens' : n.of = round => Ahead(n) \cap (todo \ {class}) = {}
        BY <2>0, <3>1, <3>4, <3>5 DEF Unstarted
      <4> QED
        BY <3>1, <3>2, <4>1 DEF Unstarted, Ahead, Says
    <3> QED
      BY <2>0, <3>1, <3>8, <3>10, <3>11 DEF WrittenOnce
  <2>8. CASE MavenEnded
    <3>1. /\ UNCHANGED <<round, selected, todo, unparsed, results, reports, mavens>> /\ pc = "wait"
      BY <2>8 DEF MavenEnded, plan, verdict
    <3> QED
      BY <2>0, <3>1 DEF WrittenOnce, OneWriter, WritersDone, Unstarted, Ahead
  <2>9. CASE MavenTimeout
    <3>1. /\ UNCHANGED <<round, selected, todo, unparsed, results>> /\ pc = "wait"
      BY <2>9 DEF MavenTimeout, plan, verdict
    <3>2. PICK m \in MavenOf(Head(waiting)) :
            \/ MayTear(m) /\ mavens' = mavens \ {m}
            \/ mavens' = (mavens \ {m}) \cup {[m EXCEPT !.alone = TRUE]} /\ UNCHANGED reports
      BY <2>9 DEF MavenTimeout
    <3>3. m \in mavens
      BY <3>2 DEF MavenOf
    <3>4. \A c \in Classes : reports'[c] = reports[c] \/ ~Says(reports'[c])
      BY <2>0, <3>2 DEF MayTear, TornReport, Says, TypeOK
    <3>5. /\ OneWriter'
          /\ \A n \in mavens' : \E o \in mavens : o.of = n.of /\ Ahead(n) \subseteq Ahead(o)
      <4>1. CASE mavens' = mavens \ {m}
        BY <2>0, <3>1, <4>1 DEF OneWriter, Ahead
      <4>2. CASE mavens' = (mavens \ {m}) \cup {[m EXCEPT !.alone = TRUE]}
        <5> DEFINE m2 == [m EXCEPT !.alone = TRUE]
        <5>1. /\ m2.of = m.of /\ Ahead(m2) = Ahead(m) /\ m2.class = m.class /\ m2.left = m.left
          <6>1. m \in MavenSet
            BY <2>0, <3>3 DEF TypeOK
          <6> QED
            BY <6>1, MavenLeft
        <5>2. m2.class # Idle => m2.class \notin m2.left
          BY <2>0, <3>3, <5>1 DEF OneWriter
        <5>3. mavens' = (mavens \ {m}) \cup {m2}
          BY <4>2
        <5> HIDE DEF m2
        <5> QED
          BY <2>0, <3>1, <3>3, <5>1, <5>2, <5>3, OneMoves
      <4> QED
        BY <3>2, <4>1, <4>2
    <3>6. WritersDone'
      <4>1. \A c \in Classes : Says(reports'[c]) =>
              \A n \in mavens' : n.of = reports'[c].of => c \notin Ahead(n)
        BY <2>0, <3>4, <3>5 DEF WritersDone
      <4>2. \A t \in DOMAIN results : results[t].says # "nothing" =>
              \A n \in mavens' : n.of = results[t].of => ClassOf[t] \notin Ahead(n)
        BY <2>0, <3>5 DEF WritersDone
      <4> QED
        BY <3>1, <4>1, <4>2 DEF WritersDone, Ahead, Says
    <3>7. Unstarted'
      <4>1. /\ \A n \in mavens' : n.of = round => Ahead(n) \cap todo = {}
            /\ \A c \in todo : Says(reports'[c]) => reports'[c].of # round
            /\ DOMAIN results = {} /\ todo \subseteq unparsed
        BY <2>0, <3>1, <3>4, <3>5 DEF Unstarted, TypeOK
      <4> QED
        BY <3>1, <4>1 DEF Unstarted, Ahead, Says
    <3> QED
      BY <2>0, <3>1, <3>5, <3>6, <3>7 DEF WrittenOnce
  <2>10. CASE ParseClass
    <3>1. PICK class \in unparsed :
            Record(reports[class], OfClass(TestsOf(selected), class))
      BY <2>10 DEF ParseClass
    <3>2. /\ pc = "parse" /\ pc' \in {"clean", "parse"}
          /\ UNCHANGED <<round, selected, reports, mavens>>
      BY <2>10 DEF ParseClass, plan
    <3>3. /\ DOMAIN results' \subseteq DOMAIN results \cup OfClass(TestsOf(selected), class)
          /\ \A t \in DOMAIN results' :
               \/ t \in DOMAIN results /\ results'[t] = results[t]
               \/ /\ t \in OfClass(TestsOf(selected), class)
                  /\ results'[t] = Entry(reports[class], t)
      BY <3>1, RecordOfReport
    <3>4. DOMAIN results' \subseteq TestsOf(selected)
      BY <2>0, <3>3 DEF OfClass
    <3>5. class \in Classes
      BY <2>0, <3>1 DEF TypeOK
    <3>6. \A t \in DOMAIN results' : results'[t].says # "nothing" =>
            \A m \in mavens : m.of = results'[t].of => ClassOf[t] \notin Ahead(m)
      <4> SUFFICES ASSUME NEW t \in DOMAIN results', results'[t].says # "nothing",
                          NEW m \in mavens, m.of = results'[t].of
                   PROVE  ClassOf[t] \notin Ahead(m)
        OBVIOUS
      <4>1. CASE t \in DOMAIN results /\ results'[t] = results[t]
        BY <2>0, <4>1 DEF WritersDone
      <4>2. CASE t \in OfClass(TestsOf(selected), class) /\ results'[t] = Entry(reports[class], t)
        <5>1. Says(reports[class]) /\ results'[t].of = reports[class].of
          BY <4>2, EntryOf
        <5> QED
          BY <2>0, <3>5, <4>2, <5>1 DEF WritersDone, OfClass
      <4> QED
        BY <3>3, <4>1, <4>2
    <3>7. WritersDone'
      BY <2>0, <3>2, <3>6 DEF WritersDone, Ahead, Says
    <3> QED
      BY <2>0, <3>2, <3>4, <3>7 DEF WrittenOnce, OneWriter, Unstarted, Ahead
  <2>11. CASE CleanUp \/ TraceClass \/ Reject \/ LookForMaven \/ EndSystemTest \/ Abort
    <3>1. /\ UNCHANGED <<round, selected, reports, mavens, results>>
          /\ pc' \notin {"spawn", "wait"}
      BY <2>11 DEF CleanUp, TraceClass, Reject, LookForMaven, EndSystemTest, Abort, plan, verdict
    <3> QED
      BY <2>0, <3>1 DEF WrittenOnce, OneWriter, WritersDone, Unstarted, Ahead
  <2>12. CASE UNCHANGED vars
    BY <2>0, <2>12 DEF vars, plan, verdict, WrittenOnce, OneWriter, WritersDone, Unstarted, Ahead
  <2> QED
    BY <2>2, <2>3, <2>4, <2>5, <2>6, <2>7, <2>8, <2>9, <2>10, <2>11, <2>12
    DEF Next, MavenStep, TesterStep, Start, Grouped, Parallel, Validate
<1> QED
  BY <1>1, <1>2, PlacedInductive, AccountedInductive, ParallelOrderInductive, PTL DEF Spec

\* The required gate rejects a test case while a Maven of it still works, or alluxio lets
\* it pass without that Maven's report.
Lenient == setting.required \/ setting.alluxio

\* What is not of this test case was written by a Maven left alone.
Origins ==
    /\ \A m \in mavens : m.of # round =>
         setting.parallel /\ m.alone /\ (Ahead(m) # {} => Lenient)
    /\ \A c \in Classes : Says(reports[c]) /\ reports[c].of # round =>
         setting.parallel /\ reports[c].alone /\ Lenient
    /\ ForeignNeedsRejection

\* Without the required gate and alluxio a class whose report a Maven has still to write is
\* not parsed yet, or it has counted as failed; and no such Maven is there when a test case
\* begins.
Pending ==
    setting.parallel /\ ~Lenient =>
        /\ pc \in {"spawn", "wait", "parse"} => unparsed \subseteq ClassesOf(TestsOf(selected))
        /\ \A m \in mavens : \A c \in Ahead(m) :
             /\ pc \notin {"idle", "system"}
             /\ pc \in {"spawn", "wait"} => c \in unparsed
             /\ pc = "parse" => c \in unparsed \/ failed # {}
             /\ pc \in {"clean", "trace", "judged"} => failed # {}

Sourced == Origins /\ Pending

\* A class that is parsed without a report has failed.
LEMMA SilentFails ==
    ASSUME NEW report, ~Says(report), ~setting.alluxio, NEW tests, NEW t \in tests,
           Record(report, tests)
    PROVE  failed' # {}
<1>1. PICK parsed \in Parsed(report, tests, setting.alluxio) :
        failed' = failed \cup (parsed.failed \cap parsed.ran)
  BY DEF Record
<1>2. parsed.ran = tests /\ parsed.failed = tests
  BY <1>1 DEF Parsed
<1> QED
  BY <1>1, <1>2

\* Where nothing is recorded, reported or begun by another Maven, everything stays sourced.
LEMMA SourcesStay ==
    ASSUME Origins, UNCHANGED <<setting, round, results>>,
           \A c \in Classes : reports'[c] = reports[c] \/ ~Says(reports'[c]),
           \A n \in mavens' : n.of # round =>
              \E o \in mavens : /\ o.of = n.of /\ Ahead(n) \subseteq Ahead(o)
                                /\ o.alone => n.alone
    PROVE  Origins'
<1>1. \A m \in mavens' : m.of # round =>
        setting.parallel /\ m.alone /\ (Ahead(m) # {} => Lenient)
  BY DEF Origins
<1>2. \A c \in Classes : Says(reports'[c]) /\ reports'[c].of # round =>
        setting.parallel /\ reports'[c].alone /\ Lenient
  BY DEF Origins
<1>3. ForeignNeedsRejection'
  BY DEF Origins, ForeignNeedsRejection
<1> QED
  BY <1>1, <1>2, <1>3 DEF Origins, Ahead, Says, Lenient

\* As long as the main thread does not move, neither does what is pending.
LEMMA PendingStays ==
    ASSUME Pending, UNCHANGED <<pc, setting, selected, unparsed, failed>>,
           \A n \in mavens' : \E o \in mavens : Ahead(n) \subseteq Ahead(o)
    PROVE  Pending'
<1>1. ASSUME setting.parallel, ~Lenient
      PROVE  \A m \in mavens' : \A c \in Ahead(m) :
             /\ pc \notin {"idle", "system"}
             /\ pc \in {"spawn", "wait"} => c \in unparsed
             /\ pc = "parse" => c \in unparsed \/ failed # {}
             /\ pc \in {"clean", "trace", "judged"} => failed # {}
  BY <1>1 DEF Pending
<1> QED
  BY <1>1 DEF Pending, Ahead, Lenient

LEMMA SourcedInductive == Spec => []Sourced
<1>1. Init => Sourced
  BY DEF Init, Sourced, Origins, Pending, ForeignNeedsRejection, Says, NoReport
<1>2. /\ Sourced /\ WrittenOnce /\ Placed /\ Accounted /\ GroupedOrder /\ ParallelOrder
      /\ [Next]_vars
      => Sourced'
  <2> SUFFICES ASSUME Sourced, WrittenOnce, Placed, Accounted, GroupedOrder, ParallelOrder,
                      [Next]_vars, setting' = setting
               PROVE  Sourced'
    BY SettingKept
  <2>0. TypeOK /\ Origins /\ Pending
    BY DEF Placed, Sourced
  <2>1. CASE BeginClass
    <3>1. UNCHANGED <<pc, round, selected, unparsed, results, reports, failed>>
      BY <2>1 DEF BeginClass, plan, verdict
    <3>2. PICK m \in mavens : \E class \in m.left :
            mavens' = (mavens \ {m}) \cup
                        {[m EXCEPT !.class = class, !.left = @ \ {class}, !.conf = conf]}
      BY <2>1 DEF BeginClass
    <3>3. PICK class \in m.left :
            mavens' = (mavens \ {m}) \cup
                        {[m EXCEPT !.class = class, !.left = @ \ {class}, !.conf = conf]}
      BY <3>2
    <3> DEFINE m2 == [m EXCEPT !.class = class, !.left = @ \ {class}, !.conf = conf]
    <3>4. m2.of = m.of /\ m2.alone = m.alone /\ Ahead(m2) \subseteq Ahead(m)
      <4>1. m \in MavenSet
        BY <2>0, <3>2 DEF TypeOK
      <4> QED
        BY <3>3, <4>1, MavenBegins
    <3>5. mavens' = (mavens \ {m}) \cup {m2}
      BY <3>3
    <3> HIDE DEF m2
    <3>6. \A n \in mavens' : \E o \in mavens :
            o.of = n.of /\ Ahead(n) \subseteq Ahead(o) /\ o.alone = n.alone
      BY <3>2, <3>4, <3>5
    <3> QED
      BY <2>0, <3>1, <3>6, SourcesStay, PendingStays DEF Sourced
  <2>2. CASE EndClass
    <3>1. UNCHANGED <<pc, round, selected, unparsed, results, failed>>
      BY <2>2 DEF EndClass, plan, verdict
    <3>2. PICK m \in mavens : \E listed \in SUBSET OfClass(m.tests, m.class) :
            /\ m.class # Idle
            /\ \E says \in [listed -> Results] :
                 reports' = [reports EXCEPT ![m.class] =
                    [kind |-> "full", says |-> says, of |-> m.of, conf |-> m.conf,
                     alone |-> m.alone]]
            /\ mavens' = (mavens \ {m}) \cup {[m EXCEPT !.class = Idle]}
      BY <2>2 DEF EndClass
    <3>3. m \in MavenSet /\ m.class \in Classes /\ m.class \in Ahead(m)
      BY <2>0, <3>2 DEF TypeOK, MavenSet, Ahead
    <3>4. /\ \A c \in Classes : c # m.class => reports'[c] = reports[c]
          /\ reports'[m.class].of = m.of /\ reports'[m.class].alone = m.alone
      BY <2>0, <3>2, <3>3 DEF TypeOK
    <3> DEFINE m2 == [m EXCEPT !.class = Idle]
    <3>5. m2.of = m.of /\ m2.alone = m.alone /\ Ahead(m2) \subseteq Ahead(m)
      BY <3>3, MavenEnds DEF Ahead
    <3>6. mavens' = (mavens \ {m}) \cup {m2}
      BY <3>2
    <3> HIDE DEF m2
    <3>7. \A n \in mavens' : \E o \in mavens :
            o.of = n.of /\ Ahead(n) \subseteq Ahead(o) /\ o.alone = n.alone
      BY <3>2, <3>5, <3>6
    <3>8. m.of # round => setting.parallel /\ m.alone /\ Lenient
      BY <2>0, <3>3 DEF Origins
    <3>9. \A c \in Classes : Says(reports'[c]) /\ reports'[c].of # round =>
            setting.parallel /\ reports'[c].alone /\ Lenient
      BY <2>0, <3>4, <3>8 DEF Origins
    <3>10. \A n \in mavens' : n.of # round =>
             setting.parallel /\ n.alone /\ (Ahead(n) # {} => Lenient)
      BY <2>0, <3>7 DEF Origins
    <3>11. ForeignNeedsRejection'
      BY <2>0, <3>1 DEF Origins, ForeignNeedsRejection
    <3>12. Origins'
      BY <3>1, <3>9, <3>10, <3>11 DEF Origins, Ahead, Says, Lenient
    <3> QED
      BY <2>0, <3>1, <3>7, <3>12, PendingStays DEF Sourced
  <2>3. CASE ExitMaven
    <3>1. /\ UNCHANGED <<pc, round, selected, unparsed, results, reports, failed>>
          /\ mavens' \subseteq mavens
      BY <2>3 DEF ExitMaven, plan, verdict
    <3> QED
      BY <2>0, <3>1, SourcesStay, PendingStays DEF Sourced
  <2>4. CASE StartUnmapped \/ StartGrouped \/ StartParallel
    <3>1. /\ pc = "idle" /\ round' = round + 1 /\ mavens' = mavens /\ DOMAIN results' = {}
          /\ reports' = [c \in Classes |-> NoReport]
          /\ pc' \in {"judged", "group", "spawn"}
          /\ pc' = "spawn" => unparsed' = ClassesOf(TestsOf(selected'))
      BY <2>4 DEF StartUnmapped, StartGrouped, StartParallel, Select, Deleted
    <3>2. \A m \in mavens : setting.parallel /\ m.alone
      <4>1. CASE setting.parallel
        BY <3>1, <4>1 DEF ParallelOrder, Active
      <4>2. CASE ~setting.parallel
        BY <3>1, <4>2 DEF GroupedOrder, Active
      <4> QED
        BY <4>1, <4>2
    <3>3. \A m \in mavens : Ahead(m) # {} => Lenient
      BY <2>0, <3>1, <3>2 DEF Pending
    <3>4. \A c \in Classes : ~Says(reports'[c])
      BY <3>1 DEF Says, NoReport
    <3>5. Origins'
      BY <3>1, <3>2, <3>3, <3>4 DEF Origins, ForeignNeedsRejection, Ahead, Says, Lenient
    <3>6. Pending'
      BY <3>1, <3>3 DEF Pending, Ahead, Lenient
    <3> QED
      BY <3>5, <3>6 DEF Sourced
  <2>5. CASE StartGroup
    <3>1. /\ UNCHANGED <<round, selected, results, reports>> /\ pc = "group"
      BY <2>5 DEF StartGroup, plan, verdict
    <3>2. PICK group \in todo : mavens' = mavens \cup {NewMaven(group.tests)}
      BY <2>5 DEF StartGroup
    <3>3. NewMaven(group.tests).of = round
      BY DEF NewMaven
    <3>4. Origins'
      BY <2>0, <3>1, <3>2, <3>3, SourcesStay
    <3>5. ~setting.parallel
      BY <3>1 DEF Accounted
    <3> QED
      BY <3>4, <3>5 DEF Sourced, Pending
  <2>6. CASE GroupEnded \/ FinishGroups
    <3>1. UNCHANGED <<round, results, reports, mavens>>
      BY <2>6 DEF GroupEnded, FinishGroups, plan, verdict
    <3>2. Origins'
      BY <2>0, <3>1, SourcesStay
    <3>3. ~setting.parallel
      BY <2>6 DEF GroupEnded, FinishGroups, Accounted
    <3> QED
      BY <3>2, <3>3 DEF Sourced, Pending
  <2>7. CASE GroupTimeout
    <3>1. UNCHANGED <<round, results>> /\ ~setting.parallel
      BY <2>7 DEF GroupTimeout, plan, verdict
    <3>2. PICK m \in mavens : MayTear(m) /\ mavens' = mavens \ {m}
      BY <2>7 DEF GroupTimeout
    <3>3. \A c \in Classes : reports'[c] = reports[c] \/ ~Says(reports'[c])
      BY <2>0, <3>2 DEF MayTear, TornReport, Says, TypeOK
    <3>4. Origins'
      BY <2>0, <3>1, <3>2, <3>3, SourcesStay
    <3> QED
      BY <3>1, <3>4 DEF Sourced, Pending
  <2>8. ASSUME UNCHANGED <<round, reports, mavens>>, NEW class \in Classes, NEW tests,
               Record(reports[class], tests)
        PROVE  Origins'
    <3>1. \A t \in DOMAIN results' :
             \/ t \in DOMAIN results /\ results'[t] = results[t]
             \/ t \in tests /\ results'[t] = Entry(reports[class], t)
      BY <2>8, RecordOfReport
    <3>2. \A t \in DOMAIN results' :
            results'[t].says # "nothing" /\ results'[t].of # round =>
              setting.parallel /\ results'[t].alone /\ Lenient
      <4> SUFFICES ASSUME NEW t \in DOMAIN results', results'[t].says # "nothing",
                          results'[t].of # round
                   PROVE  setting.parallel /\ results'[t].alone /\ Lenient
        OBVIOUS
      <4>1. CASE t \in DOMAIN results /\ results'[t] = results[t]
        BY <2>0, <4>1 DEF Origins, ForeignNeedsRejection, Lenient
      <4>2. CASE results'[t] = Entry(reports[class], t)
        <5>1. /\ Says(reports[class]) /\ results'[t].of = reports[class].of
              /\ results'[t].alone = reports[class].alone
          BY <4>2, EntryOf
        <5> QED
          BY <2>0, <2>8, <5>1 DEF Origins
      <4> QED
        BY <3>1, <4>1, <4>2
    <3>3. ForeignNeedsRejection'
      BY <2>8, <3>2 DEF ForeignNeedsRejection, Lenient
    <3> QED
      BY <2>0, <2>8, <3>3 DEF Origins, Ahead, Says, Lenient
  <2>9. CASE ParseGroup
    <3>1. PICK class \in ClassesOf(current.tests) :
            Record(reports[class], OfClass(current.tests, class))
      BY <2>9 DEF ParseGroup
    <3>2. UNCHANGED <<round, reports, mavens>> /\ ~setting.parallel
      BY <2>9 DEF ParseGroup, plan
    <3>3. class \in Classes
      BY <2>0, <3>1, ClassesTyped DEF TypeOK
    <3>4. Origins'
      BY <2>8, <3>1, <3>2, <3>3
    <3> QED
      BY <3>2, <3>4 DEF Sourced, Pending
  <2>10. CASE Spawn
    <3>1. /\ pc = "spawn" /\ pc' \in {"wait", "spawn"} /\ setting.parallel
          /\ UNCHANGED <<round, selected, unparsed, reports, results, failed>>
      BY <2>10 DEF Spawn, plan, verdict, Accounted
    <3>2. PICK class \in todo : mavens' = mavens \cup {NewMaven(OfClass(TestsOf(selected), class))}
      BY <2>10 DEF Spawn
    <3> DEFINE m2 == NewMaven(OfClass(TestsOf(selected), class))
    <3>3. class \in ClassesOf(TestsOf(selected)) /\ class \in unparsed
      BY <3>1, <3>2 DEF ParallelOrder, WrittenOnce, Unstarted
    <3>4. m2.of = round /\ Ahead(m2) = {class}
      BY <3>3, ClassOfClass DEF NewMaven, Ahead
    <3>5. mavens' = mavens \cup {m2}
      BY <3>2
    <3> HIDE DEF m2
    <3>6. Origins'
      BY <2>0, <3>1, <3>4, <3>5, SourcesStay
    <3>7. ~Lenient => \A m \in mavens' : \A c \in Ahead(m) : c \in unparsed
      BY <2>0, <3>1, <3>3, <3>4, <3>5 DEF Pending
    <3>8. Pending'
      BY <2>0, <3>1, <3>7 DEF Pending, Ahead, Lenient
    <3> QED
      BY <3>6, <3>8 DEF Sourced
  <2>11. CASE MavenEnded
    <3>1. /\ UNCHANGED <<round, selected, unparsed, results, reports, mavens, failed>>
          /\ pc = "wait" /\ pc' \in {"wait", "parse", "spawn"}
      BY <2>11 DEF MavenEnded, Waited, plan, verdict
    <3>2. Pending'
      BY <2>0, <3>1 DEF Pending, Ahead, Lenient
    <3> QED
      BY <2>0, <3>1, <3>2, SourcesStay DEF Sourced
  <2>12. CASE MavenTimeout
    <3>1. /\ UNCHANGED <<round, selected, unparsed, results, failed>>
          /\ pc = "wait" /\ pc' \in {"wait", "parse", "spawn"} /\ setting.parallel
      BY <2>12 DEF MavenTimeout, Waited, plan, verdict
    <3>2. PICK m \in MavenOf(Head(waiting)) :
            \/ MayTear(m) /\ mavens' = mavens \ {m}
            \/ mavens' = (mavens \ {m}) \cup {[m EXCEPT !.alone = TRUE]} /\ UNCHANGED reports
      BY <2>12 DEF MavenTimeout
    <3>3. m \in mavens /\ m.of = round /\ m \in MavenSet
      BY <2>0, <3>2 DEF MavenOf, TypeOK
    <3>4. \A c \in Classes : reports'[c] = reports[c] \/ ~Says(reports'[c])
      BY <2>0, <3>2 DEF MayTear, TornReport, Says, TypeOK
    <3> DEFINE m2 == [m EXCEPT !.alone = TRUE]
    <3>5. m2.of = m.of /\ Ahead(m2) = Ahead(m)
      BY <3>3, MavenLeft
    <3>6. mavens' \subseteq (mavens \ {m}) \cup {m2}
      BY <3>2
    <3> HIDE DEF m2
    <3>7. \A n \in mavens' : \E o \in mavens :
            /\ o.of = n.of /\ Ahead(n) \subseteq Ahead(o)
            /\ n.of # round => o = n
      BY <3>3, <3>5, <3>6
    <3>8. Origins'
      BY <2>0, <3>1, <3>4, <3>7, SourcesStay
    <3>9. ~Lenient => \A n \in mavens' : \A c \in Ahead(n) : c \in unparsed
      BY <2>0, <3>1, <3>7 DEF Pending
    <3>10. Pending'
      BY <2>0, <3>1, <3>9 DEF Pending, Ahead, Lenient
    <3> QED
      BY <3>8, <3>10 DEF Sourced
  <2>13. CASE ParseClass
    <3>1. PICK class \in unparsed :
            /\ Record(reports[class], OfClass(TestsOf(selected), class))
            /\ unparsed' = unparsed \ {class}
      BY <2>13 DEF ParseClass
    <3>2. /\ pc = "parse" /\ pc' = IF unparsed' = {} THEN "clean" ELSE "parse"
          /\ UNCHANGED <<round, selected, reports, mavens>> /\ setting.parallel
      BY <2>13 DEF ParseClass, plan
    <3>3. class \in Classes
      BY <2>0, <3>1 DEF TypeOK
    <3>4. Origins'
      BY <2>8, <3>1, <3>2, <3>3
    <3>5. failed \subseteq failed'
      BY <3>1, RecordOfReport
    <3>6. ASSUME ~Lenient
          PROVE  \A m \in mavens : \A c \in Ahead(m) : c \in unparsed' \/ failed' # {}
      <4> SUFFICES ASSUME NEW m \in mavens, NEW c \in Ahead(m)
                   PROVE  c \in unparsed' \/ failed' # {}
        OBVIOUS
      <4>1. c \in unparsed \/ failed # {}
        BY <2>0, <3>2, <3>6 DEF Pending
      <4>2. CASE c = class
        <5>1. m.of = round
          BY <2>0, <3>6 DEF Origins
        <5>2. ~Says(reports[class])
          BY <2>0, <3>2, <3>3, <3>6, <4>2, <5>1 DEF Origins, WrittenOnce, WritersDone
        <5>3. PICK t \in OfClass(TestsOf(selected), class) : TRUE
          BY <2>0, <3>1, <3>2, <3>6 DEF Pending, ClassesOf, OfClass
        <5>4. ~setting.alluxio
          BY <3>6 DEF Lenient
        <5> QED
          BY <3>1, <5>2, <5>3, <5>4, SilentFails
      <4> QED
        BY <3>1, <3>5, <4>1, <4>2
    <3>7. Pending'
      BY <2>0, <3>1, <3>2, <3>6 DEF Pending, Ahead, Lenient
    <3> QED
      BY <3>4, <3>7 DEF Sourced
  <2>14. CASE CleanUp \/ TraceClass
    <3>1. /\ UNCHANGED <<round, selected, results, reports, mavens, failed>>
          /\ pc \in {"clean", "trace"} /\ pc' \in {"trace", "judged"}
      BY <2>14 DEF CleanUp, TraceClass, plan, verdict
    <3>2. Pending'
      BY <2>0, <3>1 DEF Pending, Ahead, Lenient
    <3> QED
      BY <2>0, <3>1, <3>2, SourcesStay DEF Sourced
  <2>15. CASE Reject
    <3>1. /\ UNCHANGED <<round, selected, results, reports, mavens, failed>>
          /\ pc = "judged" /\ pc' = "idle" /\ (Lenient \/ status = 0)
      BY <2>15 DEF Reject, plan, verdict, Lenient
    <3>2. ~Lenient => failed = {}
      BY <3>1 DEF Accounted, StatusOf
    <3>3. Pending'
      BY <2>0, <3>1, <3>2 DEF Pending, Ahead, Lenient
    <3> QED
      BY <2>0, <3>1, <3>3, SourcesStay DEF Sourced
  <2>16. CASE LookForMaven
    <3>1. /\ UNCHANGED <<round, selected, results, reports, mavens, failed>>
          /\ pc' = IF mavens = {} THEN "system" ELSE "exited"
      BY <2>16 DEF LookForMaven, NoMavenLeft, plan, verdict
    <3>2. Pending'
      BY <2>0, <3>1 DEF Pending, Ahead, Lenient
    <3> QED
      BY <2>0, <3>1, <3>2, SourcesStay DEF Sourced
  <2>17. CASE EndSystemTest \/ Abort
    <3>1. /\ UNCHANGED <<round, selected, results, reports, mavens, failed>>
          /\ pc' = "aborted" \/ (pc = "system" /\ pc' = "idle")
      BY <2>17 DEF EndSystemTest, Abort, plan, verdict
    <3>2. Pending'
      BY <2>0, <3>1 DEF Pending, Ahead, Lenient
    <3> QED
      BY <2>0, <3>1, <3>2, SourcesStay DEF Sourced
  <2>18. CASE UNCHANGED vars
    <3>1. UNCHANGED <<pc, round, selected, unparsed, results, reports, failed, mavens>>
      BY <2>18 DEF vars, plan, verdict
    <3> QED
      BY <2>0, <3>1, SourcesStay, PendingStays DEF Sourced
  <2> QED
    BY <2>1, <2>2, <2>3, <2>4, <2>5, <2>6, <2>7, <2>9, <2>10, <2>11, <2>12, <2>13, <2>14,
       <2>15, <2>16, <2>17, <2>18
    DEF Next, MavenStep, TesterStep, Start, Grouped, Parallel, Validate
<1> QED
  BY <1>1, <1>2, WrittenOnceInductive, PlacedInductive, AccountedInductive,
     GroupedOrderInductive, ParallelOrderInductive, PTL DEF Spec

\* A result of an earlier test case needs a Maven that was left alone and a test case that
\* went on past it: with the required gate switched off and outside alluxio none is taken
\* over, for any number of Mavens left alone and test cases.
THEOREM ForeignRejected == Spec => []ForeignNeedsRejection
<1>1. Sourced => ForeignNeedsRejection
  BY DEF Sourced, Origins
<1> QED
  BY <1>1, SourcedInductive, PTL
-----------------------------------------------------------------------------
(* The trace of what passed.                                               *)

Traced(t) == pc = "judged" \/ (pc = "trace" /\ ClassOf[t] \notin unparsed)

\* A report without a trace of a recorded test never becomes the one that was recorded.
TracesFound ==
    /\ ~setting.parallel => Passed \subseteq observed
    /\ setting.parallel =>
         \A t \in Passed \ observed : Traced(t) => Entry(reports[ClassOf[t]], t) # results[t]

LEMMA ResultsClass == \A t \in Tests : ClassOf[t] \in Classes
BY DEF Classes, ClassesOf

\* In groups a test passes only where its report is there, which is then looked through.
LEMMA GroupTraced ==
    ASSUME TypeOK, NEW report, ReportOK(report), NEW tests, Record(report, tests),
           Passed \subseteq observed, observed' = observed \cup Observed(report, tests),
           setting' = setting
    PROVE  Passed' \subseteq observed'
<1>1. PICK parsed \in Parsed(report, tests, setting.alluxio) :
        /\ results' = [t \in DOMAIN results \cup parsed.ran |->
                        IF t \in parsed.ran THEN Entry(report, t) ELSE results[t]]
        /\ failed' = failed \cup (parsed.failed \cap parsed.ran)
  BY DEF Record
<1>2. parsed.ran \subseteq tests
  BY <1>1 DEF Parsed, ReadReport
<1>3. setting.alluxio \in BOOLEAN
  BY DEF TypeOK, SettingSet
<1>4. \A t \in parsed.ran \ parsed.failed : t \in Observed(report, tests)
  BY <1>1, <1>2, <1>3, RecordedAsPassed DEF Observed, Listed
<1>5. \A t \in Passed' : t \in Passed \/ t \in parsed.ran \ parsed.failed
  BY <1>1 DEF Passed
<1> QED
  BY <1>4, <1>5

LEMMA TracesInductive == Spec => []TracesFound
<1>1. Init => TracesFound
  BY DEF Init, TracesFound, Passed
<1>2. TracesFound /\ Earned /\ WrittenOnce /\ Placed /\ Accounted /\ [Next]_vars => TracesFound'
  <2> SUFFICES ASSUME TracesFound, Earned, WrittenOnce, Placed, Accounted, [Next]_vars,
                      setting' = setting
               PROVE  TracesFound'
    BY SettingKept
  <2>0. TypeOK
    BY DEF Placed
  <2>1. ASSUME UNCHANGED <<results, failed, observed>>, ~setting.parallel
        PROVE  TracesFound'
    BY <2>1 DEF TracesFound, Passed
  <2>2. ASSUME UNCHANGED <<results, failed, observed, reports>>,
               \A t \in Tests : Traced(t)' => Traced(t)
        PROVE  TracesFound'
    <3>1. Passed' = Passed /\ Passed \subseteq Tests
      BY <2>0, <2>2 DEF Passed, TypeOK
    <3> QED
      BY <2>2, <3>1 DEF TracesFound
  <2>3. CASE BeginClass \/ ExitMaven
    <3>1. UNCHANGED <<pc, unparsed, results, failed, observed, reports>>
      BY <2>3 DEF BeginClass, ExitMaven, verdict
    <3> QED
      BY <2>2, <3>1 DEF Traced
  <2>4. CASE EndClass
    <3>1. UNCHANGED <<pc, unparsed, results, failed, observed>>
      BY <2>4 DEF EndClass, verdict
    <3>2. PICK m \in mavens : \E listed \in SUBSET OfClass(m.tests, m.class) :
            /\ m.class # Idle
            /\ \E says \in [listed -> Results] :
                 reports' = [reports EXCEPT ![m.class] =
                    [kind |-> "full", says |-> says, of |-> m.of, conf |-> m.conf,
                     alone |-> m.alone]]
      BY <2>4 DEF EndClass
    <3>3. m.class \in Classes /\ m.class \in Ahead(m)
      BY <2>0, <3>2 DEF TypeOK, MavenSet, Ahead
    <3>4. /\ \A c \in Classes : c # m.class => reports'[c] = reports[c]
          /\ reports'[m.class].of = m.of
      BY <2>0, <3>2, <3>3 DEF TypeOK
    <3>5. ASSUME setting.parallel, NEW t \in Passed \ observed, Traced(t)
          PROVE  Entry(reports'[ClassOf[t]], t) # results[t]
      <4>1. t \in Tests /\ t \in DOMAIN results /\ ClassOf[t] \in Classes
        BY <2>0, <3>5, ResultsClass DEF TypeOK, Passed
      <4>2. CASE ClassOf[t] # m.class
        BY <3>4, <3>5, <4>1, <4>2 DEF TracesFound
      <4>3. CASE ClassOf[t] = m.class
        <5> SUFFICES ASSUME Entry(reports'[m.class], t) = results[t] PROVE FALSE
          BY <4>3
        <5>1. results[t].says # "nothing"
          BY <3>5 DEF Earned, PassEarned
        <5>2. results[t].of = m.of
          BY <3>4, <5>1, EntryOf
        <5> QED
          BY <3>3, <3>5, <4>1, <4>3, <5>1, <5>2 DEF WrittenOnce, WritersDone
      <4> QED
        BY <4>2, <4>3
    <3>6. CASE setting.parallel
      BY <3>1, <3>5, <3>6 DEF TracesFound, Passed, Traced
    <3> QED
      BY <2>1, <3>1, <3>6
  <2>5. CASE StartUnmapped \/ StartGrouped \/ StartParallel
    <3>1. DOMAIN results' = {}
      BY <2>5 DEF StartUnmapped, StartGrouped, StartParallel, Select
    <3> QED
      BY <3>1 DEF TracesFound, Passed
  <2>6. CASE StartGroup \/ GroupEnded \/ GroupTimeout \/ FinishGroups
    <3>1. UNCHANGED <<results, failed, observed>> /\ ~setting.parallel
      BY <2>6 DEF StartGroup, GroupEnded, GroupTimeout, FinishGroups, verdict, Accounted
    <3> QED
      BY <2>1, <3>1
  <2>7. CASE ParseGroup
    <3>1. PICK class \in ClassesOf(current.tests) :
            /\ Record(reports[class], OfClass(current.tests, class))
            /\ observed' = observed \cup Observed(reports[class], OfClass(current.tests, class))
      BY <2>7 DEF ParseGroup
    <3>2. ~setting.parallel
      BY <2>7 DEF ParseGroup
    <3>3. class \in Classes
      BY <2>0, <3>1, ClassesTyped DEF TypeOK
    <3>4. ReportOK(reports[class])
      BY <2>0, <3>3 DEF TypeOK, ReportOK
    <3>5. Passed \subseteq observed
      BY <3>2 DEF TracesFound
    <3>6. Passed' \subseteq observed'
      BY <2>0, <3>1, <3>4, <3>5, GroupTraced
    <3> QED
      BY <3>2, <3>6 DEF TracesFound
  <2>8. CASE Spawn \/ MavenEnded \/ MavenTimeout \/ ParseClass
    <3>1. pc' \in {"spawn", "wait", "parse", "clean"} /\ setting.parallel
      BY <2>8 DEF Spawn, MavenEnded, MavenTimeout, ParseClass, Waited, Accounted
    <3>2. \A t : ~Traced(t)'
      BY <3>1 DEF Traced
    <3> QED
      BY <3>1, <3>2 DEF TracesFound
  <2>9. CASE CleanUp
    <3>1. /\ UNCHANGED <<results, failed, observed, reports>> /\ pc = "clean" /\ pc' = "trace"
          /\ unparsed' = ClassesOf(TestsOf(selected)) /\ setting.parallel
      BY <2>9 DEF CleanUp, verdict, Accounted
    <3>2. \A t \in Passed : t \in TestsOf(selected)
      BY <3>1 DEF WrittenOnce, Passed
    <3>3. \A t \in Passed : ~Traced(t)'
      BY <3>1, <3>2 DEF Traced, ClassesOf
    <3> QED
      BY <3>1, <3>3 DEF TracesFound, Passed
  <2>10. CASE TraceClass
    <3>1. PICK class \in unparsed :
            /\ observed' = observed \cup
                 Observed(reports[class], OfClass(TestsOf(selected), class))
            /\ unparsed' = unparsed \ {class}
      BY <2>10 DEF TraceClass
    <3>2. /\ pc = "trace" /\ pc' = IF unparsed' = {} THEN "judged" ELSE "trace"
          /\ UNCHANGED <<results, failed, reports>> /\ setting.parallel
      BY <2>10 DEF TraceClass, Accounted
    <3>3. ASSUME NEW t \in Passed \ observed', Traced(t)'
          PROVE  Entry(reports[ClassOf[t]], t) # results[t]
      <4>1. t \in Passed \ observed /\ t \in TestsOf(selected)
        BY <3>1, <3>2, <3>3 DEF WrittenOnce, Passed
      <4>2. ClassOf[t] \notin unparsed \ {class}
        BY <3>1, <3>2, <3>3 DEF Traced
      <4>3. CASE ClassOf[t] \notin unparsed
        BY <3>2, <4>1, <4>3 DEF TracesFound, Traced
      <4>4. CASE ClassOf[t] = class
        <5>1. t \notin Listed(reports[class])
          BY <3>1, <3>3, <4>1, <4>4 DEF Observed, OfClass
        <5>2. Entry(reports[class], t).says = "nothing"
          BY <5>1 DEF Entry, NoEntry
        <5>3. results[t].says # "nothing"
          BY <4>1 DEF Earned, PassEarned
        <5> QED
          BY <4>4, <5>2, <5>3
      <4> QED
        BY <4>2, <4>3, <4>4
    <3> QED
      BY <3>2, <3>3 DEF TracesFound, Passed
  <2>11. CASE Reject \/ LookForMaven \/ EndSystemTest \/ Abort
    <3>1. /\ UNCHANGED <<results, failed, observed, reports>>
          /\ pc' \in {"idle", "system", "exited", "aborted"}
      BY <2>11 DEF Reject, LookForMaven, EndSystemTest, Abort, verdict
    <3> QED
      BY <2>2, <3>1 DEF Traced
  <2>12. CASE UNCHANGED vars
    <3>1. UNCHANGED <<pc, unparsed, results, failed, observed, reports>>
      BY <2>12 DEF vars, verdict
    <3> QED
      BY <2>2, <3>1 DEF Traced
  <2> QED
    BY <2>3, <2>4, <2>5, <2>6, <2>7, <2>8, <2>9, <2>10, <2>11, <2>12
    DEF Next, MavenStep, TesterStep, Start, Grouped, Parallel, Validate
<1> QED
  BY <1>1, <1>2, EarnedInductive, WrittenOnceInductive, PlacedInductive, AccountedInductive,
     PTL DEF Spec

\* The trace of a test that passed is in the exercise record, although in parallel the
\* reports are opened a second time for it: it is missing only where another Maven has
\* written the report anew in between, for any number of Mavens left alone.
THEOREM PassesTraced == Spec => []PassedTraced
<1>1. TracesFound => PassedTraced
  BY DEF TracesFound, Traced, PassedTraced
<1> QED
  BY <1>1, TracesInductive, PTL
=============================================================================
