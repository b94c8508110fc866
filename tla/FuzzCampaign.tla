---------------------------- MODULE FuzzCampaign ----------------------------
(***************************************************************************)
(* One fuzzing campaign of ECFuzz: the bootstrap system run, the loop that *)
(* generates a seed, mutates it into test cases, sends each through the    *)
(* unit-test gate and the system test, and feeds the seed pool, the        *)
(* exercise records, the counters on the display board and the comparison  *)
(* metrics; then the shutdown in the finally block of Fuzzer.run.          *)
(*                                                                         *)
(* The main thread is modelled one statement group at a time (pc), because *)
(* SIGINT raises SystemExit between any two of its statements.  A          *)
(* configuration value is abstracted away: a seed is the set of its        *)
(* parameter names and the names its last system run exercised.  What the  *)
(* test scripts report is an input, drawn from Reports.                    *)
(***************************************************************************)
EXTENDS ExerciseTracking, Integers, Sequences, FiniteSets

CONSTANTS
    Names,           \* the configuration parameters
    Mutable,         \* those the fuzzer may draw: ConfAnalyzer.confItemsMutable
    Related,         \* Related[n]: the parameters n has a dependency relation with
    Mapped,          \* the parameters that have unit tests mapped to them
    Prepared,        \* the parameters prepareTestcaseForExecution sets
    Reports,         \* what a run of the test script may report: [exercised, used]
    Outcomes,        \* what it may end with: [status, type]
    Settings,        \* the fuzzing.conf options that steer the control
    TestcasePerSeed, \* testcase_per_seed
    MaxLoops,        \* fuzzing_loop; an endless campaign has run_time up by then
    SeedPicks,       \* how many names a fresh seed draws at most (6 in the code)
    StackPicks,      \* how many names StackedMutator changes at most (5)
    OneH, TwoH,      \* the thresholds of the SmartMutator, in ticks of its clock
    MaxIdle          \* bound: the clock of the SmartMutator saturates here

SettingSet ==
    [skipUnit : BOOLEAN, requirePass : BOOLEAN, guided : BOOLEAN, isolated : BOOLEAN,
     endless : BOOLEAN, mutator : {"SingleMutator", "StackedMutator", "SmartMutator"}]

ReportSet == [exercised : SUBSET Names, used : SUBSET Names]

\* A failing run has a type, 4 when its stderr names no phase.  "failed" is return
\* code 1, the only one TestValidator treats as a failure; "killed" is any other code
\* that is not 0.
Failed == {"failed", "killed"}
OutcomeSet == [status : {"ok"}, type : {0}] \cup [status : Failed, type : 1..4]

ASSUME NamesAssumption ==
    /\ Mutable \subseteq Names /\ Mutable # {}
    /\ Related \in [Names -> SUBSET Names]
    /\ Mapped \subseteq Names
    /\ Prepared \subseteq Names
ASSUME InputAssumption ==
    /\ Reports \subseteq ReportSet
    /\ Outcomes \subseteq OutcomeSet
    /\ Settings \subseteq SettingSet
ASSUME BoundAssumption ==
    /\ TestcasePerSeed \in Nat \ {0}
    /\ MaxLoops \in Nat \ {0}
    /\ SeedPicks \in Nat \ {0}
    /\ StackPicks \in Nat \ {0}
    /\ OneH \in Nat /\ TwoH \in Nat /\ MaxIdle \in Nat

VARIABLES
    setting,   \* the options of this campaign, fixed at the start
    pc,        \* where the main thread is
    stop,      \* stopSoon is not empty
    iter,      \* the test cases of the current loop that are finished
    pool,      \* SeedGenerator.seedPool
    seed,      \* the seed of the current loop
    testcase,  \* the test case being validated
    ut,        \* the unit result of the test case
    sys,       \* the latest system run, what it reported and what was new in it
    exercise,  \* ExerciseGuidanceState
    useBacked, \* ProvenanceTrackingState
    stats,     \* ShowStats
    smart,     \* the SmartMutator's strategy, flag and failure clock
    metrics,   \* ComparisonMetricsRecorder
    afterStop  \* auxiliary: the test cases started while stopSoon was not empty

vars == <<setting, pc, stop, iter, pool, seed, testcase, ut, sys, exercise,
          useBacked, stats, smart, metrics, afterStop>>

result == <<ut, sys>>
tracking == <<exercise, useBacked>>

SeedSet == [names : SUBSET Names, exercised : SUBSET Names]
TestcaseSet == [names : SUBSET Names, exercised : SUBSET Names, mutated : SUBSET Names]
NoSeed == [names |-> {}, exercised |-> {}]
NoTestcase == [names |-> {}, exercised |-> {}, mutated |-> {}]

\* newExercised and newUsed are the new names that are still to be logged.
RunSet == [status : {"none", "ok"} \cup Failed, type : 0..4, bootstrap : BOOLEAN,
           exercised : SUBSET Names, used : SUBSET Names,
           newExercised : SUBSET Names, newUsed : SUBSET Names]
NoRun == [status |-> "none", type |-> 0, bootstrap |-> FALSE, exercised |-> {}, used |-> {},
          newExercised |-> {}, newUsed |-> {}]

StatsSet == [loops : Nat, iterations : Nat, acceptedSeeds : Nat, queueLength : Nat,
             sysTests : Nat, type1 : Nat, type2 : Nat, type3 : Nat, total : Nat]

SmartSet == [strategy : {"SingleMutator", "StackedMutator", "SmartMutator",
                         "SmartMutator/StackedMutator", "SmartMutator/SingleMutator"},
             flag : 0..1, lastError23 : 0..MaxIdle, idle : 0..MaxIdle]

\* discovered[n] is the number of new_exercised_param events that name n;
\* failureTypes the types whose first failure has a time.
MetricsSet == [discovered : [Names -> Nat], useDiscovered : [Names -> Nat],
               failureTypes : SUBSET (0..4), snapshots : Nat, finalized : BOOLEAN]

Terminal == {"done", "aborted", "killed"}
\* Where updateExerciseState is between its first write and its last.
RecordPhase == {"acceptExercise", "use", "acceptUse", "discover"}
LoopPhase == {"check", "generate", "mutate", "prepare", "unit", "system", "exercise",
              "accept", "queue", "count", "iterate", "snapshot", "loopEnd"} \cup RecordPhase
PCs == {"bootstrap"} \cup LoopPhase \cup {"finally"} \cup Terminal

-----------------------------------------------------------------------------
Init ==
    /\ setting \in Settings
    /\ pc = "bootstrap"
    /\ stop = FALSE
    /\ iter = 0
    /\ pool = <<>>
    /\ seed = NoSeed
    /\ testcase = NoTestcase
    /\ ut = "none"
    /\ sys = NoRun
    /\ exercise = EmptyTracking
    /\ useBacked = EmptyTracking
    /\ stats = [loops |-> 0, iterations |-> 0, acceptedSeeds |-> 0, queueLength |-> 0,
                sysTests |-> 0, type1 |-> 0, type2 |-> 0, type3 |-> 0, total |-> 0]
    /\ smart = [strategy |-> setting.mutator, flag |-> 0, lastError23 |-> 0, idle |-> 0]
    /\ metrics = [discovered |-> [n \in Names |-> 0], useDiscovered |-> [n \in Names |-> 0],
                  failureTypes |-> {}, snapshots |-> 0, finalized |-> FALSE]
    /\ afterStop = 0

-----------------------------------------------------------------------------
(* The system test: a run of the test script and its classification.       *)

\* Mutant: a shutdown failure is counted as a failure of a request.
CountedAsSwapped(s, type) ==
    [s EXCEPT !.type1 = @ + (IF type = 1 THEN 1 ELSE 0),
              !.type2 = @ + (IF type \in {2, 3} THEN 1 ELSE 0)]

\* The failure counters after a run of that type.
CountedAs(s, type) ==
    [s EXCEPT !.type1 = @ + (IF type = 1 THEN 1 ELSE 0),
              !.type2 = @ + (IF type = 2 THEN 1 ELSE 0),
              !.type3 = @ + (IF type = 3 THEN 1 ELSE 0)]

\* totalSystemTestFailed is recomputed from the three counters, but only when a
\* run failed.
FoldedTotal(s) == s.type1 + s.type2 + s.type3

Classified(s, run) ==
    LET counted == CountedAs(s, run.type)
    IN  IF run.status = "ok" THEN s ELSE [counted EXCEPT !.total = FoldedTotal(counted)]

\* A startup failure of a test case with a parameter raises AttributeError right
\* after the type 1 counter: ConfItem has no attribute isMutated.
Raises(run, names) == run.type = 1 /\ names # {}

RunRecord(outcome, report, isBootstrap) ==
    [status |-> outcome.status, type |-> outcome.type, bootstrap |-> isBootstrap,
     exercised |-> report.exercised, used |-> report.used,
     newExercised |-> {}, newUsed |-> {}]

\* An exception unwinds the stack: the seed, the test case and its unit result go.
Unwind(to) ==
    /\ pc' = to
    /\ seed' = NoSeed /\ testcase' = NoTestcase /\ ut' = "none"

-----------------------------------------------------------------------------
(* Fuzzer.run: the bootstrap run.                                          *)

SkipBootstrap ==
    /\ pc = "bootstrap" /\ ~setting.guided
    /\ pc' = "check"
    /\ UNCHANGED <<setting, stop, iter, pool, seed, testcase, result, tracking, stats,
                   smart, metrics, afterStop>>

\* The run uses the prepared configuration and an empty test case: it is not
\* counted as a system test, yet its failure is, in the type counters and the
\* total, and it cannot raise.
RunBootstrap ==
    /\ pc = "bootstrap" /\ setting.guided
    /\ \E outcome \in Outcomes, report \in Reports :
          /\ sys' = RunRecord(outcome, report, TRUE)
          /\ stats' = Classified(stats, outcome)
    /\ pc' = "exercise"
    /\ UNCHANGED <<setting, stop, iter, pool, seed, testcase, ut, tracking, smart,
                   metrics, afterStop>>

-----------------------------------------------------------------------------
(* TestValidator.updateExerciseState, for the bootstrap run and for that of a *)
(* test case: two records of two sets each, then one event for each new name. *)

\* Mutant: every name of the run counts as new.
AllNames(names, t) == names

\* Mutant: the new names are looked for after the run was recorded.
UnrecordedAfter(names, t) == names \ (t.global \cup names)

\* The names of a run that its record did not know yet.
Unrecorded(names, t) == names \ t.global

\* The bootstrap run counts as accepted, however it ended.
IsAccepted(run) == run.status = "ok" \/ run.bootstrap

\* To the event log all that the bootstrap run exercised is new.
RecordExercised ==
    /\ pc = "exercise"
    /\ testcase' = [testcase EXCEPT !.exercised = sys.exercised]
    /\ sys' = [sys EXCEPT !.newExercised =
                  IF sys.bootstrap THEN sys.exercised ELSE Unrecorded(sys.exercised, exercise)]
    /\ exercise' = RecordGlobal(exercise, sys.exercised)
    /\ pc' = "acceptExercise"
    /\ UNCHANGED <<setting, stop, iter, pool, seed, ut, useBacked, stats, smart, metrics,
                   afterStop>>

AcceptExercised ==
    /\ pc = "acceptExercise"
    /\ exercise' = RecordAccepted(exercise, sys.exercised, IsAccepted(sys))
    /\ pc' = "use"
    /\ UNCHANGED <<setting, stop, iter, pool, seed, testcase, result, useBacked, stats,
                   smart, metrics, afterStop>>

RecordUsed ==
    /\ pc = "use"
    /\ sys' = [sys EXCEPT !.newUsed = Unrecorded(sys.used, useBacked)]
    /\ useBacked' = RecordGlobal(useBacked, sys.used)
    /\ pc' = "acceptUse"
    /\ UNCHANGED <<setting, stop, iter, pool, seed, testcase, ut, exercise, stats, smart,
                   metrics, afterStop>>

AcceptUsed ==
    /\ pc = "acceptUse"
    /\ useBacked' = RecordAccepted(useBacked, sys.used, IsAccepted(sys))
    /\ pc' = "discover"
    /\ UNCHANGED <<setting, stop, iter, pool, seed, testcase, result, exercise, stats, smart,
                   metrics, afterStop>>

\* One event per step, in any order of the names; the code sorts them.
LogExercised ==
    /\ pc = "discover"
    /\ \E n \in sys.newExercised :
          /\ metrics' = [metrics EXCEPT !.discovered[n] = @ + 1]
          /\ sys' = [sys EXCEPT !.newExercised = @ \ {n}]
    /\ UNCHANGED <<setting, pc, stop, iter, pool, seed, testcase, ut, tracking, stats, smart,
                   afterStop>>

LogUsed ==
    /\ pc = "discover" /\ sys.newExercised = {}
    /\ \E n \in sys.newUsed :
          /\ metrics' = [metrics EXCEPT !.useDiscovered[n] = @ + 1]
          /\ sys' = [sys EXCEPT !.newUsed = @ \ {n}]
    /\ UNCHANGED <<setting, pc, stop, iter, pool, seed, testcase, ut, tracking, stats, smart,
                   afterStop>>

AllLogged == pc = "discover" /\ sys.newExercised = {} /\ sys.newUsed = {}

\* The rest of runExerciseBootstrap, record_snapshot among it.
FinishBootstrap ==
    /\ AllLogged /\ sys.bootstrap
    /\ metrics' = [metrics EXCEPT !.snapshots = @ + 1]
    /\ sys' = NoRun
    /\ testcase' = NoTestcase
    /\ pc' = "check"
    /\ UNCHANGED <<setting, stop, iter, pool, seed, ut, tracking, stats, smart, afterStop>>

-----------------------------------------------------------------------------
(* Fuzzer.run and Fuzzer.loop: stopping, the time limit, the seed.         *)

\* Mutant: the queue is never looked at.
StopUnseen(s) == FALSE

\* not stopSoon.empty()
StopSeen(s) == s

LeaveLoop ==
    /\ pc = "check"
    /\ StopSeen(stop) \/ (~setting.endless /\ stats.loops = MaxLoops)
    /\ pc' = "finally"
    /\ UNCHANGED <<setting, stop, iter, pool, seed, testcase, result, tracking, stats,
                   smart, metrics, afterStop>>

\* The time limit only puts into stopSoon: this loop still runs to its end.
StartLoop ==
    /\ pc = "check"
    /\ ~StopSeen(stop) /\ stats.loops < MaxLoops
    /\ \E timeUp \in BOOLEAN :
          /\ setting.endless /\ stats.loops = MaxLoops - 1 => timeUp
          /\ stop' = (stop \/ timeUp)
    /\ pc' = "generate"
    /\ UNCHANGED <<setting, iter, pool, seed, testcase, result, tracking, stats, smart,
                   metrics, afterStop>>

GenerateFromPool ==
    /\ pc = "generate" /\ ~setting.isolated
    /\ \E i \in 1..Len(pool) : seed' = pool[i]
    /\ stats' = [stats EXCEPT !.queueLength = Len(pool)]
    /\ pc' = "mutate"
    /\ UNCHANGED <<setting, stop, iter, pool, testcase, result, tracking, smart, metrics,
                   afterStop>>

\* The parameters related to the drawn ones.
RelatedOf(names) == UNION {Related[n] : n \in names}

\* Some of the candidates, one for the SingleMutator, with what they are related to.
GenerateFresh ==
    /\ pc = "generate"
    /\ \E candidates \in Candidates(setting.guided, exercise, Mutable, {}) :
       \E drawn \in SUBSET candidates :
          /\ drawn # {}
          /\ Cardinality(drawn) <= (IF setting.mutator = "SingleMutator" THEN 1 ELSE SeedPicks)
          /\ seed' = [names |-> IF setting.isolated THEN drawn
                                                    ELSE drawn \cup RelatedOf(drawn),
                      exercised |-> {}]
    /\ stats' = [stats EXCEPT !.queueLength = Len(pool)]
    /\ pc' = "mutate"
    /\ UNCHANGED <<setting, stop, iter, pool, testcase, result, tracking, smart, metrics,
                   afterStop>>

-----------------------------------------------------------------------------
(* The mutators and Testcase.captureMutationFromSeed.                      *)

\* How many distinct names the mutator can pick.
PickBound ==
    CASE setting.mutator = "SingleMutator" -> 1
      [] setting.mutator = "StackedMutator" -> StackPicks
      [] OTHER -> IF smart.flag = 1 THEN Cardinality(seed.names) ELSE 1

\* Each pick draws from the candidates of the seed anew, so the picks of one test
\* case may mix exploited and unexplored names.
Picks ==
    {s \in SUBSET UNION Candidates(setting.guided, exercise, seed.names, seed.exercised) :
        s # {} /\ Cardinality(s) <= PickBound}

\* A picked name changes, and so may the names of the seed it is related to; a new
\* value may equal the old one.
Mutate ==
    /\ pc = "mutate"
    /\ \E picks \in Picks :
       \E changed \in SUBSET (picks \cup (RelatedOf(picks) \cap seed.names)) :
          testcase' = [names |-> seed.names, exercised |-> seed.exercised, mutated |-> changed]
    /\ ut' = "none"
    /\ sys' = NoRun
    /\ afterStop' = afterStop + (IF stop THEN 1 ELSE 0)
    /\ pc' = "prepare"
    /\ UNCHANGED <<setting, stop, iter, pool, seed, tracking, stats, smart, metrics>>

-----------------------------------------------------------------------------
(* TestValidator.runTest.                                                  *)

\* The alternation of the SmartMutator.  Only the strategy name of the start passes
\* the guard, so the second switch never happens.
SwitchedStrategy(s) ==
    IF s.strategy = "SmartMutator" /\ s.flag = 0 /\ s.lastError23 > TwoH
    THEN [s EXCEPT !.flag = 1, !.lastError23 = 0, !.strategy = "SmartMutator/StackedMutator"]
    ELSE IF s.strategy = "SmartMutator" /\ s.flag = 1 /\ s.lastError23 > OneH
    THEN [s EXCEPT !.flag = 0, !.lastError23 = 0, !.strategy = "SmartMutator/SingleMutator"]
    ELSE s

PrepareTestcase ==
    /\ pc = "prepare"
    /\ testcase' = [testcase EXCEPT !.names = @ \cup Prepared]
    /\ smart' = SwitchedStrategy(smart)
    /\ pc' = "unit"
    /\ UNCHANGED <<setting, stop, iter, pool, seed, result, tracking, stats, metrics,
                   afterStop>>

SkipUnitTest ==
    /\ pc = "unit" /\ setting.skipUnit
    /\ pc' = "system"
    /\ UNCHANGED <<setting, stop, iter, pool, seed, testcase, result, tracking, stats,
                   smart, metrics, afterStop>>

\* The parameters whose unit tests run: those mutated, or, when the mutation left
\* every value as it was, those that differ from the defaults.
SelectedInputs ==
    IF testcase.mutated # {} THEN {testcase.mutated} ELSE SUBSET testcase.names

\* Mutant: the status of the unit tests is not looked at.
RejectedUnmapped(hasMapping, status) == ~hasMapping

\* require_unit_pass_for_system_test: only a mapped, passing test case goes on.
RejectedByRequiredGate(hasMapping, status) == ~hasMapping \/ status # "pass"

\* Without mapped tests the unit result keeps its default status, a pass.  A mapped
\* pass is normally the end of the test case; the force ratio lets some through.
RunUnitTest ==
    /\ pc = "unit" /\ ~setting.skipUnit
    /\ \E input \in SelectedInputs, status \in {"pass", "fail"} :
          LET hasMapping == input \cap Mapped # {}
              rejected == RejectedByRequiredGate(hasMapping, status)
          IN  /\ ~hasMapping => status = "pass"
              /\ ut' = status
              /\ IF setting.requirePass
                 THEN pc' = IF rejected THEN "accept" ELSE "system"
                 ELSE \/ pc' = "system"
                      \/ status = "pass" /\ hasMapping /\ pc' = "accept"
    /\ UNCHANGED <<setting, stop, iter, pool, seed, testcase, sys, tracking, stats, smart,
                   metrics, afterStop>>

\* A maven process left over from the unit tests: os._exit, past every finally.
MavenLeftOver ==
    /\ pc = "system"
    /\ pc' = "killed"
    /\ UNCHANGED <<setting, stop, iter, pool, seed, testcase, result, tracking, stats,
                   smart, metrics, afterStop>>

RunSystem ==
    /\ pc = "system"
    /\ \E outcome \in Outcomes, report \in Reports :
          LET counted == [stats EXCEPT !.sysTests = @ + 1]
          IN  /\ sys' = RunRecord(outcome, report, FALSE)
              /\ IF Raises(outcome, testcase.names)
                 THEN /\ stats' = CountedAs(counted, outcome.type)
                      /\ Unwind("finally")
                 ELSE /\ stats' = Classified(counted, outcome)
                      /\ pc' = "exercise"
                      /\ UNCHANGED <<seed, testcase, ut>>
    /\ UNCHANGED <<setting, stop, iter, pool, tracking, smart, metrics, afterStop>>

\* The clock of the SmartMutator runs on, and a failure of type 2 or 3 resets it.
ResetsClock(run) == run.status = "failed" /\ run.type \in {2, 3}

\* A monitor alarm counts as a failure of type 2 unless the run already was one; a
\* "killed" run of type 2 is counted twice.  The total is left as it is.
AlarmCounts(run) == ~(run.status = "failed" /\ run.type = 2)

Verdict ==
    /\ AllLogged /\ ~sys.bootstrap
    /\ \E now \in smart.idle..MaxIdle :
          smart' = IF ResetsClock(sys) THEN [smart EXCEPT !.lastError23 = 0, !.idle = 0]
                                       ELSE [smart EXCEPT !.lastError23 = now, !.idle = now]
    /\ \E alarm \in BOOLEAN :
          stats' = [stats EXCEPT !.type2 = @ + (IF alarm /\ AlarmCounts(sys) THEN 1 ELSE 0)]
    /\ metrics' = [metrics EXCEPT !.failureTypes =
                      @ \cup (IF sys.status \in Failed THEN {sys.type} ELSE {})]
    /\ pc' = "accept"
    /\ UNCHANGED <<setting, stop, iter, pool, seed, testcase, result, tracking, afterStop>>

-----------------------------------------------------------------------------
(* Fuzzer.loop: the pool, the counters, the end of the loop.               *)

Interesting == ut = "fail" /\ sys.status = "ok"

\* Mutant: the display board forgets the seed just added.
QueueUnchanged(n) == n

\* Mutant: adding a seed takes one off the display board.
QueueDecreased(n) == n - 1

QueueAfterAdd(n) == n + 1

\* addSeedToPool: the pool, then the display board.
AddSeedToPool ==
    /\ pc = "accept" /\ Interesting
    /\ pool' = Append(pool, [names |-> testcase.names, exercised |-> testcase.exercised])
    /\ pc' = "queue"
    /\ UNCHANGED <<setting, stop, iter, seed, testcase, result, tracking, stats, smart,
                   metrics, afterStop>>

CountQueued ==
    /\ pc = "queue"
    /\ stats' = [stats EXCEPT !.queueLength = QueueAfterAdd(@)]
    /\ pc' = "count"
    /\ UNCHANGED <<setting, stop, iter, pool, seed, testcase, result, tracking, smart,
                   metrics, afterStop>>

CountAcceptedSeed ==
    /\ pc = "count"
    /\ stats' = [stats EXCEPT !.acceptedSeeds = @ + 1]
    /\ pc' = "iterate"
    /\ UNCHANGED <<setting, stop, iter, pool, seed, testcase, result, tracking, smart,
                   metrics, afterStop>>

DropTestcase ==
    /\ pc = "accept" /\ ~Interesting
    /\ pc' = "iterate"
    /\ UNCHANGED <<setting, stop, iter, pool, seed, testcase, result, tracking, stats,
                   smart, metrics, afterStop>>

CountIteration ==
    /\ pc = "iterate"
    /\ stats' = [stats EXCEPT !.iterations = @ + 1]
    /\ iter' = iter + 1
    /\ testcase' = NoTestcase /\ ut' = "none" /\ sys' = NoRun
    /\ pc' = "snapshot"
    /\ UNCHANGED <<setting, stop, pool, seed, tracking, smart, metrics, afterStop>>

RecordSnapshot ==
    /\ pc = "snapshot"
    /\ metrics' = [metrics EXCEPT !.snapshots = @ + 1]
    /\ pc' = IF iter < TestcasePerSeed THEN "mutate" ELSE "loopEnd"
    /\ UNCHANGED <<setting, stop, iter, pool, seed, testcase, result, tracking, stats,
                   smart, afterStop>>

EndLoop ==
    /\ pc = "loopEnd"
    /\ stats' = [stats EXCEPT !.loops = @ + 1]
    /\ iter' = 0
    /\ seed' = NoSeed
    /\ pc' = "check"
    /\ UNCHANGED <<setting, stop, pool, testcase, result, tracking, smart, metrics,
                   afterStop>>

-----------------------------------------------------------------------------
(* The shutdown.                                                           *)

\* The finally block: stopSoon.put, then ComparisonMetricsRecorder.finalize.
Finalize ==
    /\ pc = "finally"
    /\ stop' = TRUE
    /\ metrics' = [metrics EXCEPT !.finalized = TRUE]
    /\ pc' = "done"
    /\ UNCHANGED <<setting, iter, pool, seed, testcase, result, tracking, stats, smart,
                   afterStop>>

\* SIGINT: the handler puts into stopSoon and raises SystemExit, which leads to the
\* finally block, or out of it without the summary when it was already running.
Interrupt ==
    /\ pc \notin Terminal
    /\ stop' = TRUE
    /\ Unwind(IF pc = "finally" THEN "aborted" ELSE "finally")
    /\ UNCHANGED <<setting, iter, pool, sys, tracking, stats, smart, metrics, afterStop>>

-----------------------------------------------------------------------------
Bootstrap == SkipBootstrap \/ RunBootstrap \/ FinishBootstrap
Record == \/ RecordExercised \/ AcceptExercised \/ RecordUsed \/ AcceptUsed
          \/ LogExercised \/ LogUsed
Generate == LeaveLoop \/ StartLoop \/ GenerateFromPool \/ GenerateFresh \/ Mutate
Validate == PrepareTestcase \/ SkipUnitTest \/ RunUnitTest \/ RunSystem \/ Verdict
Conclude == \/ AddSeedToPool \/ CountQueued \/ CountAcceptedSeed \/ DropTestcase \/ CountIteration
            \/ RecordSnapshot \/ EndLoop \/ Finalize

\* The steps of the main thread.
MainStep == Bootstrap \/ Record \/ Generate \/ Validate \/ Conclude

Next == MainStep \/ MavenLeftOver \/ Interrupt

Spec == Init /\ [][Next]_vars

\* The main thread never waits for good: the test scripts return.
FairSpec == Spec /\ WF_vars(MainStep)

-----------------------------------------------------------------------------
(* Properties.                                                             *)

\* Every variable keeps its type; the display board's counters never turn negative.
TypeOK ==
    /\ setting \in Settings
    /\ pc \in PCs
    /\ stop \in BOOLEAN
    /\ iter \in Nat
    /\ pool \in Seq(SeedSet)
    /\ seed \in SeedSet
    /\ testcase \in TestcaseSet
    /\ ut \in {"none", "pass", "fail"}
    /\ sys \in RunSet
    /\ exercise \in TrackingOf(Names)
    /\ useBacked \in TrackingOf(Names)
    /\ stats \in StatsSet
    /\ smart \in SmartSet
    /\ metrics \in MetricsSet
    /\ afterStop \in Nat

\* The seed pool only ever grows in a campaign that runs the unit tests and lets a
\* test case that fails them go on to the system test (Fuzzer.loop wants a failed
\* unit test and a good system run).  With the settings of the container scripts,
\* which require a pass, the pool stays empty and no seed is ever reused.
PoolRequiresForcedGate ==
    pool # <<>> => ~setting.skipUnit /\ ~setting.requirePass

\* What a seed of the pool says its last run exercised is known to the project as
\* exercised by an accepted run: the seed-local choice of candidates never names a
\* parameter the project-wide choice would call unexplored.
PoolSeedsExercised ==
    \A i \in DOMAIN pool : pool[i].exercised \subseteq exercise.accepted

\* The counters of the display board, the pool and the snapshots agree.  A SIGINT
\* between two of the statements of addSeedToPool and Fuzzer.loop leaves the queue
\* length, the accepted seeds or both one behind the pool, which is what the final
\* summary then reports; while the loop goes on they are behind only between those
\* statements.
IterationsAgree ==
    stats.iterations = TestcasePerSeed * stats.loops + iter /\ iter <= TestcasePerSeed

SeedsAgree ==
    /\ stats.queueLength \in {Len(pool) - 1, Len(pool)}
    /\ stats.acceptedSeeds \in {Len(pool) - 1, stats.queueLength}
    /\ pc \in LoopPhase \ {"queue"} => stats.queueLength = Len(pool)
    /\ pc \in LoopPhase \ {"queue", "count"} => stats.acceptedSeeds = Len(pool)
    /\ stats.acceptedSeeds <= stats.iterations + 1

SnapshotsAgree ==
    metrics.snapshots \in {stats.iterations - 1, stats.iterations, stats.iterations + 1}

CountersAgree == IterationsAgree /\ SeedsAgree /\ SnapshotsAgree

\* The event log names every parameter the project knows as exercised exactly once,
\* although the bootstrap run and the test cases find them by different code.  Only
\* from the recording of a run to its last event, or when a SIGINT comes in between,
\* are some of the names missing that were new in that run.
LoggedOnce(events, t, new) ==
    \A n \in Names :
        /\ events[n] <= 1
        /\ events[n] = 1 => n \in t.global
        /\ events[n] = 0 /\ n \in t.global => n \in new

DiscoveredOnce ==
    /\ LoggedOnce(metrics.discovered, exercise, sys.newExercised)
    /\ LoggedOnce(metrics.useDiscovered, useBacked, sys.newUsed)
    /\ pc \in LoopPhase \ RecordPhase =>
          \A n \in Names : /\ n \in exercise.global => metrics.discovered[n] = 1
                           /\ n \in useBacked.global => metrics.useDiscovered[n] = 1

\* The total of failures never exceeds the sum of its three parts (an alarm and a
\* startup failure leave it behind), and no run adds more than two to that sum.
FailuresBounded ==
    /\ stats.total <= FoldedTotal(stats)
    /\ FoldedTotal(stats) <= 2 * stats.sysTests + (IF setting.guided THEN 1 ELSE 0)

\* A type whose first failure has a time was counted, and no startup failure of a
\* test case ever gets one: the campaign is over before record_failure.
FirstFailuresCounted ==
    /\ 1 \notin metrics.failureTypes
    /\ 2 \in metrics.failureTypes => stats.type2 > 0
    /\ 3 \in metrics.failureTypes => stats.type3 > 0

\* What the failure counters, their total and the log of first failures say of one run,
\* which three places write, agrees.
FailuresAgree == FailuresBounded /\ FirstFailuresCounted

\* After a stop is requested the campaign starts at most the test cases of the loop
\* it is in: the time limit is honoured within testcase_per_seed test cases.
StopBound == afterStop <= TestcasePerSeed

\* Every campaign ends, whatever the test scripts report and whenever SIGINT comes.
Termination == <>(pc \in Terminal)

\* Mutation alternates: a SmartMutator that has been stacking for more than oneH
\* without a failure goes back to single mutations at the next test case.
MutationAlternates ==
    [][pc = "prepare" /\ smart.flag = 1 /\ smart.lastError23 > OneH /\ pc' = "unit"
          => smart'.flag = 0]_vars

\* A startup failure is counted in the total shown beside its three parts, as in the
\* display of a campaign with 26 of them in Experiment Data/README.md:214.
StartupFailuresCounted ==
    [][stats'.type1 > stats.type1 => stats'.total = FoldedTotal(stats')]_vars
-----------------------------------------------------------------------------
(* The promise.                                                            *)

Over == Terminal \cup {"finally"}

\* A test case that was rejected before its system run has nothing to conclude.
PromisePhase ==
    CASE pc = "bootstrap" \/ (pc = "exercise" /\ sys.bootstrap) -> "start"
      [] pc \in {"prepare", "unit", "system"} \/ (pc = "exercise" /\ ~sys.bootstrap) -> "begun"
      [] pc = "acceptExercise" -> "tested"
      [] \/ pc \in {"use", "acceptUse", "discover"}
         \/ pc = "accept" /\ sys.status # "none" -> "accepted"
      [] pc \in Over -> "over"
      [] OTHER -> "between"

PromiseRun ==
    IF PromisePhase \in {"tested", "accepted"}
    THEN [names |-> sys.exercised, ok |-> sys.status = "ok", boot |-> sys.bootstrap]
    ELSE [names |-> {}, ok |-> FALSE, boot |-> FALSE]

Promise == INSTANCE Campaign WITH
    Budget <- TestcasePerSeed,
    phase <- PromisePhase, stopped <- stop \/ pc \in Over,
    left <- TestcasePerSeed - afterStop,
    known <- exercise.global, accepted <- exercise.accepted,
    logged <- {n \in Names : metrics.discovered[n] > 0},
    run <- PromiseRun, seeds <- [i \in DOMAIN pool |-> pool[i].exercised]

\* A campaign keeps its promise: the two books, the event log and the pool change only
\* with the run they record and one after the other, the log name by name, a seed enters
\* the pool only when the log has all that is known, and an end between any two of these
\* writes leaves them as they are.
ImplementsPromise == Promise!Spec
=============================================================================
