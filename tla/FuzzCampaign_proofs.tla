------------------------ MODULE FuzzCampaign_proofs ------------------------
(***************************************************************************)
(* Theorems about FuzzCampaign, for every configuration, every report of   *)
(* the test scripts and every number of loops and test cases: its books,   *)
(* counters and pool agree, it implements the abstract campaign, it is     *)
(* short, and it always has something to draw.                             *)
(***************************************************************************)
EXTENDS FuzzCampaign, SequenceTheorems, TLAPS

-----------------------------------------------------------------------------
(* Lemmas about the operators the actions are built from.                  *)

\* Either update of a record of exercised parameters keeps it well formed.
LEMMA RecordTypes ==
    ASSUME NEW t \in TrackingOf(Names), NEW names \in SUBSET Names, NEW isAccepted \in BOOLEAN
    PROVE  /\ RecordGlobal(t, names) \in TrackingOf(Names)
           /\ RecordAccepted(t, names, isAccepted) \in TrackingOf(Names)
BY DEF TrackingOf, RecordGlobal, RecordAccepted, AcceptedAddition

\* What the two updates do to the two sets.
LEMMA RecordEffects ==
    ASSUME NEW t \in TrackingOf(Names), NEW names \in SUBSET Names, NEW isAccepted \in BOOLEAN
    PROVE  /\ RecordGlobal(t, names).global = t.global \cup names
           /\ RecordGlobal(t, names).accepted = t.accepted
           /\ RecordAccepted(t, names, isAccepted).global = t.global
           /\ RecordAccepted(t, names, isAccepted).accepted
                  = t.accepted \cup (IF isAccepted THEN names ELSE {})
BY DEF TrackingOf, RecordGlobal, RecordAccepted, AcceptedAddition

\* Whatever guides the choice, the candidates are among the names on offer.
LEMMA CandidatesAvailable ==
    ASSUME NEW guided, NEW t, NEW available, NEW local,
           NEW c \in Candidates(guided, t, available, local)
    PROVE  c \subseteq available
BY DEF Candidates, Exploited

\* Counting a failure keeps the counters natural numbers.
LEMMA CountedAsType ==
    ASSUME NEW s \in StatsSet, NEW type
    PROVE  CountedAs(s, type) \in StatsSet
<1> DEFINE one(t) == IF type = t THEN 1 ELSE 0
<1>1. s.type1 + one(1) \in Nat /\ s.type2 + one(2) \in Nat /\ s.type3 + one(3) \in Nat
  BY DEF StatsSet
<1>2. CountedAs(s, type) = [s EXCEPT !.type1 = s.type1 + one(1),
                                     !.type2 = s.type2 + one(2),
                                     !.type3 = s.type3 + one(3)]
  BY DEF CountedAs
<1> HIDE DEF one
<1> QED BY <1>1, <1>2 DEF StatsSet

\* Setting one counter to a natural number keeps the others.
LEMMA StatsUpdate ==
    ASSUME NEW s \in StatsSet, NEW n \in Nat
    PROVE  /\ [s EXCEPT !.sysTests = n] \in StatsSet
           /\ [s EXCEPT !.type2 = n] \in StatsSet
           /\ [s EXCEPT !.queueLength = n] \in StatsSet
           /\ [s EXCEPT !.acceptedSeeds = n] \in StatsSet
           /\ [s EXCEPT !.iterations = n] \in StatsSet
           /\ [s EXCEPT !.loops = n] \in StatsSet
BY DEF StatsSet

\* So does the classification of a run.
LEMMA ClassifiedType ==
    ASSUME NEW s \in StatsSet, NEW run
    PROVE  Classified(s, run) \in StatsSet
<1>1. CountedAs(s, run.type) \in StatsSet
  BY CountedAsType
<1>2. FoldedTotal(CountedAs(s, run.type)) \in Nat
  BY <1>1 DEF StatsSet, FoldedTotal
<1> QED BY <1>1, <1>2 DEF Classified, StatsSet

\* A run of the test script is recorded as a system run.
LEMMA RunRecordType ==
    ASSUME NEW outcome \in Outcomes, NEW report \in Reports, NEW isBootstrap \in BOOLEAN
    PROVE  RunRecord(outcome, report, isBootstrap) \in RunSet
<1>1. outcome \in OutcomeSet /\ report \in ReportSet
  BY InputAssumption
<1>2. outcome.status \in {"ok"} \cup Failed /\ outcome.type \in 0..4
  BY <1>1 DEF OutcomeSet
<1>3. report.exercised \in SUBSET Names /\ report.used \in SUBSET Names
  BY <1>1 DEF ReportSet
<1> QED BY <1>2, <1>3 DEF RunRecord, RunSet

\* One event more keeps the event log one of counts.
LEMMA EventType ==
    ASSUME NEW m \in MetricsSet, NEW n \in Names
    PROVE  /\ [m EXCEPT !.discovered[n] = @ + 1] \in MetricsSet
           /\ [m EXCEPT !.useDiscovered[n] = @ + 1] \in MetricsSet
<1>1. /\ m.discovered \in [Names -> Nat] /\ m.useDiscovered \in [Names -> Nat]
  BY DEF MetricsSet
<1>2. /\ [m.discovered EXCEPT ![n] = @ + 1] \in [Names -> Nat]
      /\ [m.useDiscovered EXCEPT ![n] = @ + 1] \in [Names -> Nat]
  BY <1>1
<1> QED BY <1>2 DEF MetricsSet

\* The alternation keeps the strategy, the flag and the clock well formed.
LEMMA SwitchType ==
    ASSUME NEW s \in SmartSet
    PROVE  SwitchedStrategy(s) \in SmartSet
<1>1. 0 \in 0..MaxIdle
  BY BoundAssumption
<1>2. \A f \in 0..1, m \in {"SmartMutator/StackedMutator", "SmartMutator/SingleMutator"} :
        [s EXCEPT !.flag = f, !.lastError23 = 0, !.strategy = m] \in SmartSet
  BY <1>1 DEF SmartSet
<1> QED BY <1>2 DEF SwitchedStrategy

\* What is related to parameters is a set of parameters.
LEMMA RelatedType ==
    ASSUME NEW names \in SUBSET Names
    PROVE  RelatedOf(names) \subseteq Names
BY NamesAssumption DEF RelatedOf

-----------------------------------------------------------------------------
(* Type correctness.                                                       *)

\* Every variable keeps its type in every campaign.
THEOREM Typing == Spec => []TypeOK
<1> USE DEF result, tracking
<1>1. Init => TypeOK
  <2> SUFFICES ASSUME Init PROVE TypeOK
    OBVIOUS
  <2>1. setting \in SettingSet
    BY InputAssumption DEF Init
  <2>2. smart \in SmartSet
    BY <2>1, BoundAssumption DEF Init, SettingSet, SmartSet
  <2>3. stats \in StatsSet /\ exercise \in TrackingOf(Names) /\ useBacked \in TrackingOf(Names)
    BY DEF Init, StatsSet, TrackingOf, EmptyTracking
  <2>4. metrics \in MetricsSet /\ sys \in RunSet
    BY DEF Init, MetricsSet, NoRun, RunSet
  <2>5. seed \in SeedSet /\ testcase \in TestcaseSet /\ pool \in Seq(SeedSet)
    BY DEF Init, NoSeed, NoTestcase, SeedSet, TestcaseSet
  <2> QED BY <2>2, <2>3, <2>4, <2>5 DEF Init, TypeOK, PCs
<1>2. TypeOK /\ [Next]_vars => TypeOK'
  <2> SUFFICES ASSUME TypeOK, [Next]_vars PROVE TypeOK'
    OBVIOUS
  <2> USE DEF TypeOK, PCs, LoopPhase, RecordPhase, Terminal
  <2>1. CASE SkipBootstrap
    BY <2>1 DEF SkipBootstrap
  <2>2. CASE RunBootstrap
    <3>1. sys' \in RunSet /\ stats' \in StatsSet
      BY <2>2, RunRecordType, ClassifiedType DEF RunBootstrap
    <3> QED BY <2>2, <3>1 DEF RunBootstrap
  <2>3. CASE Record
    <3>0. /\ sys \in RunSet /\ sys.exercised \in SUBSET Names /\ sys.used \in SUBSET Names
          /\ sys.newExercised \in SUBSET Names /\ sys.newUsed \in SUBSET Names
          /\ IsAccepted(sys) \in BOOLEAN
      BY DEF RunSet, IsAccepted
    <3>1. CASE RecordExercised
      <4>1. exercise' \in TrackingOf(Names)
        BY <3>0, <3>1, RecordTypes DEF RecordExercised
      <4>2. sys' \in RunSet
        BY <3>0, <3>1 DEF RecordExercised, RunSet, Unrecorded
      <4>3. testcase' \in TestcaseSet
        BY <3>0, <3>1 DEF RecordExercised, TestcaseSet
      <4> QED BY <3>1, <4>1, <4>2, <4>3 DEF RecordExercised
    <3>2. CASE AcceptExercised
      <4>1. exercise' \in TrackingOf(Names)
        BY <3>0, <3>2, RecordTypes DEF AcceptExercised
      <4> QED BY <3>2, <4>1 DEF AcceptExercised
    <3>3. CASE RecordUsed
      <4>1. useBacked' \in TrackingOf(Names)
        BY <3>0, <3>3, RecordTypes DEF RecordUsed
      <4>2. sys' \in RunSet
        BY <3>0, <3>3 DEF RecordUsed, RunSet, Unrecorded
      <4> QED BY <3>3, <4>1, <4>2 DEF RecordUsed
    <3>4. CASE AcceptUsed
      <4>1. useBacked' \in TrackingOf(Names)
        BY <3>0, <3>4, RecordTypes DEF AcceptUsed
      <4> QED BY <3>4, <4>1 DEF AcceptUsed
    <3>5. CASE LogExercised
      <4>1. metrics' \in MetricsSet
        BY <3>0, <3>5, EventType DEF LogExercised
      <4>2. sys' \in RunSet
        BY <3>0, <3>5 DEF LogExercised, RunSet
      <4> QED BY <3>5, <4>1, <4>2 DEF LogExercised
    <3>6. CASE LogUsed
      <4>1. metrics' \in MetricsSet
        BY <3>0, <3>6, EventType DEF LogUsed
      <4>2. sys' \in RunSet
        BY <3>0, <3>6 DEF LogUsed, RunSet
      <4> QED BY <3>6, <4>1, <4>2 DEF LogUsed
    <3> QED BY <2>3, <3>1, <3>2, <3>3, <3>4, <3>5, <3>6 DEF Record
  <2>4. CASE FinishBootstrap
    <3>1. sys' \in RunSet /\ testcase' \in TestcaseSet
      BY <2>4 DEF FinishBootstrap, NoRun, RunSet, NoTestcase, TestcaseSet
    <3>2. metrics' \in MetricsSet
      <4>1. metrics.snapshots + 1 \in Nat
        BY DEF MetricsSet
      <4>2. \A n \in Nat : [metrics EXCEPT !.snapshots = n] \in MetricsSet
        BY DEF MetricsSet
      <4> QED BY <2>4, <4>1, <4>2 DEF FinishBootstrap
    <3> QED BY <2>4, <3>1, <3>2 DEF FinishBootstrap, AllLogged
  <2>5. CASE LeaveLoop
    BY <2>5 DEF LeaveLoop
  <2>6. CASE StartLoop
    BY <2>6 DEF StartLoop
  <2>7. CASE GenerateFromPool
    <3>1. seed' \in SeedSet
      BY <2>7 DEF GenerateFromPool
    <3>2. stats' \in StatsSet
      <4>1. Len(pool) \in Nat
        OBVIOUS
      <4>2. stats' = [stats EXCEPT !.queueLength = Len(pool)]
        BY <2>7 DEF GenerateFromPool
      <4> QED BY <4>1, <4>2, StatsUpdate
    <3> QED BY <2>7, <3>1, <3>2 DEF GenerateFromPool
  <2>8. CASE GenerateFresh
    <3>1. PICK drawn \in SUBSET Names :
             seed' = [names |-> IF setting.isolated THEN drawn ELSE drawn \cup RelatedOf(drawn),
                      exercised |-> {}]
      BY <2>8, CandidatesAvailable, NamesAssumption DEF GenerateFresh
    <3>2. seed' \in SeedSet
      BY <3>1, RelatedType DEF SeedSet
    <3>3. stats' \in StatsSet
      <4>1. Len(pool) \in Nat
        OBVIOUS
      <4>2. stats' = [stats EXCEPT !.queueLength = Len(pool)]
        BY <2>8 DEF GenerateFresh
      <4> QED BY <4>1, <4>2, StatsUpdate
    <3> QED BY <2>8, <3>2, <3>3 DEF GenerateFresh
  <2>9. CASE Mutate
    <3>1. seed.names \subseteq Names /\ seed.exercised \subseteq Names
      BY DEF SeedSet
    <3>2. \A picks \in Picks : picks \subseteq seed.names
      BY CandidatesAvailable DEF Picks
    <3>3. testcase' \in TestcaseSet
      BY <2>9, <3>1, <3>2 DEF Mutate, TestcaseSet
    <3>4. sys' \in RunSet
      BY <2>9 DEF Mutate, NoRun, RunSet
    <3> QED BY <2>9, <3>3, <3>4 DEF Mutate
  <2>10. CASE PrepareTestcase
    <3>1. testcase' \in TestcaseSet
      BY <2>10, NamesAssumption DEF PrepareTestcase, TestcaseSet
    <3>2. smart' \in SmartSet
      BY <2>10, SwitchType DEF PrepareTestcase
    <3> QED BY <2>10, <3>1, <3>2 DEF PrepareTestcase
  <2>11. CASE SkipUnitTest
    BY <2>11 DEF SkipUnitTest
  <2>12. CASE RunUnitTest
    BY <2>12 DEF RunUnitTest
  <2>13. CASE MavenLeftOver
    BY <2>13 DEF MavenLeftOver
  <2>14. CASE RunSystem
    <3>1. [stats EXCEPT !.sysTests = @ + 1] \in StatsSet
      <4>1. stats.sysTests + 1 \in Nat
        BY DEF StatsSet
      <4> QED BY <4>1, StatsUpdate
    <3>2. \A type : CountedAs([stats EXCEPT !.sysTests = @ + 1], type) \in StatsSet
      BY <3>1, CountedAsType
    <3>3. stats' \in StatsSet /\ sys' \in RunSet
      BY <2>14, <3>1, <3>2, RunRecordType, ClassifiedType DEF RunSystem
    <3>4. seed' \in SeedSet /\ testcase' \in TestcaseSet /\ ut' \in {"none", "pass", "fail"}
      BY <2>14 DEF RunSystem, Unwind, NoSeed, NoTestcase, SeedSet, TestcaseSet
    <3> QED BY <2>14, <3>3, <3>4 DEF RunSystem, Unwind
  <2>15. CASE Verdict
    <3>1. smart' \in SmartSet
      <4>1. \A t \in 0..MaxIdle : [smart EXCEPT !.lastError23 = t, !.idle = t] \in SmartSet
        BY DEF SmartSet
      <4>2. \A now \in smart.idle..MaxIdle : now \in 0..MaxIdle
        BY BoundAssumption DEF SmartSet
      <4>3. 0 \in 0..MaxIdle
        BY BoundAssumption
      <4> QED BY <2>15, <4>1, <4>2, <4>3 DEF Verdict
    <3>2. stats' \in StatsSet
      <4>1. stats.type2 + 0 \in Nat /\ stats.type2 + 1 \in Nat
        BY DEF StatsSet
      <4> QED BY <2>15, <4>1, StatsUpdate DEF Verdict
    <3>3. metrics' \in MetricsSet
      BY <2>15 DEF Verdict, MetricsSet, RunSet
    <3> QED BY <2>15, <3>1, <3>2, <3>3 DEF Verdict, AllLogged
  <2>16. CASE AddSeedToPool
    <3>1. [names |-> testcase.names, exercised |-> testcase.exercised] \in SeedSet
      BY DEF TestcaseSet, SeedSet
    <3>2. pool' \in Seq(SeedSet)
      BY <2>16, <3>1 DEF AddSeedToPool
    <3> QED BY <2>16, <3>2 DEF AddSeedToPool
  <2>17. CASE CountQueued
    <3>1. stats' \in StatsSet
      <4>1. stats.queueLength + 1 \in Nat
        BY DEF StatsSet
      <4> QED BY <2>17, <4>1, StatsUpdate DEF CountQueued, QueueAfterAdd
    <3> QED BY <2>17, <3>1 DEF CountQueued
  <2>18. CASE CountAcceptedSeed
    <3>1. stats' \in StatsSet
      <4>1. stats.acceptedSeeds + 1 \in Nat
        BY DEF StatsSet
      <4> QED BY <2>18, <4>1, StatsUpdate DEF CountAcceptedSeed
    <3> QED BY <2>18, <3>1 DEF CountAcceptedSeed
  <2>19. CASE DropTestcase
    BY <2>19 DEF DropTestcase
  <2>20. CASE CountIteration
    <3>1. stats' \in StatsSet
      <4>1. stats.iterations + 1 \in Nat
        BY DEF StatsSet
      <4> QED BY <2>20, <4>1, StatsUpdate DEF CountIteration
    <3>2. testcase' \in TestcaseSet
      BY <2>20 DEF CountIteration, NoTestcase, TestcaseSet
    <3>3. sys' \in RunSet
      BY <2>20 DEF CountIteration, NoRun, RunSet
    <3> QED BY <2>20, <3>1, <3>2, <3>3 DEF CountIteration
  <2>21. CASE RecordSnapshot
    <3>1. metrics' \in MetricsSet
      <4>1. metrics.snapshots + 1 \in Nat
        BY DEF MetricsSet
      <4>2. \A n \in Nat : [metrics EXCEPT !.snapshots = n] \in MetricsSet
        BY DEF MetricsSet
      <4> QED BY <2>21, <4>1, <4>2 DEF RecordSnapshot
    <3> QED BY <2>21, <3>1 DEF RecordSnapshot
  <2>22. CASE EndLoop
    <3>1. stats' \in StatsSet
      <4>1. stats.loops + 1 \in Nat
        BY DEF StatsSet
      <4> QED BY <2>22, <4>1, StatsUpdate DEF EndLoop
    <3>2. seed' \in SeedSet
      BY <2>22 DEF EndLoop, NoSeed, SeedSet
    <3> QED BY <2>22, <3>1, <3>2 DEF EndLoop
  <2>23. CASE Finalize
    <3>1. metrics' \in MetricsSet
      BY <2>23 DEF Finalize, MetricsSet
    <3> QED BY <2>23, <3>1 DEF Finalize
  <2>24. CASE Interrupt
    <3>1. seed' \in SeedSet /\ testcase' \in TestcaseSet
      BY <2>24 DEF Interrupt, Unwind, NoSeed, SeedSet, NoTestcase, TestcaseSet
    <3> QED BY <2>24, <3>1 DEF Interrupt, Unwind
  <2>25. CASE UNCHANGED vars
    BY <2>25 DEF vars
  <2> QED
    BY <2>1, <2>2, <2>3, <2>4, <2>5, <2>6, <2>7, <2>8, <2>9, <2>10, <2>11, <2>12, <2>13,
       <2>14, <2>16, <2>15, <2>17, <2>18, <2>19, <2>20, <2>21, <2>22, <2>23, <2>24, <2>25
    DEF Next, MainStep, Bootstrap, Generate, Validate, Conclude
<1>3. QED BY <1>1, <1>2, PTL DEF Spec

-----------------------------------------------------------------------------
(* What recording a run leaves alone.                                      *)

\* The campaign is in its bootstrap run.
InBootstrap == pc = "bootstrap" \/ (pc \in {"exercise"} \cup RecordPhase /\ sys.bootstrap)

\* updateExerciseState touches the two records, the event log and what the test case
\* says it exercised; the run itself stays what it was.
LEMMA RecordLeaves ==
    ASSUME TypeOK, Record
    PROVE  /\ UNCHANGED <<setting, stop, iter, pool, seed, ut, stats, smart, afterStop>>
           /\ pc \in {"exercise"} \cup RecordPhase /\ pc' \in RecordPhase
           /\ sys'.status = sys.status /\ sys'.type = sys.type
           /\ sys'.bootstrap = sys.bootstrap
           /\ sys'.exercised = sys.exercised /\ sys'.used = sys.used
           /\ testcase'.names = testcase.names
           /\ metrics'.failureTypes = metrics.failureTypes
           /\ metrics'.snapshots = metrics.snapshots
<1>0. sys \in RunSet /\ testcase \in TestcaseSet /\ metrics \in MetricsSet
  BY DEF TypeOK
<1> USE DEF result, tracking, RecordPhase
<1>1. CASE RecordExercised
  BY <1>0, <1>1 DEF RecordExercised, RunSet, TestcaseSet
<1>2. CASE AcceptExercised
  BY <1>2 DEF AcceptExercised
<1>3. CASE RecordUsed
  BY <1>0, <1>3 DEF RecordUsed, RunSet
<1>4. CASE AcceptUsed
  BY <1>4 DEF AcceptUsed
<1>5. CASE LogExercised
  BY <1>0, <1>5 DEF LogExercised, RunSet, MetricsSet
<1>6. CASE LogUsed
  BY <1>0, <1>6 DEF LogUsed, RunSet, MetricsSet
<1> QED BY <1>1, <1>2, <1>3, <1>4, <1>5, <1>6 DEF Record

\* A system run of a test case is not the bootstrap's, and leaves the rest alone too.
LEMMA RunSystemLeaves ==
    ASSUME RunSystem
    PROVE  /\ pc = "system" /\ pc' \in {"exercise", "finally"}
           /\ UNCHANGED <<setting, stop, iter, pool, exercise, useBacked, smart, metrics,
                          afterStop>>
           /\ ~sys'.bootstrap
<1>1. pc = "system" /\ pc' \in {"exercise", "finally"}
  BY DEF RunSystem, Unwind
<1>2. UNCHANGED <<setting, stop, iter, pool, exercise, useBacked, smart, metrics, afterStop>>
  BY DEF RunSystem, tracking
<1>3. \A outcome, report : ~RunRecord(outcome, report, FALSE).bootstrap
  BY DEF RunRecord
<1>4. ~sys'.bootstrap
  BY <1>3 DEF RunSystem
<1> QED BY <1>1, <1>2, <1>4

-----------------------------------------------------------------------------
(* What may enter the seed pool.                                           *)

\* The settings under which the pool can grow.
Forced == ~setting.skipUnit /\ ~setting.requirePass

\* The strengthening of PoolRequiresForcedGate: a failed unit test reaches the system
\* test, and so can meet a good system run, only under those settings.
GateInv ==
    /\ PoolRequiresForcedGate
    /\ pc \in {"prepare", "unit", "system"} => sys.status = "none"
    /\ InBootstrap \/ pc \in {"prepare", "unit"} => ut = "none"
    /\ pc = "system" /\ ut = "fail" => Forced
    /\ ut = "fail" /\ sys.status = "ok" => Forced

\* The pool stays empty unless failing test cases are let through to the system test.
THEOREM ForcedGate == Spec => []PoolRequiresForcedGate
<1> USE DEF result, tracking, InBootstrap, RecordPhase, GateInv, PoolRequiresForcedGate, Forced
<1>1. Init => GateInv
  BY DEF Init, NoRun
<1>2. TypeOK /\ GateInv /\ [Next]_vars => GateInv'
  <2> SUFFICES ASSUME TypeOK, GateInv, [Next]_vars PROVE GateInv'
    OBVIOUS
  <2>1. CASE Bootstrap
    BY <2>1 DEF Bootstrap, SkipBootstrap, RunBootstrap, FinishBootstrap, AllLogged, RunRecord,
                NoRun
  <2>2. CASE LeaveLoop \/ StartLoop \/ GenerateFromPool \/ GenerateFresh
    BY <2>2 DEF LeaveLoop, StartLoop, GenerateFromPool, GenerateFresh
  <2>3. CASE Mutate
    BY <2>3 DEF Mutate, NoRun
  <2>4. CASE PrepareTestcase \/ SkipUnitTest
    BY <2>4 DEF PrepareTestcase, SkipUnitTest
  <2>5. CASE RunUnitTest
    BY <2>5 DEF RunUnitTest, RejectedByRequiredGate
  <2>6. CASE RunSystem
    BY <2>6 DEF RunSystem, RunRecord, Unwind
  <2>7. CASE Record
    BY <2>7, RecordLeaves
  <2>8. CASE Verdict
    BY <2>8 DEF Verdict, AllLogged
  <2>9. CASE AddSeedToPool
    BY <2>9 DEF AddSeedToPool, Interesting
  <2>10. CASE CountQueued \/ CountAcceptedSeed \/ DropTestcase \/ RecordSnapshot \/ EndLoop
              \/ Finalize
    BY <2>10 DEF CountQueued, CountAcceptedSeed, DropTestcase, RecordSnapshot, EndLoop,
                 Finalize
  <2>11. CASE CountIteration
    BY <2>11 DEF CountIteration, NoRun
  <2>12. CASE MavenLeftOver \/ Interrupt
    BY <2>12 DEF MavenLeftOver, Interrupt, Unwind
  <2>13. CASE UNCHANGED vars
    BY <2>13 DEF vars
  <2> QED
    BY <2>1, <2>2, <2>3, <2>4, <2>5, <2>6, <2>7, <2>8, <2>9, <2>10, <2>11, <2>12, <2>13
    DEF Next, MainStep, Generate, Validate, Conclude
<1>3. QED BY <1>1, <1>2, Typing, PTL DEF Spec

\* The strengthening of PoolSeedsExercised: from the recording of its run on a test case
\* carries the names of that run, and once a good run has entered the accepted record
\* they are there.
SeedInv ==
    /\ PoolSeedsExercised
    /\ pc \in RecordPhase => testcase.exercised = sys.exercised
    /\ pc \in {"use", "acceptUse", "discover", "accept"} /\ sys.status = "ok"
          => testcase.exercised \subseteq exercise.accepted
    /\ pc \in {"prepare", "unit", "system"} => sys.status = "none"

\* The names a seed of the pool carries are known as exercised by an accepted run.
THEOREM SeedsExercised == Spec => []PoolSeedsExercised
<1> USE DEF result, tracking, RecordPhase, SeedInv, PoolSeedsExercised
<1>1. Init => SeedInv
  BY DEF Init, NoRun
<1>2. TypeOK /\ SeedInv /\ [Next]_vars => SeedInv'
  <2> SUFFICES ASSUME TypeOK, SeedInv, [Next]_vars PROVE SeedInv'
    OBVIOUS
  <2>1. CASE Bootstrap
    BY <2>1 DEF Bootstrap, SkipBootstrap, RunBootstrap, FinishBootstrap
  <2>2. CASE LeaveLoop \/ StartLoop \/ GenerateFromPool \/ GenerateFresh
    BY <2>2 DEF LeaveLoop, StartLoop, GenerateFromPool, GenerateFresh
  <2>3. CASE Mutate
    BY <2>3 DEF Mutate, NoRun
  <2>4. CASE PrepareTestcase \/ SkipUnitTest
    BY <2>4 DEF PrepareTestcase, SkipUnitTest
  <2>5. CASE RunUnitTest
    BY <2>5 DEF RunUnitTest
  <2>6. CASE RunSystem
    BY <2>6 DEF RunSystem, Unwind
  <2>7. CASE Record
    <3>0. /\ exercise \in TrackingOf(Names) /\ sys.exercised \in SUBSET Names
          /\ IsAccepted(sys) \in BOOLEAN
      BY DEF TypeOK, RunSet, IsAccepted
    <3>1. /\ UNCHANGED pool
          /\ pc \in {"exercise"} \cup RecordPhase /\ pc' \in RecordPhase
          /\ sys'.status = sys.status /\ sys'.exercised = sys.exercised
      BY <2>7, RecordLeaves
    <3>2. CASE RecordExercised
      <4>1. exercise'.accepted = exercise.accepted
        BY <3>0, <3>2, RecordEffects DEF RecordExercised
      <4>2. testcase'.exercised = sys.exercised /\ pc' = "acceptExercise"
        BY <3>2 DEF RecordExercised, TypeOK, TestcaseSet
      <4> QED BY <3>1, <4>1, <4>2
    <3>3. CASE AcceptExercised
      <4>1. exercise'.accepted
               = exercise.accepted \cup (IF IsAccepted(sys) THEN sys.exercised ELSE {})
        BY <3>0, <3>3, RecordEffects DEF AcceptExercised
      <4>2. testcase' = testcase /\ pc = "acceptExercise" /\ pc' = "use"
        BY <3>3 DEF AcceptExercised
      <4> QED BY <3>1, <4>1, <4>2 DEF IsAccepted
    <3>4. CASE RecordUsed \/ AcceptUsed \/ LogExercised \/ LogUsed
      <4>1. /\ testcase' = testcase /\ exercise' = exercise
            /\ pc \in {"use", "acceptUse", "discover"}
        BY <3>4 DEF RecordUsed, AcceptUsed, LogExercised, LogUsed
      <4> QED BY <3>1, <4>1
    <3> QED BY <2>7, <3>2, <3>3, <3>4 DEF Record
  <2>8. CASE Verdict
    BY <2>8 DEF Verdict, AllLogged
  <2>9. CASE AddSeedToPool
    <3> DEFINE new == [names |-> testcase.names, exercised |-> testcase.exercised]
    <3>1. new.exercised \subseteq exercise.accepted
      BY <2>9 DEF AddSeedToPool, Interesting
    <3>2. new \in SeedSet
      BY DEF TypeOK, TestcaseSet, SeedSet
    <3>3. \A i \in DOMAIN pool' :
             pool'[i] = new \/ (i \in DOMAIN pool /\ pool'[i] = pool[i])
      <4> HIDE DEF new
      <4>1. pool \in Seq(SeedSet) /\ pool' = Append(pool, new)
        BY <2>9 DEF AddSeedToPool, TypeOK, new
      <4>2. /\ Len(Append(pool, new)) = Len(pool) + 1
            /\ \A i \in 1..Len(pool) : Append(pool, new)[i] = pool[i]
            /\ Append(pool, new)[Len(pool) + 1] = new
            /\ Append(pool, new) \in Seq(SeedSet)
        BY <4>1, <3>2, AppendProperties
      <4>3. /\ Len(pool) \in Nat /\ DOMAIN pool = 1..Len(pool)
            /\ DOMAIN pool' = 1..(Len(pool) + 1)
        BY <4>1, <4>2
      <4>4. \A i \in 1..(Len(pool) + 1) : i = Len(pool) + 1 \/ i \in 1..Len(pool)
        BY <4>3
      <4> QED BY <4>1, <4>2, <4>3, <4>4
    <3> HIDE DEF new
    <3> QED BY <2>9, <3>1, <3>3 DEF AddSeedToPool
  <2>10. CASE CountQueued \/ CountAcceptedSeed \/ DropTestcase \/ CountIteration
              \/ RecordSnapshot \/ EndLoop \/ Finalize
    BY <2>10 DEF CountQueued, CountAcceptedSeed, DropTestcase, CountIteration, RecordSnapshot,
                 EndLoop, Finalize
  <2>11. CASE MavenLeftOver \/ Interrupt
    BY <2>11 DEF MavenLeftOver, Interrupt, Unwind
  <2>12. CASE UNCHANGED vars
    BY <2>12 DEF vars
  <2> QED
    BY <2>1, <2>2, <2>3, <2>4, <2>5, <2>6, <2>7, <2>8, <2>9, <2>10, <2>11, <2>12
    DEF Next, MainStep, Generate, Validate, Conclude
<1>3. QED BY <1>1, <1>2, Typing, PTL DEF Spec

-----------------------------------------------------------------------------
(* How far a campaign runs after a stop was requested.                     *)

\* Where the loop over the test cases of a seed is.
IterInv ==
    /\ InBootstrap \/ pc \in {"check", "generate"} => iter = 0
    /\ pc \in LoopPhase \ {"check", "generate", "snapshot", "loopEnd"} => iter < TestcasePerSeed
    /\ pc = "loopEnd" => iter = TestcasePerSeed
    /\ iter <= TestcasePerSeed

\* iter counts the finished test cases of the loop, and returns to 0 between loops.
LEMMA Iterating == Spec => []IterInv
<1> USE BoundAssumption DEF result, tracking, InBootstrap, RecordPhase, LoopPhase, IterInv
<1>1. Init => IterInv
  BY DEF Init
<1>2. TypeOK /\ IterInv /\ [Next]_vars => IterInv'
  <2> SUFFICES ASSUME TypeOK, IterInv, [Next]_vars PROVE IterInv'
    OBVIOUS
  <2>1. CASE Bootstrap
    BY <2>1 DEF Bootstrap, SkipBootstrap, RunBootstrap, FinishBootstrap, AllLogged, RunRecord,
                NoRun
  <2>2. CASE Generate
    BY <2>2 DEF Generate, LeaveLoop, StartLoop, GenerateFromPool, GenerateFresh, Mutate
  <2>3. CASE RunUnitTest
    BY <2>3 DEF RunUnitTest
  <2>4. CASE RunSystem
    BY <2>4, RunSystemLeaves
  <2>5. CASE PrepareTestcase \/ SkipUnitTest \/ Verdict
    BY <2>5 DEF PrepareTestcase, SkipUnitTest, Verdict, AllLogged
  <2>r. CASE Record
    BY <2>r, RecordLeaves
  <2>6. CASE CountIteration \/ RecordSnapshot
    BY <2>6 DEF CountIteration, RecordSnapshot, TypeOK
  <2>7. CASE AddSeedToPool \/ CountQueued \/ CountAcceptedSeed \/ DropTestcase \/ EndLoop \/ Finalize
    BY <2>7 DEF AddSeedToPool, CountQueued, CountAcceptedSeed, DropTestcase, EndLoop, Finalize
  <2>8. CASE MavenLeftOver \/ Interrupt
    BY <2>8 DEF MavenLeftOver, Interrupt, Unwind
  <2>9. CASE UNCHANGED vars
    BY <2>9 DEF vars
  <2> QED
    BY <2>r, <2>1, <2>2, <2>3, <2>4, <2>5, <2>6, <2>7, <2>8, <2>9
    DEF Next, MainStep, Validate, Conclude
<1>3. QED BY <1>1, <1>2, Typing, PTL DEF Spec

\* The strengthening of StopBound: no test case of a later loop follows a stop, and
\* within a loop the test cases after the stop are among those of the loop.
StopInv ==
    /\ StopBound
    /\ ~stop => afterStop = 0
    /\ InBootstrap \/ pc = "generate" => afterStop = 0
    /\ pc \in {"mutate", "snapshot", "loopEnd"} => afterStop <= iter
    /\ pc \in LoopPhase \ {"check", "generate", "mutate", "snapshot", "loopEnd"}
          => afterStop <= iter + 1

\* At most testcase_per_seed test cases start after a stop was requested.
THEOREM StopHonoured == Spec => []StopBound
<1> USE BoundAssumption DEF result, tracking, InBootstrap, RecordPhase, LoopPhase, IterInv,
        StopInv, StopBound
<1>1. Init => StopInv
  BY DEF Init
<1>2. TypeOK /\ IterInv /\ StopInv /\ [Next]_vars => StopInv'
  <2> SUFFICES ASSUME TypeOK, IterInv, StopInv, [Next]_vars PROVE StopInv'
    OBVIOUS
  <2>0. iter \in Nat /\ afterStop \in Nat /\ stop \in BOOLEAN
    BY DEF TypeOK
  <2>1. CASE Bootstrap
    BY <2>0, <2>1 DEF Bootstrap, SkipBootstrap, RunBootstrap, FinishBootstrap, AllLogged, RunRecord,
                NoRun
  <2>2. CASE LeaveLoop \/ StartLoop \/ GenerateFromPool \/ GenerateFresh
    BY <2>0, <2>2 DEF LeaveLoop, StartLoop, StopSeen, GenerateFromPool, GenerateFresh
  <2>3. CASE Mutate
    BY <2>0, <2>3 DEF Mutate
  <2>4. CASE RunUnitTest
    BY <2>0, <2>4 DEF RunUnitTest
  <2>5. CASE RunSystem
    BY <2>0, <2>5, RunSystemLeaves
  <2>6. CASE PrepareTestcase \/ SkipUnitTest \/ Verdict
    BY <2>0, <2>6 DEF PrepareTestcase, SkipUnitTest, Verdict, AllLogged
  <2>r. CASE Record
    BY <2>0, <2>r, RecordLeaves
  <2>7. CASE CountIteration \/ RecordSnapshot
    BY <2>0, <2>7 DEF CountIteration, RecordSnapshot
  <2>8. CASE AddSeedToPool \/ CountQueued \/ CountAcceptedSeed \/ DropTestcase \/ EndLoop \/ Finalize
    BY <2>0, <2>8 DEF AddSeedToPool, CountQueued, CountAcceptedSeed, DropTestcase, EndLoop, Finalize
  <2>9. CASE MavenLeftOver \/ Interrupt
    BY <2>0, <2>9 DEF MavenLeftOver, Interrupt, Unwind
  <2>10. CASE UNCHANGED vars
    BY <2>0, <2>10 DEF vars
  <2> QED
    BY <2>r, <2>1, <2>2, <2>3, <2>4, <2>5, <2>6, <2>7, <2>8, <2>9, <2>10
    DEF Next, MainStep, Generate, Validate, Conclude
<1>3. QED BY <1>1, <1>2, Typing, Iterating, PTL DEF Spec

-----------------------------------------------------------------------------
(* The counters of the display board.                                      *)

\* The strengthening of CountersAgree: how far each counter may be from its
\* neighbour at each statement of the loop.
CountersInv ==
    /\ SeedsAgree
    /\ SnapshotsAgree
    /\ InBootstrap => stats.iterations = 0 /\ metrics.snapshots = 0
    /\ pc = "bootstrap" => stats.queueLength = Len(pool) /\ stats.acceptedSeeds = Len(pool)
    /\ pc = "queue" => stats.queueLength = Len(pool) - 1
    /\ pc \in {"queue", "count"} => stats.acceptedSeeds = Len(pool) - 1
    /\ pc \in {"bootstrap"} \cup (LoopPhase \ {"iterate"})
          => stats.acceptedSeeds <= stats.iterations
    /\ pc \in LoopPhase \ {"snapshot"}
          => metrics.snapshots \in {stats.iterations, stats.iterations + 1}
    /\ pc = "snapshot" => metrics.snapshots \in {stats.iterations - 1, stats.iterations}

\* The iterations are the test cases of the finished loops and of the current one.
LEMMA IterationsCounted == Spec => []IterationsAgree
<1> USE BoundAssumption DEF result, tracking
<1>1. Init => IterationsAgree
  <2> SUFFICES ASSUME Init PROVE IterationsAgree
    OBVIOUS
  <2>1. stats.iterations = 0 /\ stats.loops = 0 /\ iter = 0
    BY DEF Init
  <2>2. 0 = TestcasePerSeed * 0 + 0 /\ 0 <= TestcasePerSeed
    OBVIOUS
  <2> QED BY <2>1, <2>2 DEF IterationsAgree
<1>2. TypeOK /\ IterInv /\ IterationsAgree /\ [Next]_vars => IterationsAgree'
  <2> SUFFICES ASSUME TypeOK, IterInv, IterationsAgree, [Next]_vars PROVE IterationsAgree'
    OBVIOUS
  <2>0. /\ stats \in StatsSet /\ iter \in Nat
        /\ stats.iterations \in Nat /\ stats.loops \in Nat
    BY DEF TypeOK, StatsSet
  <2>1. CASE CountIteration
    <3>1. stats'.iterations = stats.iterations + 1 /\ stats'.loops = stats.loops
      BY <2>0, <2>1 DEF CountIteration, StatsSet
    <3>2. iter < TestcasePerSeed /\ iter' = iter + 1
      BY <2>1 DEF CountIteration, IterInv, LoopPhase
    <3>3. TestcasePerSeed * stats.loops \in Nat
      BY <2>0
    <3>4. \A m \in Nat : stats.iterations = m + iter => stats.iterations + 1 = m + (iter + 1)
      BY <2>0
    <3> QED BY <2>0, <3>1, <3>2, <3>3, <3>4 DEF IterationsAgree
  <2>2. CASE EndLoop
    <3>1. stats'.iterations = stats.iterations /\ stats'.loops = stats.loops + 1
      BY <2>0, <2>2 DEF EndLoop, StatsSet
    <3>2. iter = TestcasePerSeed /\ iter' = 0
      BY <2>2 DEF EndLoop, IterInv
    <3>3. TestcasePerSeed * (stats.loops + 1) + 0
              = TestcasePerSeed * stats.loops + TestcasePerSeed
      BY <2>0
    <3> QED BY <2>0, <3>1, <3>2, <3>3 DEF IterationsAgree
  <2>3. CASE ~CountIteration /\ ~EndLoop
    <3>1. stats'.iterations = stats.iterations /\ stats'.loops = stats.loops
      BY <2>0, <2>3 DEF Next, MainStep, MavenLeftOver, Interrupt, vars, StatsSet,
            Bootstrap, SkipBootstrap, RunBootstrap, FinishBootstrap, Record, RecordExercised,
            AcceptExercised, RecordUsed, AcceptUsed, LogExercised, LogUsed, Generate, LeaveLoop, StartLoop, GenerateFromPool,
            GenerateFresh, Mutate, Validate, PrepareTestcase, SkipUnitTest, RunUnitTest,
            RunSystem, Verdict, Conclude, AddSeedToPool, CountQueued, CountAcceptedSeed, DropTestcase, RecordSnapshot, Finalize,
            Classified, CountedAs
    <3>2. iter' = iter
      BY <2>3 DEF Next, MainStep, MavenLeftOver, Interrupt, vars,
            Bootstrap, SkipBootstrap, RunBootstrap, FinishBootstrap, Record, RecordExercised,
            AcceptExercised, RecordUsed, AcceptUsed, LogExercised, LogUsed, Generate, LeaveLoop, StartLoop, GenerateFromPool,
            GenerateFresh, Mutate, Validate, PrepareTestcase, SkipUnitTest, RunUnitTest,
            RunSystem, Verdict, Conclude, AddSeedToPool, CountQueued, CountAcceptedSeed, DropTestcase, RecordSnapshot, Finalize
    <3> QED BY <3>1, <3>2 DEF IterationsAgree
  <2> QED BY <2>1, <2>2, <2>3
<1>3. QED BY <1>1, <1>2, Typing, Iterating, PTL DEF Spec

\* The display board, the pool and the snapshots agree, up to one SIGINT in between.
THEOREM CountersConsistent == Spec => []CountersAgree
<1> USE DEF result, tracking, InBootstrap, RecordPhase, LoopPhase, CountersInv, SeedsAgree,
        SnapshotsAgree
<1>1. Init => CountersInv
  <2> SUFFICES ASSUME Init PROVE CountersInv
    OBVIOUS
  <2>1. /\ stats.iterations = 0 /\ stats.loops = 0 /\ stats.queueLength = 0
        /\ stats.acceptedSeeds = 0 /\ metrics.snapshots = 0 /\ iter = 0 /\ pc = "bootstrap"
    BY DEF Init
  <2>2. Len(pool) = 0
    BY DEF Init
  <2> QED BY <2>1, <2>2
<1>2. TypeOK /\ CountersInv /\ [Next]_vars => CountersInv'
  <2> SUFFICES ASSUME TypeOK, CountersInv, [Next]_vars PROVE CountersInv'
    OBVIOUS
  <2>0. /\ stats.iterations \in Nat /\ stats.queueLength \in Nat
        /\ stats.acceptedSeeds \in Nat /\ metrics.snapshots \in Nat /\ Len(pool) \in Nat
    BY DEF TypeOK, StatsSet, MetricsSet
  <2>a. stats \in StatsSet /\ metrics \in MetricsSet
    BY DEF TypeOK
  <2>1. CASE RunBootstrap
    <3>1. /\ stats'.iterations = stats.iterations
          /\ stats'.queueLength = stats.queueLength
          /\ stats'.acceptedSeeds = stats.acceptedSeeds
      BY <2>1, <2>a DEF RunBootstrap, Classified, CountedAs, StatsSet
    <3> QED BY <2>0, <2>1, <3>1 DEF RunBootstrap
  <2>2. CASE SkipBootstrap
    BY <2>0, <2>2 DEF SkipBootstrap
  <2>3. CASE FinishBootstrap
    <3>1. metrics'.snapshots = metrics.snapshots + 1
      BY <2>3, <2>a DEF FinishBootstrap, MetricsSet
    <3>2. pc = "discover" /\ sys.bootstrap /\ pc' = "check" /\ UNCHANGED <<stats, pool>>
      BY <2>3 DEF FinishBootstrap, AllLogged
    <3> QED BY <2>0, <3>1, <3>2
  <2>4. CASE LeaveLoop \/ StartLoop
    BY <2>0, <2>4 DEF LeaveLoop, StartLoop
  <2>5. CASE GenerateFromPool \/ GenerateFresh
    <3>1. /\ stats'.iterations = stats.iterations
          /\ stats'.queueLength = Len(pool)
          /\ stats'.acceptedSeeds = stats.acceptedSeeds
      BY <2>5, <2>a DEF GenerateFromPool, GenerateFresh, StatsSet
    <3> QED BY <2>0, <2>5, <3>1 DEF GenerateFromPool, GenerateFresh
  <2>6. CASE Mutate
    BY <2>0, <2>6 DEF Mutate
  <2>7. CASE RunUnitTest
    BY <2>0, <2>7 DEF RunUnitTest
  <2>8. CASE RunSystem
    <3>1. /\ stats'.iterations = stats.iterations
          /\ stats'.queueLength = stats.queueLength
          /\ stats'.acceptedSeeds = stats.acceptedSeeds
      BY <2>8, <2>a DEF RunSystem, Classified, CountedAs, StatsSet
    <3> QED BY <2>0, <2>8, <3>1, RunSystemLeaves
  <2>9. CASE PrepareTestcase \/ SkipUnitTest
    BY <2>0, <2>9 DEF PrepareTestcase, SkipUnitTest
  <2>10. CASE Record
    BY <2>0, <2>10, RecordLeaves
  <2>11. CASE Verdict
    <3>1. /\ stats'.iterations = stats.iterations
          /\ stats'.queueLength = stats.queueLength
          /\ stats'.acceptedSeeds = stats.acceptedSeeds
          /\ metrics'.snapshots = metrics.snapshots
      BY <2>11, <2>a DEF Verdict, StatsSet, MetricsSet
    <3> QED BY <2>0, <2>11, <3>1 DEF Verdict, AllLogged
  <2>12. CASE AddSeedToPool
    <3>1. Len(pool') = Len(pool) + 1
      BY <2>12 DEF AddSeedToPool, TypeOK, TestcaseSet, SeedSet
    <3> QED BY <2>0, <2>12, <3>1 DEF AddSeedToPool
  <2>q. CASE CountQueued
    <3>1. /\ stats'.iterations = stats.iterations
          /\ stats'.queueLength = stats.queueLength + 1
          /\ stats'.acceptedSeeds = stats.acceptedSeeds
      BY <2>q, <2>a DEF CountQueued, QueueAfterAdd, StatsSet
    <3> QED BY <2>0, <2>q, <3>1 DEF CountQueued
  <2>13. CASE CountAcceptedSeed
    <3>1. /\ stats'.iterations = stats.iterations
          /\ stats'.queueLength = stats.queueLength
          /\ stats'.acceptedSeeds = stats.acceptedSeeds + 1
      BY <2>13, <2>a DEF CountAcceptedSeed, StatsSet
    <3> QED BY <2>0, <2>13, <3>1 DEF CountAcceptedSeed
  <2>14. CASE DropTestcase
    BY <2>0, <2>14 DEF DropTestcase
  <2>15. CASE CountIteration
    <3>1. /\ stats'.iterations = stats.iterations + 1
          /\ stats'.queueLength = stats.queueLength
          /\ stats'.acceptedSeeds = stats.acceptedSeeds
      BY <2>15, <2>a DEF CountIteration, StatsSet
    <3> QED BY <2>0, <2>15, <3>1 DEF CountIteration
  <2>16. CASE RecordSnapshot
    <3>1. metrics'.snapshots = metrics.snapshots + 1
      BY <2>16, <2>a DEF RecordSnapshot, MetricsSet
    <3> QED BY <2>0, <2>16, <3>1 DEF RecordSnapshot
  <2>17. CASE EndLoop
    <3>1. /\ stats'.iterations = stats.iterations
          /\ stats'.queueLength = stats.queueLength
          /\ stats'.acceptedSeeds = stats.acceptedSeeds
      BY <2>17, <2>a DEF EndLoop, StatsSet
    <3> QED BY <2>0, <2>17, <3>1 DEF EndLoop
  <2>18. CASE Finalize
    <3>1. metrics'.snapshots = metrics.snapshots
      BY <2>18, <2>a DEF Finalize, MetricsSet
    <3> QED BY <2>0, <2>18, <3>1 DEF Finalize
  <2>19. CASE MavenLeftOver \/ Interrupt
    BY <2>0, <2>19 DEF MavenLeftOver, Interrupt, Unwind
  <2>20. CASE UNCHANGED vars
    BY <2>0, <2>20 DEF vars
  <2> QED
    BY <2>1, <2>2, <2>3, <2>4, <2>5, <2>6, <2>7, <2>8, <2>9, <2>10, <2>11, <2>12, <2>13,
       <2>14, <2>15, <2>16, <2>17, <2>18, <2>19, <2>20, <2>q
    DEF Next, MainStep, Bootstrap, Generate, Validate, Conclude
<1>3. IterationsAgree /\ CountersInv => CountersAgree
  BY DEF CountersAgree
<1>4. QED BY <1>1, <1>2, <1>3, Typing, IterationsCounted, PTL DEF Spec

-----------------------------------------------------------------------------
(* The failure counters.                                                   *)

\* What the bootstrap run may add to the failure counters.
BootstrapFailures == IF setting.guided THEN 1 ELSE 0

\* The strengthening of FailuresBounded: between the run and its verdict one of the
\* two failures the run may add is still to come.
FailuresInv ==
    /\ FailuresBounded
    /\ pc = "bootstrap" => FoldedTotal(stats) = 0
    /\ pc \in {"exercise"} \cup RecordPhase /\ ~sys.bootstrap
          => FoldedTotal(stats) + 1 <= 2 * stats.sysTests + BootstrapFailures

\* What a classified run adds to the counters.
LEMMA ClassifiedCounts ==
    ASSUME NEW s \in StatsSet, NEW run
    PROVE  /\ Classified(s, run) \in StatsSet
           /\ CountedAs(s, run.type) \in StatsSet
           /\ FoldedTotal(Classified(s, run)) \in {FoldedTotal(s), FoldedTotal(s) + 1}
           /\ FoldedTotal(CountedAs(s, run.type)) \in {FoldedTotal(s), FoldedTotal(s) + 1}
           /\ CountedAs(s, run.type).total = s.total
           /\ Classified(s, run).sysTests = s.sysTests
           /\ CountedAs(s, run.type).sysTests = s.sysTests
           /\ \/ Classified(s, run) = s
              \/ Classified(s, run).total = FoldedTotal(Classified(s, run))
<1> DEFINE c == CountedAs(s, run.type)
<1>1. c \in StatsSet /\ Classified(s, run) \in StatsSet
  BY CountedAsType, ClassifiedType
<1>2. /\ c.type1 = s.type1 + (IF run.type = 1 THEN 1 ELSE 0)
      /\ c.type2 = s.type2 + (IF run.type = 2 THEN 1 ELSE 0)
      /\ c.type3 = s.type3 + (IF run.type = 3 THEN 1 ELSE 0)
      /\ c.total = s.total /\ c.sysTests = s.sysTests
  BY DEF CountedAs, StatsSet
<1>3. s.type1 \in Nat /\ s.type2 \in Nat /\ s.type3 \in Nat
  BY DEF StatsSet
<1>4. FoldedTotal(c) \in {FoldedTotal(s), FoldedTotal(s) + 1}
  BY <1>2, <1>3 DEF FoldedTotal
<1>5. CASE run.status = "ok"
  BY <1>1, <1>2, <1>4, <1>5 DEF Classified
<1>6. CASE run.status # "ok"
  <2> HIDE DEF c
  <2>1. Classified(s, run) = [c EXCEPT !.total = FoldedTotal(c)]
    BY <1>6 DEF Classified, c
  <2>2. /\ Classified(s, run).type1 = c.type1 /\ Classified(s, run).type2 = c.type2
        /\ Classified(s, run).type3 = c.type3 /\ Classified(s, run).sysTests = c.sysTests
        /\ Classified(s, run).total = FoldedTotal(c)
    BY <1>1, <2>1 DEF StatsSet
  <2>3. FoldedTotal(Classified(s, run)) = FoldedTotal(c)
    BY <2>2 DEF FoldedTotal
  <2> QED BY <1>1, <1>2, <1>4, <2>2, <2>3 DEF c
<1> QED BY <1>5, <1>6

\* The total never exceeds its parts, and no run adds more than two to them.
LEMMA FailuresAccounted == Spec => []FailuresBounded
<1> USE DEF result, tracking, RecordPhase, FailuresInv, FailuresBounded, BootstrapFailures
<1>1. Init => FailuresInv
  BY DEF Init, FoldedTotal
<1>2. TypeOK /\ FailuresInv /\ [Next]_vars => FailuresInv'
  <2> SUFFICES ASSUME TypeOK, FailuresInv, [Next]_vars PROVE FailuresInv'
    OBVIOUS
  <2>0. /\ stats \in StatsSet /\ FoldedTotal(stats) \in Nat /\ stats.total \in Nat
        /\ stats.sysTests \in Nat
    BY DEF TypeOK, StatsSet, FoldedTotal
  <2>1. CASE RunBootstrap
    <3>1. PICK outcome \in Outcomes : stats' = Classified(stats, outcome)
      BY <2>1 DEF RunBootstrap
    <3>2. /\ pc = "bootstrap" /\ setting.guided /\ pc' = "exercise" /\ setting' = setting
          /\ sys'.bootstrap
      BY <2>1 DEF RunBootstrap, RunRecord
    <3>3. /\ FoldedTotal(stats') \in {FoldedTotal(stats), FoldedTotal(stats) + 1}
          /\ stats'.sysTests = stats.sysTests
          /\ stats' = stats \/ stats'.total = FoldedTotal(stats')
      BY <3>1, <2>0, ClassifiedCounts
    <3> QED BY <2>0, <3>2, <3>3
  <2>2. CASE RunSystem
    <3> DEFINE counted == [stats EXCEPT !.sysTests = @ + 1]
    <3>1. /\ counted \in StatsSet /\ counted.sysTests = stats.sysTests + 1
          /\ FoldedTotal(counted) = FoldedTotal(stats) /\ counted.total = stats.total
      <4>1. stats.sysTests + 1 \in Nat
        BY <2>0
      <4> QED BY <2>0, <4>1, StatsUpdate DEF FoldedTotal, StatsSet
    <3>2. PICK outcome \in Outcomes :
             \/ stats' = CountedAs(counted, outcome.type) /\ pc' = "finally"
             \/ stats' = Classified(counted, outcome) /\ pc' = "exercise"
      BY <2>2 DEF RunSystem, Unwind
    <3>3. setting' = setting
      BY <2>2 DEF RunSystem
    <3> HIDE DEF counted
    <3>4. CASE stats' = CountedAs(counted, outcome.type) /\ pc' = "finally"
      <4>1. /\ FoldedTotal(stats') \in {FoldedTotal(counted), FoldedTotal(counted) + 1}
            /\ stats'.sysTests = counted.sysTests /\ stats'.total = counted.total
        BY <3>1, <3>4, ClassifiedCounts
      <4> QED BY <2>0, <3>1, <3>3, <3>4, <4>1
    <3>5. CASE stats' = Classified(counted, outcome) /\ pc' = "exercise"
      <4>1. /\ FoldedTotal(stats') \in {FoldedTotal(counted), FoldedTotal(counted) + 1}
            /\ stats'.sysTests = counted.sysTests
            /\ stats' = counted \/ stats'.total = FoldedTotal(stats')
        BY <3>1, <3>5, ClassifiedCounts
      <4> QED BY <2>0, <3>1, <3>3, <3>5, <4>1
    <3> QED BY <3>2, <3>4, <3>5
  <2>3. CASE Verdict
    <3>1. PICK more \in {0, 1} : stats' = [stats EXCEPT !.type2 = stats.type2 + more]
      BY <2>3 DEF Verdict
    <3>2. /\ stats'.sysTests = stats.sysTests /\ stats'.total = stats.total
          /\ stats'.type1 = stats.type1 /\ stats'.type2 = stats.type2 + more
          /\ stats'.type3 = stats.type3
      BY <3>1, <2>0 DEF StatsSet
    <3>3. FoldedTotal(stats') = FoldedTotal(stats) + more
      BY <2>0, <3>2 DEF FoldedTotal, StatsSet
    <3>4. pc = "discover" /\ ~sys.bootstrap /\ pc' = "accept" /\ setting' = setting
      BY <2>3 DEF Verdict, AllLogged
    <3> QED BY <2>0, <3>2, <3>3, <3>4
  <2>4. CASE Record
    <3>1. UNCHANGED <<stats, setting, sys.bootstrap>> /\ pc \in {"exercise"} \cup RecordPhase
          /\ pc' \in RecordPhase
      BY <2>4, RecordLeaves
    <3> QED BY <2>0, <3>1
  <2>5. CASE GenerateFromPool \/ GenerateFresh \/ CountQueued \/ CountAcceptedSeed
             \/ CountIteration \/ EndLoop
    <3>1. /\ FoldedTotal(stats') = FoldedTotal(stats)
          /\ stats'.sysTests = stats.sysTests /\ stats'.total = stats.total
      BY <2>5, <2>0 DEF GenerateFromPool, GenerateFresh, CountQueued, CountAcceptedSeed,
         CountIteration, EndLoop, StatsSet, FoldedTotal
    <3>2. pc' \notin {"bootstrap", "exercise"} \cup RecordPhase /\ setting' = setting
      BY <2>5 DEF GenerateFromPool, GenerateFresh, CountQueued, CountAcceptedSeed,
         CountIteration, EndLoop
    <3> QED BY <2>0, <3>1, <3>2
  <2>6. CASE SkipBootstrap \/ FinishBootstrap \/ LeaveLoop
             \/ StartLoop \/ Mutate \/ PrepareTestcase \/ SkipUnitTest \/ RunUnitTest
             \/ AddSeedToPool \/ DropTestcase \/ RecordSnapshot \/ Finalize \/ MavenLeftOver
             \/ Interrupt
    <3>1. /\ UNCHANGED <<stats, setting>>
          /\ pc' \notin {"bootstrap", "exercise"} \cup RecordPhase
      BY <2>6 DEF SkipBootstrap, FinishBootstrap, LeaveLoop, StartLoop, Mutate,
         PrepareTestcase, SkipUnitTest, RunUnitTest, AddSeedToPool, DropTestcase,
         RecordSnapshot, Finalize, MavenLeftOver, Interrupt, Unwind
    <3> QED BY <2>0, <3>1
  <2>7. CASE UNCHANGED vars
    BY <2>7 DEF vars
  <2> QED
    BY <2>1, <2>2, <2>3, <2>4, <2>5, <2>6, <2>7
    DEF Next, MainStep, Bootstrap, Generate, Validate, Conclude
<1>3. QED BY <1>1, <1>2, Typing, PTL DEF Spec

\* The strengthening of FirstFailuresCounted: a run that reaches its verdict is no
\* startup failure, because no test case is empty, and its type was counted.
FirstFailuresInv ==
    /\ FirstFailuresCounted
    /\ \A i \in DOMAIN pool : pool[i].names # {}
    /\ pc \in LoopPhase \ {"check", "generate", "loopEnd"} /\ ~InBootstrap => seed.names # {}
    /\ pc \in {"prepare", "unit", "system", "exercise", "accept"} \cup RecordPhase
       /\ ~InBootstrap
          => testcase.names # {}
    /\ pc \in {"exercise"} \cup RecordPhase /\ ~sys.bootstrap =>
          /\ sys.type # 1
          /\ sys.status \in Failed /\ sys.type = 2 => stats.type2 > 0
          /\ sys.status \in Failed /\ sys.type = 3 => stats.type3 > 0

\* A run's counters: the type of a failing run was counted, and none is taken back.
LEMMA ClassifiedTypes ==
    ASSUME NEW s \in StatsSet, NEW run
    PROVE  /\ Classified(s, run).type2 >= s.type2 /\ Classified(s, run).type3 >= s.type3
           /\ CountedAs(s, run.type).type2 >= s.type2
           /\ CountedAs(s, run.type).type3 >= s.type3
           /\ run.status # "ok" /\ run.type = 2 => Classified(s, run).type2 > 0
           /\ run.status # "ok" /\ run.type = 3 => Classified(s, run).type3 > 0
<1> DEFINE c == CountedAs(s, run.type)
<1>1. /\ c \in StatsSet
      /\ c.type2 = s.type2 + (IF run.type = 2 THEN 1 ELSE 0)
      /\ c.type3 = s.type3 + (IF run.type = 3 THEN 1 ELSE 0)
  <2>1. c \in StatsSet
    BY CountedAsType
  <2> QED BY <2>1 DEF CountedAs, StatsSet
<1>2. s.type2 \in Nat /\ s.type3 \in Nat
  BY DEF StatsSet
<1>3. CASE run.status = "ok"
  BY <1>1, <1>2, <1>3 DEF Classified
<1>4. CASE run.status # "ok"
  <2> HIDE DEF c
  <2>1. Classified(s, run) = [c EXCEPT !.total = FoldedTotal(c)]
    BY <1>4 DEF Classified, c
  <2>2. Classified(s, run).type2 = c.type2 /\ Classified(s, run).type3 = c.type3
    BY <1>1, <2>1 DEF StatsSet
  <2> QED BY <1>1, <1>2, <2>2 DEF c
<1> QED BY <1>3, <1>4

\* A type with a time to its first failure was counted, and type 1 never has one.
LEMMA FirstFailuresRecorded == Spec => []FirstFailuresInv
<1> USE DEF result, tracking, InBootstrap, RecordPhase, LoopPhase, FirstFailuresInv,
        FirstFailuresCounted
<1>1. Init => FirstFailuresInv
  BY DEF Init
<1>2. TypeOK /\ FirstFailuresInv /\ [Next]_vars => FirstFailuresInv'
  <2> SUFFICES ASSUME TypeOK, FirstFailuresInv, [Next]_vars PROVE FirstFailuresInv'
    OBVIOUS
  <2>0. /\ stats \in StatsSet /\ metrics \in MetricsSet
        /\ stats.type2 \in Nat /\ stats.type3 \in Nat
    BY DEF TypeOK, StatsSet
  <2>1. CASE RunBootstrap
    <3>1. stats'.type2 >= stats.type2 /\ stats'.type3 >= stats.type3
      BY <2>1, <2>0, ClassifiedTypes DEF RunBootstrap
    <3>2. stats'.type2 \in Nat /\ stats'.type3 \in Nat
      BY <2>1, <2>0, ClassifiedType DEF RunBootstrap, StatsSet
    <3>3. sys'.bootstrap /\ pc' = "exercise" /\ UNCHANGED <<pool, metrics>>
      BY <2>1 DEF RunBootstrap, RunRecord
    <3> QED BY <2>0, <3>1, <3>2, <3>3
  <2>2. CASE FinishBootstrap
    <3>1. metrics'.failureTypes = metrics.failureTypes
      BY <2>2, <2>0 DEF FinishBootstrap, MetricsSet
    <3> QED BY <2>2, <3>1 DEF FinishBootstrap
  <2>3. CASE SkipBootstrap \/ LeaveLoop \/ StartLoop
    BY <2>3 DEF SkipBootstrap, LeaveLoop, StartLoop
  <2>4. CASE GenerateFromPool \/ GenerateFresh
    <3>1. stats'.type2 = stats.type2 /\ stats'.type3 = stats.type3
      BY <2>4, <2>0 DEF GenerateFromPool, GenerateFresh, StatsSet
    <3>2. seed'.names # {}
      <4>1. CASE GenerateFromPool
        BY <4>1 DEF GenerateFromPool, TypeOK
      <4>2. CASE GenerateFresh
        BY <4>2 DEF GenerateFresh
      <4> QED BY <2>4, <4>1, <4>2
    <3> QED BY <2>4, <3>1, <3>2 DEF GenerateFromPool, GenerateFresh
  <2>5. CASE Mutate
    BY <2>5 DEF Mutate
  <2>6. CASE PrepareTestcase
    <3>1. testcase'.names = testcase.names \cup Prepared
      BY <2>6 DEF PrepareTestcase, TypeOK, TestcaseSet
    <3> QED BY <2>6, <3>1 DEF PrepareTestcase
  <2>7. CASE SkipUnitTest
    BY <2>7 DEF SkipUnitTest
  <2>8. CASE RunUnitTest
    BY <2>8 DEF RunUnitTest
  <2>9. CASE RunSystem
    <3> DEFINE counted == [stats EXCEPT !.sysTests = @ + 1]
    <3>1. counted \in StatsSet /\ counted.type2 = stats.type2 /\ counted.type3 = stats.type3
      <4>1. stats.sysTests + 1 \in Nat
        BY <2>0 DEF StatsSet
      <4> QED BY <2>0, <4>1, StatsUpdate DEF StatsSet
    <3>2. PICK outcome \in Outcomes, report \in Reports :
             /\ sys' = RunRecord(outcome, report, FALSE)
             /\ IF Raises(outcome, testcase.names)
                THEN stats' = CountedAs(counted, outcome.type) /\ Unwind("finally")
                ELSE /\ stats' = Classified(counted, outcome)
                     /\ pc' = "exercise"
                     /\ UNCHANGED <<seed, testcase, ut>>
      BY <2>9 DEF RunSystem
    <3>3. pc = "system" /\ UNCHANGED <<pool, metrics>>
      BY <2>9 DEF RunSystem
    <3> HIDE DEF counted
    <3>4. CASE Raises(outcome, testcase.names)
      <4>1. /\ stats'.type2 >= stats.type2 /\ stats'.type3 >= stats.type3
            /\ stats'.type2 \in Nat /\ stats'.type3 \in Nat
        BY <3>1, <3>2, <3>4, ClassifiedTypes, CountedAsType DEF StatsSet
      <4> QED BY <2>0, <3>2, <3>3, <3>4, <4>1 DEF Unwind
    <3>5. CASE ~Raises(outcome, testcase.names)
      <4>1. /\ stats'.type2 >= stats.type2 /\ stats'.type3 >= stats.type3
            /\ stats'.type2 \in Nat /\ stats'.type3 \in Nat
        BY <3>1, <3>2, <3>5, ClassifiedTypes, ClassifiedType DEF StatsSet
      <4>2. sys'.type = outcome.type /\ sys'.status = outcome.status
        BY <3>2 DEF RunRecord
      <4>6. pc' = "exercise" /\ seed' = seed /\ testcase' = testcase /\ ~sys'.bootstrap
        BY <3>2, <3>5 DEF RunRecord
      <4>3. outcome.type # 1
        BY <3>3, <3>5 DEF Raises
      <4>4. outcome.status # "ok" /\ outcome.type = 2 => stats'.type2 > 0
        BY <3>1, <3>2, <3>5, ClassifiedTypes
      <4>5. outcome.status # "ok" /\ outcome.type = 3 => stats'.type3 > 0
        BY <3>1, <3>2, <3>5, ClassifiedTypes
      <4> QED BY <2>0, <3>3, <4>1, <4>2, <4>3, <4>4, <4>5, <4>6 DEF Failed
    <3> QED BY <3>4, <3>5
  <2>10. CASE Record
    BY <2>0, <2>10, RecordLeaves
  <2>11. CASE Verdict
    <3>1. PICK more \in {0, 1} : stats' = [stats EXCEPT !.type2 = stats.type2 + more]
      BY <2>11 DEF Verdict
    <3>2. stats'.type2 >= stats.type2 /\ stats'.type2 \in Nat /\ stats'.type3 = stats.type3
      BY <3>1, <2>0 DEF StatsSet
    <3>3. metrics'.failureTypes
             = metrics.failureTypes \cup (IF sys.status \in Failed THEN {sys.type} ELSE {})
      BY <2>11, <2>0 DEF Verdict, MetricsSet
    <3>4. /\ pc = "discover" /\ ~sys.bootstrap /\ pc' = "accept"
          /\ UNCHANGED <<pool, seed, testcase>>
      BY <2>11 DEF Verdict, AllLogged
    <3> QED BY <2>0, <3>2, <3>3, <3>4
  <2>12. CASE AddSeedToPool
    <3> DEFINE new == [names |-> testcase.names, exercised |-> testcase.exercised]
    <3>1. pool \in Seq(SeedSet) /\ pool' = Append(pool, new) /\ new \in SeedSet
      BY <2>12 DEF AddSeedToPool, TypeOK, TestcaseSet, SeedSet
    <3>2. new.names # {}
      BY <2>12 DEF AddSeedToPool
    <3> HIDE DEF new
    <3>3. \A i \in DOMAIN pool' : pool'[i] = new \/ (i \in DOMAIN pool /\ pool'[i] = pool[i])
      BY <3>1, AppendProperties
    <3> QED BY <2>12, <3>2, <3>3 DEF AddSeedToPool
  <2>13. CASE CountQueued \/ CountAcceptedSeed \/ CountIteration \/ EndLoop
    <3>1. stats'.type2 = stats.type2 /\ stats'.type3 = stats.type3
      BY <2>13, <2>0 DEF CountQueued, CountAcceptedSeed, CountIteration, EndLoop, StatsSet
    <3> QED BY <2>13, <3>1 DEF CountQueued, CountAcceptedSeed, CountIteration, EndLoop
  <2>14. CASE DropTestcase
    BY <2>14 DEF DropTestcase
  <2>15. CASE RecordSnapshot \/ Finalize
    <3>1. metrics'.failureTypes = metrics.failureTypes
      BY <2>15, <2>0 DEF RecordSnapshot, Finalize, MetricsSet
    <3> QED BY <2>15, <3>1 DEF RecordSnapshot, Finalize
  <2>16. CASE MavenLeftOver \/ Interrupt
    BY <2>16 DEF MavenLeftOver, Interrupt, Unwind
  <2>17. CASE UNCHANGED vars
    BY <2>17 DEF vars
  <2> QED
    BY <2>1, <2>2, <2>3, <2>4, <2>5, <2>6, <2>7, <2>8, <2>9, <2>10, <2>11, <2>12, <2>13,
       <2>14, <2>15, <2>16, <2>17
    DEF Next, MainStep, Bootstrap, Generate, Validate, Conclude
<1>3. QED BY <1>1, <1>2, Typing, PTL DEF Spec

\* SystemTester's counters, the total and the log of first failures, which three places
\* update for one failing run, agree at every statement.
THEOREM FailuresAgreed == Spec => []FailuresAgree
<1>1. FirstFailuresInv => FirstFailuresCounted
  BY DEF FirstFailuresInv
<1> QED BY <1>1, FailuresAccounted, FirstFailuresRecorded, PTL DEF FailuresAgree

-----------------------------------------------------------------------------
(* The event log of discoveries.                                           *)

\* One record and its log: what is new is known to the record but not yet logged,
\* everything else known is logged once.
Pending(events, t, new) ==
    \A n \in Names :
        /\ events[n] = (IF n \in t.global /\ n \notin new THEN 1 ELSE 0)
        /\ n \in new => n \in t.global

\* The strengthening of DiscoveredOnce: the two logs lack exactly what is still pending,
\* and only updateExerciseState leaves anything pending.
DiscoveryInv ==
    /\ Pending(metrics.discovered, exercise, sys.newExercised)
    /\ Pending(metrics.useDiscovered, useBacked, sys.newUsed)
    /\ pc \notin Over \cup RecordPhase => sys.newExercised = {}
    /\ pc \notin Over \cup {"acceptUse", "discover"} => sys.newUsed = {}
    /\ pc = "bootstrap" \/ (pc = "exercise" /\ sys.bootstrap) => exercise.global = {}

\* A run turns a log with nothing pending into one whose new names are pending.
LEMMA RecordPending ==
    ASSUME NEW events, NEW t \in TrackingOf(Names), Pending(events, t, {}),
           NEW names \in SUBSET Names
    PROVE  Pending(events, RecordGlobal(t, names), Unrecorded(names, t))
<1>1. RecordGlobal(t, names).global = t.global \cup names
  BY DEF RecordGlobal, TrackingOf
<1> QED BY <1>1 DEF Pending, Unrecorded

\* One event takes its name off the pending ones.
LEMMA EventPending ==
    ASSUME NEW events \in [Names -> Nat], NEW t, NEW new, NEW n \in Names, n \in new,
           Pending(events, t, new)
    PROVE  /\ events[n] = 0
           /\ Pending([events EXCEPT ![n] = @ + 1], t, new \ {n})
<1>1. events[n] = 0 /\ n \in t.global
  BY DEF Pending
<1> SUFFICES ASSUME NEW m \in Names
             PROVE  /\ [events EXCEPT ![n] = @ + 1][m]
                          = (IF m \in t.global /\ m \notin new \ {n} THEN 1 ELSE 0)
                    /\ m \in new \ {n} => m \in t.global
  BY <1>1 DEF Pending
<1>2. /\ events[m] = (IF m \in t.global /\ m \notin new THEN 1 ELSE 0)
      /\ m \in new => m \in t.global
  BY DEF Pending
<1>3. [events EXCEPT ![n] = @ + 1][m] = IF m = n THEN 1 ELSE events[m]
  BY <1>1
<1> QED BY <1>1, <1>2, <1>3

\* The log lacks what is pending at every step of a campaign.
LEMMA DiscoveryInductive == Spec => []DiscoveryInv
<1> USE DEF result, tracking, RecordPhase, Over, Terminal, DiscoveryInv
<1>1. Init => DiscoveryInv
  BY DEF Init, NoRun, EmptyTracking, Pending
<1>2. TypeOK /\ DiscoveryInv /\ [Next]_vars => DiscoveryInv'
  <2> SUFFICES ASSUME TypeOK, DiscoveryInv, [Next]_vars PROVE DiscoveryInv'
    OBVIOUS
  <2>0. /\ metrics \in MetricsSet /\ sys \in RunSet
        /\ exercise \in TrackingOf(Names) /\ useBacked \in TrackingOf(Names)
        /\ metrics.discovered \in [Names -> Nat] /\ metrics.useDiscovered \in [Names -> Nat]
        /\ sys.exercised \in SUBSET Names /\ sys.used \in SUBSET Names
        /\ sys.newExercised \in SUBSET Names /\ sys.newUsed \in SUBSET Names
        /\ IsAccepted(sys) \in BOOLEAN
    BY DEF TypeOK, MetricsSet, RunSet, IsAccepted
  <2>1. ASSUME metrics'.discovered = metrics.discovered,
               exercise'.global = exercise.global, sys'.newExercised = sys.newExercised
        PROVE  Pending(metrics'.discovered, exercise', sys'.newExercised)
    BY <2>1 DEF Pending
  <2>2. ASSUME metrics'.useDiscovered = metrics.useDiscovered,
               useBacked'.global = useBacked.global, sys'.newUsed = sys.newUsed
        PROVE  Pending(metrics'.useDiscovered, useBacked', sys'.newUsed)
    BY <2>2 DEF Pending
  <2>3. CASE RecordExercised
    <3>1. /\ pc = "exercise" /\ pc' = "acceptExercise" /\ metrics' = metrics
          /\ exercise' = RecordGlobal(exercise, sys.exercised) /\ useBacked' = useBacked
          /\ sys'.newUsed = sys.newUsed
      BY <2>0, <2>3 DEF RecordExercised, RunSet
    <3>2. sys'.newExercised = Unrecorded(sys.exercised, exercise)
      BY <2>0, <2>3 DEF RecordExercised, RunSet, Unrecorded
    <3>3. Pending(metrics'.discovered, exercise', sys'.newExercised)
      BY <2>0, <3>1, <3>2, RecordPending
    <3> QED BY <2>2, <3>1, <3>3
  <2>4. CASE AcceptExercised
    <3>1. /\ pc = "acceptExercise" /\ pc' = "use" /\ UNCHANGED <<metrics, sys, useBacked>>
          /\ exercise' = RecordAccepted(exercise, sys.exercised, IsAccepted(sys))
      BY <2>4 DEF AcceptExercised
    <3>2. exercise'.global = exercise.global
      BY <2>0, <3>1 DEF RecordAccepted, TrackingOf
    <3>3. Pending(metrics'.discovered, exercise', sys'.newExercised)
      BY <2>1, <3>1, <3>2
    <3>4. Pending(metrics'.useDiscovered, useBacked', sys'.newUsed)
      BY <2>2, <3>1
    <3> QED BY <3>1, <3>3, <3>4
  <2>5. CASE RecordUsed
    <3>1. /\ pc = "use" /\ pc' = "acceptUse" /\ metrics' = metrics
          /\ useBacked' = RecordGlobal(useBacked, sys.used) /\ exercise' = exercise
          /\ sys'.newExercised = sys.newExercised
          /\ sys'.newUsed = Unrecorded(sys.used, useBacked)
      BY <2>0, <2>5 DEF RecordUsed, RunSet
    <3>2. Pending(metrics'.useDiscovered, useBacked', sys'.newUsed)
      BY <2>0, <3>1, RecordPending
    <3> QED BY <2>1, <3>1, <3>2
  <2>6. CASE AcceptUsed
    <3>1. /\ pc = "acceptUse" /\ pc' = "discover" /\ UNCHANGED <<metrics, sys, exercise>>
          /\ useBacked' = RecordAccepted(useBacked, sys.used, IsAccepted(sys))
      BY <2>6 DEF AcceptUsed
    <3>2. useBacked'.global = useBacked.global
      BY <2>0, <3>1 DEF RecordAccepted, TrackingOf
    <3>3. Pending(metrics'.discovered, exercise', sys'.newExercised)
      BY <2>1, <3>1
    <3>4. Pending(metrics'.useDiscovered, useBacked', sys'.newUsed)
      BY <2>2, <3>1, <3>2
    <3> QED BY <3>1, <3>3, <3>4
  <2>7. CASE LogExercised
    <3>1. PICK n \in sys.newExercised :
             /\ metrics' = [metrics EXCEPT !.discovered[n] = @ + 1]
             /\ sys' = [sys EXCEPT !.newExercised = @ \ {n}]
      BY <2>7 DEF LogExercised
    <3>2. /\ metrics'.discovered = [metrics.discovered EXCEPT ![n] = @ + 1]
          /\ metrics'.useDiscovered = metrics.useDiscovered
          /\ sys'.newExercised = sys.newExercised \ {n} /\ sys'.newUsed = sys.newUsed
      BY <2>0, <3>1 DEF MetricsSet, RunSet
    <3>3. pc = "discover" /\ UNCHANGED <<pc, exercise, useBacked>>
      BY <2>7 DEF LogExercised
    <3>4. Pending(metrics'.discovered, exercise', sys'.newExercised)
      BY <2>0, <3>2, <3>3, EventPending
    <3> QED BY <2>2, <3>2, <3>3, <3>4
  <2>8. CASE LogUsed
    <3>1. PICK n \in sys.newUsed :
             /\ metrics' = [metrics EXCEPT !.useDiscovered[n] = @ + 1]
             /\ sys' = [sys EXCEPT !.newUsed = @ \ {n}]
      BY <2>8 DEF LogUsed
    <3>2. /\ metrics'.useDiscovered = [metrics.useDiscovered EXCEPT ![n] = @ + 1]
          /\ metrics'.discovered = metrics.discovered
          /\ sys'.newUsed = sys.newUsed \ {n} /\ sys'.newExercised = sys.newExercised
      BY <2>0, <3>1 DEF MetricsSet, RunSet
    <3>3. pc = "discover" /\ UNCHANGED <<pc, exercise, useBacked>>
      BY <2>8 DEF LogUsed
    <3>4. Pending(metrics'.useDiscovered, useBacked', sys'.newUsed)
      BY <2>0, <3>2, <3>3, EventPending
    <3> QED BY <2>1, <3>2, <3>3, <3>4
  <2>9. CASE RunBootstrap \/ RunSystem \/ Mutate \/ CountIteration \/ FinishBootstrap
    <3>1. /\ UNCHANGED <<exercise, useBacked>>
          /\ sys.newExercised = {} /\ sys.newUsed = {}
          /\ sys'.newExercised = {} /\ sys'.newUsed = {}
      BY <2>9 DEF RunBootstrap, RunSystem, Mutate, CountIteration, FinishBootstrap, AllLogged,
         RunRecord, NoRun
    <3>2. metrics'.discovered = metrics.discovered /\ metrics'.useDiscovered = metrics.useDiscovered
      BY <2>0, <2>9 DEF RunBootstrap, RunSystem, Mutate, CountIteration, FinishBootstrap,
         MetricsSet
    <3>3. pc' # "bootstrap" /\ (pc' = "exercise" /\ sys'.bootstrap => pc = "bootstrap")
      BY <2>9 DEF RunBootstrap, RunSystem, Unwind, Mutate, CountIteration, FinishBootstrap,
         RunRecord
    <3> QED BY <2>1, <2>2, <3>1, <3>2, <3>3
  <2>10. CASE \/ SkipBootstrap \/ LeaveLoop \/ StartLoop \/ GenerateFromPool \/ GenerateFresh
              \/ PrepareTestcase \/ SkipUnitTest \/ RunUnitTest \/ AddSeedToPool
              \/ CountQueued \/ CountAcceptedSeed \/ DropTestcase \/ EndLoop \/ MavenLeftOver
    <3>1. /\ pc \notin Over \cup RecordPhase
          /\ pc' \notin {"bootstrap", "exercise"}
          /\ UNCHANGED <<exercise, useBacked, metrics, sys>>
      BY <2>10 DEF SkipBootstrap, LeaveLoop, StartLoop, GenerateFromPool, GenerateFresh,
         PrepareTestcase, SkipUnitTest, RunUnitTest, AddSeedToPool, CountQueued,
         CountAcceptedSeed, DropTestcase, EndLoop, MavenLeftOver
    <3> QED BY <2>1, <2>2, <3>1
  <2>11. CASE Verdict \/ RecordSnapshot \/ Finalize \/ Interrupt
    <3>1. /\ pc' \notin {"bootstrap", "exercise"}
          /\ UNCHANGED <<exercise, useBacked, sys>>
          /\ metrics'.discovered = metrics.discovered
          /\ metrics'.useDiscovered = metrics.useDiscovered
      BY <2>0, <2>11 DEF Verdict, RecordSnapshot, Finalize, Interrupt, Unwind, MetricsSet
    <3>2. pc' \in Over \/ (sys.newExercised = {} /\ sys.newUsed = {})
      BY <2>11 DEF Verdict, AllLogged, RecordSnapshot, Finalize, Interrupt, Unwind
    <3> QED BY <2>1, <2>2, <3>1, <3>2
  <2>12. CASE UNCHANGED vars
    BY <2>1, <2>2, <2>12 DEF vars
  <2> QED
    BY <2>3, <2>4, <2>5, <2>6, <2>7, <2>8, <2>9, <2>10, <2>11, <2>12
    DEF Next, MainStep, Bootstrap, Record, Generate, Validate, Conclude
<1>3. QED BY <1>1, <1>2, Typing, PTL DEF Spec

\* The event log names every exercised parameter once.
THEOREM DiscoveriesLogged == Spec => []DiscoveredOnce
<1>1. DiscoveryInv => DiscoveredOnce
  <2> SUFFICES ASSUME DiscoveryInv PROVE DiscoveredOnce
    OBVIOUS
  <2>1. /\ LoggedOnce(metrics.discovered, exercise, sys.newExercised)
        /\ LoggedOnce(metrics.useDiscovered, useBacked, sys.newUsed)
    BY DEF DiscoveryInv, Pending, LoggedOnce
  <2>2. pc \in LoopPhase \ RecordPhase => sys.newExercised = {} /\ sys.newUsed = {}
    BY DEF DiscoveryInv, LoopPhase, RecordPhase, Over, Terminal
  <2> QED BY <2>1, <2>2 DEF DiscoveryInv, DiscoveredOnce, Pending
<1> QED BY <1>1, DiscoveryInductive, PTL

-----------------------------------------------------------------------------
(* The promise.                                                            *)

\* A test case has a system run exactly from there on, and what it exercised, and the
\* bootstrap run is over with the bootstrap.
RunInv ==
    /\ pc \in {"prepare", "unit", "system"} => sys.status = "none"
    /\ pc \in {"exercise"} \cup RecordPhase => sys.status # "none"
    /\ pc \in {"accept"} \cup RecordPhase /\ sys.status # "none"
          => testcase.exercised = sys.exercised
    /\ pc \notin {"exercise"} \cup RecordPhase \cup Over => ~sys.bootstrap

LEMMA RunPlaced == Spec => []RunInv
<1> USE DEF result, tracking, RecordPhase, Over, Terminal, RunInv
<1>1. Init => RunInv
  BY DEF Init, NoRun
<1>2. TypeOK /\ RunInv /\ [Next]_vars => RunInv'
  <2> SUFFICES ASSUME TypeOK, RunInv, [Next]_vars PROVE RunInv'
    OBVIOUS
  <2>0. \A outcome \in Outcomes, report \in Reports, isBootstrap \in BOOLEAN :
          RunRecord(outcome, report, isBootstrap).status # "none"
    BY InputAssumption DEF RunRecord, OutcomeSet, Failed
  <2>1. CASE Bootstrap
    <3>1. CASE SkipBootstrap
      BY <3>1 DEF SkipBootstrap
    <3>2. CASE RunBootstrap
      BY <2>0, <3>2 DEF RunBootstrap
    <3>3. CASE FinishBootstrap
      BY <3>3 DEF FinishBootstrap, NoRun
    <3> QED BY <2>1, <3>1, <3>2, <3>3 DEF Bootstrap
  <2>2. CASE LeaveLoop \/ StartLoop \/ GenerateFromPool \/ GenerateFresh
    BY <2>2 DEF LeaveLoop, StartLoop, GenerateFromPool, GenerateFresh
  <2>3. CASE Mutate
    BY <2>3 DEF Mutate, NoRun
  <2>4. CASE PrepareTestcase \/ SkipUnitTest
    BY <2>4 DEF PrepareTestcase, SkipUnitTest
  <2>5. CASE RunUnitTest
    BY <2>5 DEF RunUnitTest
  <2>6. CASE RunSystem
    <3>1. sys'.status # "none"
      BY <2>0, <2>6 DEF RunSystem
    <3> QED BY <2>6, <3>1, RunSystemLeaves
  <2>7. CASE Record
    <3>1. /\ pc \in {"exercise"} \cup RecordPhase /\ pc' \in RecordPhase
          /\ sys'.status = sys.status /\ sys'.exercised = sys.exercised
      BY <2>7, RecordLeaves
    <3>2. testcase'.exercised = sys.exercised \/ (testcase' = testcase /\ pc \in RecordPhase)
      BY <2>7 DEF Record, RecordExercised, AcceptExercised, RecordUsed, AcceptUsed,
         LogExercised, LogUsed, TypeOK, TestcaseSet
    <3> QED BY <3>1, <3>2
  <2>8. CASE Verdict
    BY <2>8 DEF Verdict, AllLogged
  <2>9. CASE Conclude
    BY <2>9 DEF Conclude, AddSeedToPool, CountQueued, CountAcceptedSeed, DropTestcase,
                CountIteration, RecordSnapshot, EndLoop, Finalize, NoRun
  <2>10. CASE MavenLeftOver \/ Interrupt
    BY <2>10 DEF MavenLeftOver, Interrupt, Unwind
  <2>11. CASE UNCHANGED vars
    BY <2>11 DEF vars
  <2> QED
    BY <2>1, <2>2, <2>3, <2>4, <2>5, <2>6, <2>7, <2>8, <2>9, <2>10, <2>11
    DEF Next, MainStep, Generate, Validate
<1>3. QED BY <1>1, <1>2, Typing, PTL DEF Spec

Logged == {n \in Names : metrics.discovered[n] > 0}
Seeds == [i \in DOMAIN pool |-> pool[i].exercised]

\* With nothing pending the log has what is known.
LEMMA LoggedKnown ==
    ASSUME TypeOK, DiscoveryInv, sys.newExercised = {}
    PROVE  Logged = exercise.global
<1>1. exercise.global \subseteq Names
  BY DEF TypeOK, TrackingOf
<1> QED BY <1>1 DEF DiscoveryInv, Pending, Logged

\* A step that leaves the events alone leaves the log.
LEMMA LogKept ==
    ASSUME metrics'.discovered = metrics.discovered
    PROVE  Logged' = Logged
BY DEF Logged

\* A seed more in the pool is one more at the end of the list.
LEMMA SeedsGrow ==
    ASSUME NEW P \in Seq(SeedSet), NEW s \in SeedSet
    PROVE  [i \in DOMAIN Append(P, s) |-> Append(P, s)[i].exercised]
             = Append([i \in DOMAIN P |-> P[i].exercised], s.exercised)
<1> DEFINE Q == Append(P, s)
           R == [i \in DOMAIN P |-> P[i].exercised]
           T == Append(R, s.exercised)
           N == Len(P)
<1>1. /\ N \in Nat /\ DOMAIN P = 1..N /\ \A i \in 1..N : P[i] \in SeedSet
      /\ Q \in Seq(SeedSet) /\ Len(Q) = N + 1
      /\ \A i \in 1..N : Q[i] = P[i]
      /\ Q[N + 1] = s
  BY AppendProperties
<1>2. DOMAIN Q = 1..(N + 1)
  BY <1>1
<1>3. \A i \in 1..N : R[i] \in SUBSET Names
  BY <1>1 DEF SeedSet
<1>4. R \in Seq(SUBSET Names) /\ Len(R) = N
  <2>1. R \in [1..N -> SUBSET Names]
    BY <1>1, <1>3
  <2> HIDE DEF R, N
  <2> QED BY <1>1, <2>1, LenProperties
<1>5. s.exercised \in SUBSET Names
  BY DEF SeedSet
<1>6. /\ T \in Seq(SUBSET Names) /\ Len(T) = N + 1
      /\ \A i \in 1..N : T[i] = R[i]
      /\ T[N + 1] = s.exercised
  <2> HIDE DEF R, N
  <2> QED BY <1>4, <1>5, AppendProperties
<1>7. T = [i \in 1..(N + 1) |-> T[i]]
  <2> HIDE DEF T, N
  <2>1. DOMAIN T = 1..(N + 1)
    BY <1>6
  <2> QED BY <1>6, <2>1
<1>8. \A i \in 1..(N + 1) : T[i] = Q[i].exercised
  <2>1. \A i \in 1..N : R[i] = P[i].exercised
    BY <1>1
  <2> HIDE DEF T, N, R, Q
  <2>2. \A i \in 1..(N + 1) : i \in 1..N \/ i = N + 1
    BY <1>1
  <2> QED BY <1>1, <1>6, <2>1, <2>2
<1> HIDE DEF T, N, Q
<1> QED BY <1>2, <1>7, <1>8 DEF T, Q, R

Stopped == stop \/ pc \in Over
Left == TestcasePerSeed - afterStop

\* What the promise says does not change with where between two test cases, or in which
\* part of one, a campaign is.
LEMMA Unmoved ==
    ASSUME PromisePhase' = PromisePhase, PromiseRun' = PromiseRun, Stopped' = Stopped,
           Left' = Left, Logged' = Logged, UNCHANGED <<exercise, pool>>
    PROVE  UNCHANGED Promise!vars
<1>1. UNCHANGED <<exercise.global, exercise.accepted, Seeds>>
  BY DEF Seeds
<1> QED BY <1>1 DEF Promise!vars, Stopped, Left, Logged, Seeds

\* A campaign keeps its promise: what the fuzzer, the validator, the two books and the
\* recorder of the metrics write, each in its own place and at its own time, are steps of
\* one abstract campaign, for any settings, reports, numbers of loops and interrupts.
THEOREM CampaignKeepsPromise == Spec => ImplementsPromise
<1> USE DEF result, tracking
<1>1. Init => Promise!Init
  <2> SUFFICES ASSUME Init PROVE Promise!Init
    OBVIOUS
  <2>1. PromisePhase = "start" /\ ~Stopped /\ Left = TestcasePerSeed /\ Logged = {}
    BY BoundAssumption DEF Init, PromisePhase, Stopped, Over, Terminal, Left, Logged
  <2>2. PromiseRun = Promise!NoRun
    BY <2>1 DEF PromiseRun, Promise!NoRun
  <2>3. exercise.global = {} /\ exercise.accepted = {} /\ Seeds = <<>>
    BY DEF Init, EmptyTracking, Seeds
  <2> QED BY <2>1, <2>2, <2>3 DEF Promise!Init, Stopped, Left, Logged, Seeds
<1>2. TypeOK /\ TypeOK' /\ RunInv /\ DiscoveryInv /\ StopBound' /\ [Next]_vars
      => [Promise!Next]_(Promise!vars)
  <2> SUFFICES ASSUME TypeOK, TypeOK', RunInv, DiscoveryInv, StopBound', [Next]_vars
               PROVE  Promise!Next \/ UNCHANGED Promise!vars
    OBVIOUS
  <2>0. /\ metrics \in MetricsSet /\ sys \in RunSet /\ exercise \in TrackingOf(Names)
        /\ pool \in Seq(SeedSet) /\ testcase \in TestcaseSet
        /\ afterStop \in Nat /\ stop \in BOOLEAN /\ stop' \in BOOLEAN
        /\ sys.bootstrap \in BOOLEAN
    BY DEF TypeOK, RunSet
  <2>1. CASE SkipBootstrap \/ RunBootstrap
    <3>1. /\ pc = "bootstrap" /\ pc' \in {"exercise", "check"}
          /\ UNCHANGED <<stop, afterStop, exercise, metrics, pool>>
          /\ pc' = "exercise" => sys'.bootstrap
      BY <2>1 DEF SkipBootstrap, RunBootstrap, RunRecord
    <3>2. /\ PromisePhase = "start" /\ PromisePhase' \in {"start", "between"}
          /\ Stopped = stop /\ Stopped' = stop /\ PromiseRun' = PromiseRun
      BY <2>0, <3>1 DEF PromisePhase, PromiseRun, Over, Terminal, Stopped
    <3>3. Left' = Left /\ Logged' = Logged /\ Seeds' = Seeds
      BY <3>1 DEF Left, Logged, Seeds
    <3>4. CASE PromisePhase' = "start"
      BY <3>1, <3>2, <3>3, <3>4, Unmoved
    <3>5. CASE PromisePhase' = "between"
      BY <3>1, <3>2, <3>3, <3>5
      DEF Promise!Next, Promise!SkipBoot, Promise!books, Stopped, Left, Logged, Seeds
    <3> QED BY <3>2, <3>4, <3>5
  <2>2. CASE FinishBootstrap
    <3>1. /\ pc = "discover" /\ pc' = "check" /\ sys.newExercised = {} /\ sys.bootstrap
          /\ UNCHANGED <<stop, afterStop, exercise, pool>>
          /\ metrics'.discovered = metrics.discovered
      BY <2>0, <2>2 DEF FinishBootstrap, AllLogged, MetricsSet
    <3>2. /\ PromisePhase = "accepted" /\ PromisePhase' = "between"
          /\ Stopped = stop /\ Stopped' = stop /\ PromiseRun' = Promise!NoRun
      BY <2>0, <3>1 DEF PromisePhase, PromiseRun, Promise!NoRun, Over, Terminal, Stopped
    <3>3. Left' = Left /\ Logged' = Logged /\ Seeds' = Seeds
      BY <3>1 DEF Left, Logged, Seeds
    <3>4. Logged = exercise.global
      BY <3>1, LoggedKnown
    <3> QED BY <3>1, <3>2, <3>3, <3>4
        DEF Promise!Next, Promise!Conclude, Promise!books, Stopped, Left, Logged, Seeds
  <2>3. CASE RecordExercised
    <3>1. /\ pc = "exercise" /\ pc' = "acceptExercise"
          /\ UNCHANGED <<stop, afterStop, metrics, pool>>
          /\ exercise' = RecordGlobal(exercise, sys.exercised)
      BY <2>3 DEF RecordExercised
    <3>2. /\ sys'.status = sys.status /\ sys'.exercised = sys.exercised
          /\ sys'.bootstrap = sys.bootstrap
      BY <2>3, RecordLeaves DEF Record
    <3>3. /\ PromisePhase = (IF sys.bootstrap THEN "start" ELSE "begun")
          /\ PromisePhase' = "tested" /\ Stopped = stop /\ Stopped' = stop
      BY <2>0, <3>1 DEF PromisePhase, Over, Terminal, Stopped
    <3>4. PromiseRun'.names = sys.exercised /\ PromiseRun'.boot = sys.bootstrap
      BY <3>2, <3>3 DEF PromiseRun
    <3>5. /\ exercise'.global = exercise.global \cup sys.exercised
          /\ exercise'.accepted = exercise.accepted
      BY <2>0, <3>1 DEF RecordGlobal, TrackingOf
    <3>6. Left' = Left /\ Logged' = Logged /\ Seeds' = Seeds
      BY <3>1 DEF Left, Logged, Seeds
    <3>7. /\ PromisePhase \in {"start", "begun"}
          /\ PromiseRun'.boot = (PromisePhase = "start")
      BY <2>0, <3>3, <3>4
    <3> QED BY <3>3, <3>4, <3>5, <3>6, <3>7
        DEF Promise!Next, Promise!Test, Stopped, Left, Logged, Seeds
  <2>4. CASE AcceptExercised
    <3>1. /\ pc = "acceptExercise" /\ pc' = "use"
          /\ UNCHANGED <<stop, afterStop, metrics, pool, sys>>
          /\ exercise' = RecordAccepted(exercise, sys.exercised, IsAccepted(sys))
      BY <2>4 DEF AcceptExercised
    <3>2. /\ PromisePhase = "tested" /\ PromisePhase' = "accepted"
          /\ Stopped = stop /\ Stopped' = stop
      BY <2>0, <3>1 DEF PromisePhase, Over, Terminal, Stopped
    <3>3. /\ PromiseRun' = PromiseRun /\ PromiseRun.names = sys.exercised
          /\ PromiseRun.ok = (sys.status = "ok") /\ PromiseRun.boot = sys.bootstrap
      BY <3>1, <3>2 DEF PromiseRun
    <3>4. /\ exercise'.global = exercise.global
          /\ exercise'.accepted = exercise.accepted
                \cup (IF PromiseRun.ok \/ PromiseRun.boot THEN PromiseRun.names ELSE {})
      BY <2>0, <3>1, <3>3 DEF RecordAccepted, AcceptedAddition, IsAccepted, TrackingOf
    <3>5. Left' = Left /\ Logged' = Logged /\ Seeds' = Seeds
      BY <3>1 DEF Left, Logged, Seeds
    <3> QED BY <3>2, <3>3, <3>4, <3>5
        DEF Promise!Next, Promise!Accept, Stopped, Left, Logged, Seeds
  <2>5. CASE RecordUsed \/ AcceptUsed \/ LogUsed
    <3>1. /\ {pc, pc'} \subseteq {"use", "acceptUse", "discover"}
          /\ UNCHANGED <<stop, afterStop, exercise, pool>>
          /\ metrics'.discovered = metrics.discovered
      BY <2>0, <2>5 DEF RecordUsed, AcceptUsed, LogUsed, MetricsSet
    <3>2. UNCHANGED <<sys.status, sys.exercised, sys.bootstrap>>
      BY <2>5, RecordLeaves DEF Record
    <3>3. /\ PromisePhase = "accepted" /\ PromisePhase' = "accepted" /\ Stopped' = Stopped
          /\ PromiseRun' = PromiseRun
      BY <3>1, <3>2 DEF PromisePhase, Over, Terminal, Stopped, PromiseRun
    <3>4. Left' = Left /\ Logged' = Logged
      BY <3>1 DEF Left, Logged
    <3> QED BY <3>1, <3>3, <3>4, Unmoved
  <2>6. CASE LogExercised
    <3>1. PICK n \in sys.newExercised :
             metrics' = [metrics EXCEPT !.discovered[n] = @ + 1]
      BY <2>6 DEF LogExercised
    <3>2. /\ pc = "discover" /\ pc' = "discover" /\ UNCHANGED <<stop, afterStop, exercise, pool>>
      BY <2>6 DEF LogExercised
    <3>3. UNCHANGED <<sys.status, sys.exercised, sys.bootstrap>>
      BY <2>6, RecordLeaves DEF Record
    <3>4. /\ PromisePhase = "accepted" /\ PromisePhase' = "accepted"
          /\ Stopped = stop /\ Stopped' = stop /\ PromiseRun' = PromiseRun
      BY <2>0, <3>2, <3>3 DEF PromisePhase, Over, Terminal, Stopped, PromiseRun
    <3>5. /\ n \in Names /\ metrics.discovered \in [Names -> Nat]
          /\ metrics'.discovered = [metrics.discovered EXCEPT ![n] = @ + 1]
      BY <2>0, <3>1 DEF RunSet, MetricsSet
    <3>6. metrics.discovered[n] = 0 /\ n \in exercise.global
      BY <3>5 DEF DiscoveryInv, Pending
    <3>7. n \in exercise.global \ Logged /\ Logged' = Logged \cup {n}
      <4>1. n \notin Logged
        BY <3>6 DEF Logged
      <4>2. \A m \in Names : metrics'.discovered[m] > 0 <=> metrics.discovered[m] > 0 \/ m = n
        BY <3>5, <3>6
      <4> QED BY <3>5, <3>6, <4>1, <4>2 DEF Logged
    <3>8. Left' = Left /\ Seeds' = Seeds
      BY <3>2 DEF Left, Seeds
    <3> QED BY <3>2, <3>4, <3>7, <3>8
        DEF Promise!Next, Promise!Log, Stopped, Left, Logged, Seeds
  <2>7. CASE LeaveLoop
    <3>1. /\ pc = "check" /\ pc' = "finally"
          /\ UNCHANGED <<stop, afterStop, exercise, metrics, pool>>
      BY <2>7 DEF LeaveLoop
    <3>2. PromisePhase # "over" /\ PromisePhase' = "over" /\ Stopped'
      BY <3>1 DEF PromisePhase, Over, Terminal, Stopped
    <3>3. Left' = Left /\ Logged' = Logged /\ Seeds' = Seeds
      BY <3>1 DEF Left, Logged, Seeds
    <3> QED BY <3>1, <3>2, <3>3 DEF Promise!Next, Promise!End, Promise!NoRun, Promise!books,
                                    PromiseRun, Stopped, Left, Logged, Seeds
  <2>8. CASE StartLoop
    <3>1. /\ pc = "check" /\ pc' = "generate" /\ stop' \in {stop, TRUE}
          /\ UNCHANGED <<afterStop, exercise, metrics, pool>>
      BY <2>0, <2>8 DEF StartLoop
    <3>2. /\ PromisePhase = "between" /\ PromisePhase' = "between"
          /\ Stopped = stop /\ Stopped' = stop'
      BY <2>0, <3>1 DEF PromisePhase, Over, Terminal, Stopped
    <3>3. Left' = Left /\ Logged' = Logged /\ Seeds' = Seeds /\ PromiseRun' = PromiseRun
      BY <3>1, <3>2 DEF Left, Logged, Seeds, PromiseRun
    <3>4. CASE stop' = stop
      BY <3>1, <3>2, <3>3, <3>4, Unmoved
    <3>5. CASE stop' = TRUE
      BY <3>1, <3>2, <3>3, <3>5
      DEF Promise!Next, Promise!Stop, Promise!books, Stopped, Left, Logged, Seeds
    <3> QED BY <3>1, <3>4, <3>5
  <2>9. CASE Mutate
    <3>1. /\ pc = "mutate" /\ pc' = "prepare"
          /\ UNCHANGED <<stop, exercise, metrics, pool>>
          /\ afterStop' = afterStop + (IF stop THEN 1 ELSE 0)
      BY <2>9 DEF Mutate
    <3>2. /\ PromisePhase = "between" /\ PromisePhase' = "begun"
          /\ Stopped = stop /\ Stopped' = stop
      BY <2>0, <3>1 DEF PromisePhase, Over, Terminal, Stopped
    <3>3. Logged' = Logged /\ Seeds' = Seeds /\ PromiseRun' = PromiseRun
      BY <3>1, <3>2 DEF Logged, Seeds, PromiseRun
    <3>4. Left' = Left - (IF stop THEN 1 ELSE 0) /\ (stop => Left > 0)
      BY <2>0, <3>1, BoundAssumption DEF Left, StopBound
    <3> QED BY <3>1, <3>2, <3>3, <3>4
        DEF Promise!Next, Promise!Begin, Promise!books, Stopped, Left, Logged, Seeds
  <2>10. CASE RunUnitTest
    <3>1. /\ pc = "unit" /\ pc' \in {"accept", "system"}
          /\ UNCHANGED <<stop, afterStop, exercise, metrics, pool, sys>>
      BY <2>10 DEF RunUnitTest
    <3>2. sys.status = "none"
      BY <3>1 DEF RunInv
    <3>3. /\ PromisePhase = "begun"
          /\ PromisePhase' = (IF pc' = "accept" THEN "between" ELSE "begun")
          /\ Stopped = stop /\ Stopped' = stop
      BY <2>0, <3>1, <3>2 DEF PromisePhase, Over, Terminal, Stopped
    <3>4. Left' = Left /\ Logged' = Logged /\ Seeds' = Seeds /\ PromiseRun' = PromiseRun
      BY <3>1, <3>3 DEF Left, Logged, Seeds, PromiseRun
    <3>5. CASE pc' = "accept"
      BY <3>1, <3>3, <3>4, <3>5
      DEF Promise!Next, Promise!Reject, Promise!books, Stopped, Left, Logged, Seeds
    <3>6. CASE pc' = "system"
      BY <3>1, <3>3, <3>4, <3>6, Unmoved
    <3> QED BY <3>1, <3>5, <3>6
  <2>11. CASE MavenLeftOver \/ RunSystem
    <3>1. /\ pc = "system" /\ pc' \in {"killed", "finally", "exercise"}
          /\ UNCHANGED <<stop, afterStop, exercise, metrics, pool>>
          /\ pc' = "exercise" => ~sys'.bootstrap
      BY <2>11 DEF MavenLeftOver, RunSystem, Unwind, RunRecord
    <3>2. /\ PromisePhase = "begun"
          /\ PromisePhase' = (IF pc' = "exercise" THEN "begun" ELSE "over")
          /\ Stopped = stop /\ Stopped' = (stop \/ pc' # "exercise")
      BY <2>0, <3>1 DEF PromisePhase, Over, Terminal, Stopped
    <3>3. Left' = Left /\ Logged' = Logged /\ Seeds' = Seeds /\ PromiseRun' = PromiseRun
      BY <3>1, <3>2 DEF Left, Logged, Seeds, PromiseRun
    <3>4. CASE pc' = "exercise"
      BY <2>0, <3>1, <3>2, <3>3, <3>4, Unmoved
    <3>5. CASE pc' # "exercise"
      BY <2>0, <3>1, <3>2, <3>3, <3>5
      DEF Promise!Next, Promise!End, Promise!NoRun, Promise!books, PromiseRun, Stopped, Left,
          Logged, Seeds
    <3> QED BY <3>4, <3>5
  <2>12. CASE Verdict
    <3>1. /\ pc = "discover" /\ pc' = "accept"
          /\ UNCHANGED <<stop, afterStop, exercise, pool, sys>>
          /\ metrics'.discovered = metrics.discovered
      BY <2>0, <2>12 DEF Verdict, AllLogged, MetricsSet
    <3>2. sys.status # "none"
      BY <3>1 DEF RunInv, RecordPhase
    <3>3. /\ PromisePhase = "accepted" /\ PromisePhase' = "accepted" /\ Stopped' = Stopped
          /\ PromiseRun' = PromiseRun
      BY <3>1, <3>2 DEF PromisePhase, Over, Terminal, Stopped, PromiseRun
    <3>4. Left' = Left /\ Logged' = Logged
      BY <3>1 DEF Left, Logged
    <3> QED BY <3>1, <3>3, <3>4, Unmoved
  <2>13. CASE AddSeedToPool
    <3> DEFINE new == [names |-> testcase.names, exercised |-> testcase.exercised]
    <3>1. /\ pc = "accept" /\ pc' = "queue" /\ sys.status = "ok"
          /\ UNCHANGED <<stop, afterStop, exercise, metrics>>
          /\ pool' = Append(pool, new)
      BY <2>13 DEF AddSeedToPool, Interesting
    <3>2. new \in SeedSet /\ new.exercised = sys.exercised
      BY <2>0, <3>1 DEF RunInv, TestcaseSet, SeedSet
    <3>a. ~sys.bootstrap /\ Logged = exercise.global
      BY <3>1, LoggedKnown DEF RunInv, DiscoveryInv, RecordPhase, Over, Terminal
    <3> HIDE DEF new
    <3>3. Seeds' = Append(Seeds, sys.exercised)
      BY <2>0, <3>1, <3>2, SeedsGrow DEF Seeds
    <3>4. /\ PromisePhase = "accepted" /\ PromisePhase' = "between"
          /\ Stopped = stop /\ Stopped' = stop
      BY <2>0, <3>1 DEF PromisePhase, Over, Terminal, Stopped
    <3>5. /\ PromiseRun.ok /\ ~PromiseRun.boot /\ PromiseRun.names = sys.exercised
          /\ PromiseRun' = Promise!NoRun
      BY <3>1, <3>a, <3>4 DEF PromiseRun, Promise!NoRun
    <3>6. Left' = Left /\ Logged' = Logged
      BY <3>1 DEF Left, Logged
    <3> QED BY <3>1, <3>a, <3>3, <3>4, <3>5, <3>6
        DEF Promise!Next, Promise!Conclude, Promise!books, Stopped, Left, Logged, Seeds
  <2>14. CASE DropTestcase
    <3>1. /\ pc = "accept" /\ pc' = "iterate"
          /\ UNCHANGED <<stop, afterStop, exercise, metrics, pool, sys>>
      BY <2>14 DEF DropTestcase
    <3>2. /\ PromisePhase = (IF sys.status = "none" THEN "between" ELSE "accepted")
          /\ PromisePhase' = "between" /\ Stopped = stop /\ Stopped' = stop
      BY <2>0, <3>1 DEF PromisePhase, Over, Terminal, Stopped
    <3>3. Left' = Left /\ Logged' = Logged /\ Seeds' = Seeds /\ PromiseRun' = Promise!NoRun
      BY <3>1, <3>2 DEF Left, Logged, Seeds, PromiseRun, Promise!NoRun
    <3>4. CASE sys.status = "none"
      <4>1. PromiseRun' = PromiseRun
        BY <3>2, <3>4 DEF PromiseRun
      <4> QED BY <3>1, <3>2, <3>3, <3>4, <4>1, Unmoved
    <3>5. CASE sys.status # "none"
      <4>1. Logged = exercise.global
        BY <3>1, LoggedKnown DEF DiscoveryInv, RecordPhase, Over, Terminal
      <4> QED BY <3>1, <3>2, <3>3, <3>5, <4>1
      DEF Promise!Next, Promise!Conclude, Promise!books, Stopped, Left, Logged, Seeds
    <3> QED BY <3>4, <3>5
  <2>15. CASE Interrupt \/ Finalize
    <3>1. /\ pc \notin Terminal /\ pc' \in Over /\ stop'
          /\ UNCHANGED <<afterStop, exercise, pool>>
          /\ metrics'.discovered = metrics.discovered
      BY <2>0, <2>15 DEF Interrupt, Finalize, Unwind, Over, Terminal, MetricsSet
    <3>2. PromisePhase' = "over" /\ Stopped' /\ PromiseRun' = Promise!NoRun
      BY <3>1 DEF PromisePhase, PromiseRun, Promise!NoRun, Over, Terminal, Stopped
    <3>3. Left' = Left /\ Logged' = Logged /\ Seeds' = Seeds
      BY <3>1 DEF Left, Logged, Seeds
    <3>4. CASE pc = "finally"
      <4>1. PromisePhase = "over" /\ Stopped /\ PromiseRun = Promise!NoRun
        BY <3>4 DEF PromisePhase, PromiseRun, Promise!NoRun, Over, Terminal, Stopped
      <4>2. Stopped' = Stopped
        BY <3>2, <4>1 DEF Stopped
      <4> QED BY <3>1, <3>2, <3>3, <4>1, <4>2, Unmoved
    <3>5. CASE pc # "finally"
      <4>1. PromisePhase # "over"
        BY <3>1, <3>5 DEF PromisePhase, Over
      <4> QED BY <3>1, <3>2, <3>3, <4>1
          DEF Promise!Next, Promise!End, Promise!books, Stopped, Left, Logged, Seeds
    <3> QED BY <3>4, <3>5
  <2>16. CASE \/ GenerateFromPool \/ GenerateFresh \/ CountQueued \/ CountAcceptedSeed
              \/ CountIteration \/ RecordSnapshot \/ EndLoop
    <3>1. /\ {pc, pc'} \subseteq {"check", "generate", "mutate", "queue", "count", "iterate",
                                 "snapshot", "loopEnd"}
          /\ UNCHANGED <<stop, afterStop, exercise, pool>>
          /\ metrics'.discovered = metrics.discovered
      BY <2>0, <2>16 DEF GenerateFromPool, GenerateFresh, CountQueued, CountAcceptedSeed,
                         CountIteration, RecordSnapshot, EndLoop, MetricsSet
    <3>2. /\ PromisePhase = "between" /\ PromisePhase' = "between" /\ Stopped' = Stopped
          /\ PromiseRun' = PromiseRun
      BY <3>1 DEF PromisePhase, Over, Terminal, Stopped, PromiseRun
    <3>3. Left' = Left /\ Logged' = Logged
      BY <3>1 DEF Left, Logged
    <3> QED BY <3>1, <3>2, <3>3, Unmoved
  <2>17. CASE PrepareTestcase \/ SkipUnitTest
    <3>1. /\ {pc, pc'} \subseteq {"prepare", "unit", "system"}
          /\ UNCHANGED <<stop, afterStop, exercise, pool, metrics>>
      BY <2>17 DEF PrepareTestcase, SkipUnitTest
    <3>2. /\ PromisePhase = "begun" /\ PromisePhase' = "begun" /\ Stopped' = Stopped
          /\ PromiseRun' = PromiseRun
      BY <3>1 DEF PromisePhase, Over, Terminal, Stopped, PromiseRun
    <3>3. Left' = Left /\ Logged' = Logged
      BY <3>1 DEF Left, Logged
    <3> QED BY <3>1, <3>2, <3>3, Unmoved
  <2>18. CASE UNCHANGED vars
    <3>1. UNCHANGED <<PromisePhase, PromiseRun, Stopped, Left, Logged>>
      BY <2>18 DEF vars, PromisePhase, PromiseRun, Stopped, Left, Logged
    <3> QED BY <2>18, <3>1, Unmoved DEF vars
  <2> QED
    BY <2>1, <2>2, <2>3, <2>4, <2>5, <2>6, <2>7, <2>8, <2>9, <2>10, <2>11, <2>12, <2>13,
       <2>14, <2>15, <2>16, <2>17, <2>18
    DEF Next, MainStep, Bootstrap, Record, Generate, Validate, Conclude
<1> QED BY <1>1, <1>2, Typing, RunPlaced, DiscoveryInductive, StopHonoured, PTL
        DEF Spec, ImplementsPromise, Promise!Spec

-----------------------------------------------------------------------------
(* Every campaign is short.                                                *)

\* The statements that are still to come in a loop and in a test case.
InBoot == IF sys.bootstrap THEN 12 ELSE 0

Rank ==
    CASE pc = "bootstrap" -> 24 [] pc = "check" -> 18 [] pc = "generate" -> 17
      [] pc = "snapshot" -> 16 [] pc = "mutate" -> 15 [] pc = "prepare" -> 14
      [] pc = "unit" -> 13 [] pc = "system" -> 12
      [] pc = "exercise" -> InBoot + 11 [] pc = "acceptExercise" -> InBoot + 10
      [] pc = "use" -> InBoot + 9 [] pc = "acceptUse" -> InBoot + 8
      [] pc = "discover" -> InBoot + 7
      [] pc = "accept" -> 6 [] pc = "queue" -> 5 [] pc = "count" -> 4 [] pc = "iterate" -> 3
      [] pc = "loopEnd" -> 2 [] pc = "finally" -> 1
      [] OTHER -> 0

PerTestcase == 14
PerLoop == PerTestcase * TestcasePerSeed + 17

StepsLeft ==
    PerLoop * (MaxLoops - stats.loops) + PerTestcase * (TestcasePerSeed - iter) + Rank

\* A statement less to come, and no event.
Nearer ==
    /\ StepsLeft' < StepsLeft
    /\ UNCHANGED <<metrics.discovered, metrics.useDiscovered>>

\* One event more, of a name that had none.
LogsOneName ==
    /\ StepsLeft' = StepsLeft
    /\ \E n \in Names :
          \/ /\ metrics.discovered[n] = 0
             /\ metrics' = [metrics EXCEPT !.discovered[n] = 1]
          \/ /\ metrics.useDiscovered[n] = 0
             /\ metrics' = [metrics EXCEPT !.useDiscovered[n] = 1]

\* A run of the test script is no loop.
LEMMA ClassifiedLoops ==
    ASSUME NEW s \in StatsSet, NEW run
    PROVE  CountedAs(s, run.type).loops = s.loops /\ Classified(s, run).loops = s.loops
<1> DEFINE c == CountedAs(s, run.type)
<1>1. c.loops = s.loops
  BY DEF CountedAs, StatsSet
<1>2. c \in StatsSet
  BY CountedAsType
<1> HIDE DEF c
<1> QED BY <1>1, <1>2 DEF Classified, StatsSet, c

LEMMA RunKeepsLoops ==
    ASSUME stats \in StatsSet, RunSystem
    PROVE  stats'.loops = stats.loops
<1> DEFINE counted == [stats EXCEPT !.sysTests = @ + 1]
<1>1. counted \in StatsSet /\ counted.loops = stats.loops
  <2>1. stats.sysTests + 1 \in Nat
    BY DEF StatsSet
  <2> QED BY <2>1, StatsUpdate DEF StatsSet
<1>2. \E outcome \in Outcomes : \/ stats' = CountedAs(counted, outcome.type)
                               \/ stats' = Classified(counted, outcome)
  BY DEF RunSystem
<1> HIDE DEF counted
<1> QED BY <1>1, <1>2, ClassifiedLoops

\* Only the end of a loop counts one.
LEMMA LoopsKept ==
    ASSUME TypeOK, Next
    PROVE  stats'.loops = stats.loops \/ (EndLoop /\ stats'.loops = stats.loops + 1)
<1> USE DEF result, tracking
<1>0. stats \in StatsSet /\ stats.loops \in Nat
  BY DEF TypeOK, StatsSet
<1>1. CASE \/ SkipBootstrap \/ FinishBootstrap \/ LeaveLoop \/ StartLoop \/ Mutate
           \/ PrepareTestcase \/ SkipUnitTest \/ RunUnitTest \/ AddSeedToPool \/ DropTestcase
           \/ RecordSnapshot \/ Finalize \/ MavenLeftOver \/ Interrupt
  BY <1>1 DEF SkipBootstrap, FinishBootstrap, LeaveLoop, StartLoop, Mutate, PrepareTestcase,
     SkipUnitTest, RunUnitTest, AddSeedToPool, DropTestcase, RecordSnapshot, Finalize,
     MavenLeftOver, Interrupt
<1>r. CASE Record
  BY <1>r, RecordLeaves
<1>2. CASE RunBootstrap
  BY <1>0, <1>2, ClassifiedLoops DEF RunBootstrap
<1>3. CASE RunSystem
  BY <1>0, <1>3, RunKeepsLoops
<1>4. CASE Verdict
  <2>1. PICK more \in {0, 1} : stats' = [stats EXCEPT !.type2 = stats.type2 + more]
    BY <1>4 DEF Verdict
  <2> QED BY <1>0, <2>1 DEF StatsSet
<1>5. CASE GenerateFromPool \/ GenerateFresh \/ CountQueued \/ CountAcceptedSeed
           \/ CountIteration
  BY <1>0, <1>5 DEF GenerateFromPool, GenerateFresh, CountQueued, CountAcceptedSeed,
                    CountIteration, StatsSet
<1>6. CASE EndLoop
  BY <1>0, <1>6 DEF EndLoop, StatsSet
<1> QED
  BY <1>1, <1>2, <1>3, <1>4, <1>5, <1>6, <1>r
  DEF Next, MainStep, Bootstrap, Generate, Validate, Conclude

\* Every step leads to a statement with fewer to come and leaves the loop where it is, but
\* for the ends of a loop and of a test case and the steps that log.
LEMMA RankFalls ==
    ASSUME TypeOK, Next, ~EndLoop, ~CountIteration, ~LogExercised, ~LogUsed
    PROVE  iter' = iter /\ Rank' < Rank
<1> USE DEF result, tracking, Rank, InBoot
<1>1. CASE Bootstrap
  BY <1>1 DEF Bootstrap, SkipBootstrap, RunBootstrap, FinishBootstrap, AllLogged, RunRecord
<1>2. CASE LeaveLoop \/ StartLoop \/ GenerateFromPool \/ GenerateFresh
  BY <1>2 DEF LeaveLoop, StartLoop, GenerateFromPool, GenerateFresh
<1>3. CASE Mutate \/ PrepareTestcase \/ SkipUnitTest
  BY <1>3 DEF Mutate, PrepareTestcase, SkipUnitTest
<1>4. CASE RunUnitTest
  BY <1>4 DEF RunUnitTest
<1>5. CASE RunSystem
  BY <1>5 DEF RunSystem, Unwind, RunRecord
<1>6. CASE Record
  <2>1. iter' = iter /\ sys'.bootstrap = sys.bootstrap
    BY <1>6, RecordLeaves
  <2>2. \/ pc = "exercise" /\ pc' = "acceptExercise"
        \/ pc = "acceptExercise" /\ pc' = "use"
        \/ pc = "use" /\ pc' = "acceptUse"
        \/ pc = "acceptUse" /\ pc' = "discover"
    BY <1>6 DEF Record, RecordExercised, AcceptExercised, RecordUsed, AcceptUsed
  <2> QED BY <2>1, <2>2
<1>11. CASE Verdict
  BY <1>11 DEF Verdict, AllLogged
<1>7. CASE AddSeedToPool \/ CountQueued \/ CountAcceptedSeed \/ DropTestcase
  BY <1>7 DEF AddSeedToPool, CountQueued, CountAcceptedSeed, DropTestcase
<1>8. CASE RecordSnapshot \/ Finalize
  BY <1>8 DEF RecordSnapshot, Finalize
<1>9. CASE MavenLeftOver
  BY <1>9 DEF MavenLeftOver
<1>10. CASE Interrupt
  <2>1. pc \in PCs \ Terminal /\ iter' = iter
    BY <1>10 DEF Interrupt, TypeOK
  <2>2. pc' = (IF pc = "finally" THEN "aborted" ELSE "finally")
    BY <1>10 DEF Interrupt, Unwind
  <2> QED BY <2>1, <2>2 DEF PCs, Terminal, LoopPhase, RecordPhase
<1> QED
  BY <1>1, <1>2, <1>3, <1>4, <1>5, <1>6, <1>7, <1>8, <1>9, <1>10, <1>11
  DEF Next, MainStep, Generate, Validate, Conclude

\* A step that logs names one parameter for the first time, and nothing else is nearer.
LEMMA LogOnly ==
    ASSUME TypeOK, DiscoveryInv, LogExercised \/ LogUsed
    PROVE  LogsOneName
<1>0. /\ metrics \in MetricsSet /\ sys \in RunSet
      /\ metrics.discovered \in [Names -> Nat] /\ metrics.useDiscovered \in [Names -> Nat]
      /\ sys.newExercised \in SUBSET Names /\ sys.newUsed \in SUBSET Names
  BY DEF TypeOK, MetricsSet, RunSet
<1>1. CASE LogExercised
  <2>1. PICK n \in sys.newExercised : metrics' = [metrics EXCEPT !.discovered[n] = @ + 1]
    BY <1>1 DEF LogExercised
  <2>2. n \in Names /\ metrics.discovered[n] = 0
    BY <1>0 DEF DiscoveryInv, Pending
  <2>3. metrics' = [metrics EXCEPT !.discovered[n] = 1]
    BY <2>1, <2>2
  <2>4. /\ pc = "discover" /\ pc' = "discover" /\ UNCHANGED <<stats, iter>>
        /\ sys'.bootstrap = sys.bootstrap
    BY <1>0, <1>1 DEF LogExercised, RunSet
  <2> QED BY <2>2, <2>3, <2>4 DEF LogsOneName, StepsLeft, Rank, InBoot
<1>2. CASE LogUsed
  <2>1. PICK n \in sys.newUsed : metrics' = [metrics EXCEPT !.useDiscovered[n] = @ + 1]
    BY <1>2 DEF LogUsed
  <2>2. n \in Names /\ metrics.useDiscovered[n] = 0
    BY <1>0 DEF DiscoveryInv, Pending
  <2>3. metrics' = [metrics EXCEPT !.useDiscovered[n] = 1]
    BY <2>1, <2>2
  <2>4. /\ pc = "discover" /\ pc' = "discover" /\ UNCHANGED <<stats, iter>>
        /\ sys'.bootstrap = sys.bootstrap
    BY <1>0, <1>2 DEF LogUsed, RunSet
  <2> QED BY <2>2, <2>3, <2>4 DEF LogsOneName, StepsLeft, Rank, InBoot
<1> QED BY <1>1, <1>2

\* No other step touches the events.
LEMMA EventsKept ==
    ASSUME TypeOK, Next, ~LogExercised, ~LogUsed
    PROVE  UNCHANGED <<metrics.discovered, metrics.useDiscovered>>
<1>0. metrics \in MetricsSet
  BY DEF TypeOK
<1> USE DEF result, tracking
<1>1. CASE \/ FinishBootstrap \/ Verdict \/ RecordSnapshot \/ Finalize
  BY <1>0, <1>1 DEF FinishBootstrap, Verdict, RecordSnapshot, Finalize, MetricsSet
<1>2. CASE ~(FinishBootstrap \/ Verdict \/ RecordSnapshot \/ Finalize)
  <2>1. metrics' = metrics
    BY <1>2 DEF Next, MainStep, Bootstrap, SkipBootstrap, RunBootstrap, Record,
       RecordExercised, AcceptExercised, RecordUsed, AcceptUsed, Generate, LeaveLoop,
       StartLoop, GenerateFromPool, GenerateFresh, Mutate, Validate, PrepareTestcase,
       SkipUnitTest, RunUnitTest, RunSystem, Conclude, AddSeedToPool, CountQueued,
       CountAcceptedSeed, DropTestcase, CountIteration, EndLoop, MavenLeftOver, Interrupt
  <2> QED BY <2>1
<1> QED BY <1>1, <1>2

\* In a loop there is one to count.
LoopsInv ==
    /\ stats.loops <= MaxLoops
    /\ pc \in {"bootstrap"} \cup (LoopPhase \ {"check"}) => stats.loops < MaxLoops

\* No loop starts beyond the last one.
LEMMA LoopsBounded == Spec => []LoopsInv
<1> USE DEF result, tracking, LoopPhase, RecordPhase, LoopsInv
<1>1. Init => LoopsInv
  BY BoundAssumption DEF Init
<1>2. TypeOK /\ LoopsInv /\ [Next]_vars => LoopsInv'
  <2> SUFFICES ASSUME TypeOK, LoopsInv, [Next]_vars PROVE LoopsInv'
    OBVIOUS
  <2>0. stats.loops \in Nat /\ MaxLoops \in Nat /\ pc \in PCs
    BY BoundAssumption DEF TypeOK, StatsSet
  <2>1. CASE UNCHANGED vars
    BY <2>1 DEF vars
  <2>2. CASE EndLoop
    <3>1. stats'.loops = stats.loops + 1
      BY <2>2 DEF EndLoop, TypeOK, StatsSet
    <3>2. stats.loops < MaxLoops /\ pc' = "check"
      BY <2>2 DEF EndLoop
    <3> QED BY <2>0, <3>1, <3>2
  <2>3. CASE StartLoop
    BY <2>3 DEF StartLoop
  <2>4. CASE Next /\ ~EndLoop /\ ~StartLoop
    <3>1. stats'.loops = stats.loops
      BY <2>4, LoopsKept
    <3>2. CASE SkipBootstrap \/ FinishBootstrap \/ LeaveLoop \/ MavenLeftOver \/ Interrupt
               \/ Finalize
      <4>1. pc' \notin {"bootstrap"} \cup (LoopPhase \ {"check"})
        BY <3>2 DEF SkipBootstrap, FinishBootstrap, LeaveLoop, MavenLeftOver, Interrupt,
           Unwind, Finalize
      <4> QED BY <3>1, <4>1
    <3>3. CASE ~(SkipBootstrap \/ FinishBootstrap \/ LeaveLoop \/ MavenLeftOver \/ Interrupt
                 \/ Finalize)
      <4>1. RunBootstrap \/ Record \/ GenerateFromPool \/ GenerateFresh \/ Mutate \/ Validate
            \/ AddSeedToPool \/ CountQueued \/ CountAcceptedSeed \/ DropTestcase
            \/ CountIteration \/ RecordSnapshot
        BY <2>4, <3>3 DEF Next, MainStep, Bootstrap, Generate, Conclude
      <4>2. pc \in {"bootstrap"} \cup (LoopPhase \ {"check"})
        BY <4>1, RecordLeaves DEF RunBootstrap, GenerateFromPool, GenerateFresh, Mutate,
           Validate, PrepareTestcase, SkipUnitTest, RunUnitTest, RunSystem, Verdict, AllLogged,
           AddSeedToPool, CountQueued, CountAcceptedSeed, DropTestcase, CountIteration,
           RecordSnapshot
      <4> QED BY <3>1, <4>2
    <3> QED BY <3>2, <3>3
  <2> QED
    BY <2>1, <2>2, <2>3, <2>4
<1>3. QED BY <1>1, <1>2, Typing, PTL DEF Spec

LEMMA Numbers ==
    ASSUME TypeOK, IterInv, LoopsInv
    PROVE  /\ MaxLoops \in Nat /\ TestcasePerSeed \in Nat /\ PerLoop \in Nat
           /\ stats.loops \in Nat /\ stats.loops <= MaxLoops
           /\ iter \in Nat /\ iter <= TestcasePerSeed
           /\ Rank \in 0..24
           /\ MaxLoops - stats.loops \in Nat
           /\ PerLoop * (MaxLoops - stats.loops) \in Nat
<1>1. MaxLoops \in Nat /\ TestcasePerSeed \in Nat /\ PerLoop \in Nat
  BY BoundAssumption DEF PerLoop, PerTestcase
<1>2. stats.loops \in Nat /\ iter \in Nat
  BY DEF TypeOK, StatsSet
<1>3. Rank \in 0..24
  BY DEF Rank, InBoot
<1>4. \A m, n \in Nat : m * n \in Nat
  OBVIOUS
<1>5. MaxLoops - stats.loops \in Nat
  BY <1>1, <1>2 DEF LoopsInv
<1> QED BY <1>1, <1>2, <1>3, <1>4, <1>5 DEF IterInv, LoopsInv

\* A campaign of MaxLoops loops takes at most
\*     MaxLoops * (14 * TestcasePerSeed + 17) + 14 * TestcasePerSeed + 24
\* statements and one event for each parameter and log, whatever the test scripts report,
\* however often a seed comes from the pool and whenever it is stopped: a step either
\* leaves fewer statements to come, and never less than none, and touches no event, or
\* names one parameter in a log that did not name it.
THEOREM CampaignsShort ==
    Spec => [](StepsLeft \in Nat) /\ [][Nearer \/ LogsOneName]_vars
<1>1. TypeOK /\ IterInv /\ LoopsInv => StepsLeft \in Nat
  BY Numbers DEF StepsLeft, PerTestcase
<1>2. /\ TypeOK /\ IterInv /\ LoopsInv /\ DiscoveryInv /\ TypeOK' /\ IterInv' /\ LoopsInv'
      /\ [Next]_vars
      => [Nearer \/ LogsOneName]_vars
  <2> SUFFICES ASSUME TypeOK, IterInv, LoopsInv, DiscoveryInv, TypeOK', IterInv', LoopsInv',
                      Next, ~LogExercised, ~LogUsed
               PROVE  StepsLeft' < StepsLeft
    BY LogOnly, EventsKept DEF Nearer
  <2> DEFINE loops == stats.loops
             far   == PerLoop * (MaxLoops - loops)
  <2>1. /\ MaxLoops \in Nat /\ TestcasePerSeed \in Nat /\ PerLoop \in Nat
        /\ loops \in Nat /\ iter \in Nat /\ Rank \in 0..24 /\ far \in Nat
    BY Numbers
  <2>2. loops' \in Nat /\ iter' \in Nat /\ Rank' \in 0..24 /\ far' \in Nat
    <3>1. loops' \in Nat /\ iter' \in Nat /\ loops' <= MaxLoops
      BY DEF TypeOK, StatsSet, LoopsInv
    <3>2. Rank' \in 0..24
      BY DEF Rank, InBoot
    <3>3. MaxLoops - loops' \in Nat /\ \A m, n \in Nat : m * n \in Nat
      BY <2>1, <3>1
    <3> QED BY <2>1, <3>1, <3>2, <3>3
  <2>3. CASE EndLoop
    <3>1. loops' = loops + 1 /\ iter = TestcasePerSeed /\ iter' = 0
      BY <2>3 DEF EndLoop, IterInv, TypeOK, StatsSet
    <3>2. far' = far - PerLoop
      BY <2>1, <3>1
    <3>3. Rank = 2 /\ Rank' = 18
      BY <2>3 DEF EndLoop, Rank
    <3> HIDE DEF loops, far
    <3> QED BY <2>1, <2>2, <3>1, <3>2, <3>3 DEF StepsLeft, PerLoop, PerTestcase, far, loops
  <2>4. CASE CountIteration
    <3>1. loops' = loops
      <4>1. ~EndLoop
        BY <2>4 DEF CountIteration, EndLoop
      <4> QED BY <4>1, LoopsKept
    <3>2. iter' = iter + 1 /\ Rank = 3 /\ Rank' = 16
      BY <2>4 DEF CountIteration, Rank
    <3>3. far' = far
      BY <3>1
    <3> HIDE DEF loops, far
    <3>4. StepsLeft = far + PerTestcase * (TestcasePerSeed - iter) + Rank
      BY DEF StepsLeft, far, loops
    <3>5. StepsLeft' = far' + PerTestcase * (TestcasePerSeed - iter') + Rank'
      BY DEF StepsLeft, far, loops
    <3> QED BY <2>1, <3>2, <3>3, <3>4, <3>5 DEF PerTestcase
  <2>5. CASE ~EndLoop /\ ~CountIteration
    <3> DEFINE near == PerTestcase * (TestcasePerSeed - iter)
    <3>1. loops' = loops /\ iter' = iter /\ Rank' < Rank
      BY <2>5, LoopsKept, RankFalls
    <3>2. far' = far /\ near' = near
      BY <3>1
    <3>3. near \in Int
      BY <2>1 DEF PerTestcase
    <3>4. StepsLeft = far + near + Rank /\ StepsLeft' = far' + near' + Rank'
      BY DEF StepsLeft
    <3> HIDE DEF loops, far, near
    <3>5. \A f, n, r, s \in Int : r < s => f + n + r < f + n + s
      OBVIOUS
    <3>6. far \in Int /\ Rank \in Int /\ Rank' \in Int
      BY <2>1, <2>2
    <3>7. StepsLeft' = far + near + Rank'
      BY <3>2, <3>4
    <3> QED BY <3>1, <3>3, <3>4, <3>5, <3>6, <3>7
  <2> QED BY <2>3, <2>4, <2>5
<1> QED BY <1>1, <1>2, Typing, Iterating, LoopsBounded, DiscoveryInductive, PTL DEF Spec

-----------------------------------------------------------------------------
(* There is always something to draw.                                      *)

ChoicesPossible ==
    /\ pc = "generate" => {} \notin Candidates(setting.guided, exercise, Mutable, {})
    /\ pc = "mutate" =>
          {} \notin Candidates(setting.guided, exercise, seed.names, seed.exercised)

\* Guided or not, the candidates of something are something.
LEMMA CandidatesThere ==
    ASSUME NEW guided, NEW t, NEW available, available # {}, NEW local
    PROVE  {} \notin Candidates(guided, t, available, local)
BY DEF Candidates, Exploited

\* choose_candidate_names never hands an empty list to the random choice of a seed's or a
\* test case's parameters, whichever of its fallbacks it takes: a seed, fresh or from the
\* pool, has names through any number of mutations and acceptances.
THEOREM ChoicesThere == Spec => []ChoicesPossible
<1>1. FirstFailuresInv => ChoicesPossible
  <2> SUFFICES ASSUME FirstFailuresInv PROVE ChoicesPossible
    OBVIOUS
  <2>1. pc = "mutate" => seed.names # {}
    BY DEF FirstFailuresInv, LoopPhase, RecordPhase, InBootstrap
  <2> QED BY <2>1, CandidatesThere, NamesAssumption DEF ChoicesPossible
<1> QED BY <1>1, FirstFailuresRecorded, PTL
=============================================================================
