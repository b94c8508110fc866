# ECFuzz, modelled in TLA+

ECFuzz fuzzes the configuration of large Java systems: it draws parameters,
mutates their values, filters the test cases with the system's own unit tests
and runs the survivors against a deployed system. This directory holds TLA+
models of its control, TLC runs that check them on small instances, and proofs
by TLAPS of their safety properties for every value of the constants.

## 1. The system

### Parts, state, operations

| part (source) | state it keeps | operations |
|---|---|---|
| campaign loop (`fuzzer.py`) | the queue `stopSoon`, the loop number | `run`, `loop`, `sigintHandler` |
| test validation (`TestValidator.py`) | failure clock, references to all below | `runTest`, `runExerciseBootstrap`, `updateExerciseState`, `finalize_without_system` |
| unit tester (`UnitTester.py`, `run_unit_test_utils.py`, `UnitTestUtils.py`) | injected files, Maven processes, output file and reports, the time of each test | `preKillRun`, `test_conf_file`, `runWithMutilprocess`, `resolve_associated_tests`, `parse_surefire` |
| system tester (`SystemTester.py`) | trace of the last run, exception map | `runTest`, `runSystemTestUtils` |
| resource monitors (`MonitorThread.py`) | three static flags, three threads for each run | `cpuMonitorThread`, `memoryMonitorThread`, `fileSizeMonitorThread`, `isContinue` |
| display board (`ShowStats.py`) | all counters, strategy and flag of the SmartMutator | `run` (a thread), `writeToPlotData` |
| seed generator (`SeedGenerator.py`) | seed pool, index of the sequential choice | `generateSeed`, `addSeedToPool`, `updateConfMutable` |
| exercise guidance (`ExerciseGuidanceState.py`, `ProvenanceTrackingState.py`) | names exercised at all, by accepted runs, by the bootstrap | `record_system_run`, `mark_bootstrap`, `choose_candidate_names` |
| mutators, values (`testcaseGenerator/`, `NewValue.py`, `Constraint.py`) | items shared with seeds and pool | `mutate`, `constraint_method`, `genValue` |
| metrics (`ComparisonMetricsRecorder.py`) | first discoveries and failures, snapshots | `record_*`, `finalize` |
| trace collector (`ParamTraceCollector.py`) | file offsets of a run | `snapshot_file_state`, `collect_updated_text_sources` |
| round runner (`run_validated_fuzz_rounds.py`) | attempt directories, `attempts.tsv`, the manifest | `run_prepare`, one attempt after the other, `update_manifest` |
| trimmers, CEIT, configuration analysis | tables filled once, or none | see `PROJECT.json` |
| Java agent, batch and Azure scripts | processes and files on other machines | see `PROJECT.json` |

The main thread calls everything but the display board and the monitors, which
are threads of the same process. They share `stopSoon`, one queue for each
system run, the static alarm flags and the counters. Maven and the test script
are child processes: the first is watched through a file it writes and its exit
code, the second is waited for. SIGINT runs a handler in the main thread, which
raises `SystemExit` wherever that thread is.

### What is hard

* *Interleaving*: monitors of consecutive runs overlap; Maven runs on between
  any two looks at it.
* *Interruption*: SIGINT between any two statements, and inside a method of
  `stopSoon`, whose lock is not reentrant.
* *Partial failure*: exceptions in the middle of a classification, before the
  `try`, or between the start of the monitors and the end of a run.
* *Several books*: counters, pool, logs and exercise state tell the same story
  and are written at different places.
* *Shared objects*: seeds, pool and test cases hold the same `ConfItem`s, and one
  function writes into them.
* *Left-overs*: Mavens whose shell alone was killed, daemons of an earlier system
  test, reports, log files and injected values of an earlier group or run.
* *Restart*: the round runner is killed between two of its three records and
  launched again.
* *Time*: idle and hard timeouts, the run time, the failure clock that switches
  mutation strategies.

`PROJECT.json` lists every hazard with its line and the properties that cover it.

## 2. Modules

| module | models |
|---|---|
| `ExerciseTracking` | the data of both exercise trackers as operators: recording a run, the bootstrap, the candidates for a seed and a mutation |
| `FuzzCampaign` (EXTENDS `ExerciseTracking`) | one campaign as the main thread sees it: bootstrap, seeds, mutation, gates, system run, verdict, pool, counters, metrics, shutdown |
| `Campaign` | what a campaign promises to those who read its records: an abstract specification |
| `CampaignThreads` | the same campaign as its threads see it: main, display, monitors, `stopSoon` with its lock, SIGINT |
| `UnitRun` | `preKillRun` and the Maven process, down to each look of the reader at file, clock and exit code, then the search for a left-over Maven |
| `UnitGate` | what a test case may expect of its unit tests, whichever way they are run: an abstract specification |
| `UnitTestSelection` | selection, grouping and report parsing as operators |
| `BatchedUnitRun` (EXTENDS `UnitTestSelection`) | `test_conf_file` and `runWithMutilprocess` over several test cases, with the Mavens, their reports and the injected files |
| `TraceSources` | `SystemTester.runTest` and `ParamTraceCollector` on files that several runs write to |
| `SeedMutation` | seeds, pool and test cases as lists of references to shared items: drawing, mutating, preparing, accepting |
| `ValidatedRounds` | the round runner, its three records and its restarts |
| `*_proofs` | the theorems of each |
| `MC*` | instances for TLC |

`FuzzCampaign` and `CampaignThreads` describe the same loop at two grains. The
first keeps the data, and takes the alarm and the unit verdict as choices; the
second keeps the threads, and takes what a loop computes as a choice; `UnitRun`
opens the unit verdict. The interfaces match: `CampaignThreads!JudgeTestcase`
is the point where `FuzzCampaign!Verdict` reads the flags, and a run that ends
in `UnitRun`'s `exited` is `FuzzCampaign!MavenLeftOver`. `SeedMutation` opens
the mutation of `FuzzCampaign`, whose seeds are sets of names; `TraceSources`
opens what `FuzzCampaign` takes as the reported names of a system run.

`UnitRun` and `BatchedUnitRun` are the three ways to run unit tests, and both
implement `UnitGate` (`ImplementsGate`, INSTANCE with a refinement mapping):
`phase` is read off `pc`, `alive` off the Mavens, `injected` off the files,
`failing` off the failures seen, `verdict` off `unitResult.status`. The gate's
own invariant `SystemTestAlone` (no Maven and no injected value during a system
test; a failure seen is a failure of the verdict) then holds of all three.

`FuzzCampaign` implements `Campaign` (`ImplementsPromise`). `known` and `accepted` are
the two sets of `ExerciseGuidanceState`, `logged` the names with a discovery event,
`seeds` the names that the seeds of the pool say they exercised, `run` the system run
whose results are being written; `phase` is read off `pc`, and off `sys` where a
rejected test case and a tested one meet, and `left` off the test cases started after
a stop. In the abstract campaign a run enters the book of known names (`Test`), then that
of accepted ones (`Accept`); the log takes over what is new name by name (`Log`); only
when it has all of it is the run over, and may leave a seed, with its own names
(`Conclude`). `End` may come between any two of these steps and leaves the books, the log
and the seeds as it finds them: half written, if it comes to that. In the code these are
the work of five classes, between any two statements of which a SIGINT may raise.

### State and actions

*FuzzCampaign.* `pc` names the statement group of the main thread. The action
of each group is named for what it does, in the order of the code: `RunBootstrap`,
then the record and the log below, `FinishBootstrap` (`runExerciseBootstrap`);
`LeaveLoop`, `StartLoop`, `GenerateFromPool`, `GenerateFresh`, `Mutate`;
`PrepareTestcase`, `RunUnitTest` or `SkipUnitTest`, `RunSystem`, the record and the log,
`Verdict` (`TestValidator.runTest`); `AddSeedToPool`, `CountQueued`,
`CountAcceptedSeed`, `CountIteration`, `RecordSnapshot`, `EndLoop` (`Fuzzer.loop`);
`Finalize`. The record and the log of a run (`updateExerciseState`, and its like for the
bootstrap) are `RecordExercised` and `AcceptExercised` (the two sets of the first
tracker), `RecordUsed` and `AcceptUsed` (those of the second), `LogExercised` and
`LogUsed` (one event a step; in what order, is left open). `Interrupt` is SIGINT at any of
them. Books that a property compares and a SIGINT can separate are written by two
actions, with one exception: `RunSystem` and `RunBootstrap` count a run, classify its
failure and add up the total, and `Verdict` sets the clock, counts the alarm and notes the
first failure, each in one step. What a SIGINT leaves of these is a total further behind
its parts, or a first failure without a time; `FailuresAgree` states bounds that leave
room for both, and an equation it does not state.

*CampaignThreads.* `pc` again, with `held` for "inside a method of `stopSoon`":
`EnterQueue` takes the lock, and `CheckStop`, `PutTimeLimit`, `PutFinally` or
`PutInHandler` leaves it. `monitor[r][k]` is the thread of run `r` for resource
`k`; `flag[k]` remembers which run raised the alarm, which the code's Boolean
does not, so that properties can ask.

*UnitRun.* Maven's actions (`StartLine`, `EndLine`, `ExitMaven`, `DieMaven`) are
external. The reader's actions are one for each look: `CheckTimeouts`, four
kinds of `readline`, a `poll` for each of its four places, a kill for each of
its three.

*BatchedUnitRun.* Maven's actions (`BeginClass`, `EndClass`, `ExitMaven`) read the
values when a class begins and write its report when it ends. `StartGroup`,
`GroupEnded`, `GroupTimeout`, `ParseGroup`, `FinishGroups` are `test_conf_file`;
`Spawn`, `MavenEnded`, `MavenTimeout`, `ParseClass`, `CleanUp`, `TraceClass` are
`runWithMutilprocess`; `Reject`, `LookForMaven`, `EndSystemTest` what `runTest` does
next. A report and a result remember which test case's Maven wrote them and with
which values, which the files do not, so that properties can ask.

*TraceSources.* `Write`, `Rewrite`, `Touch`, `StartDaemon`, `StopDaemon` are the world;
`StartRun`, `DeleteLogs`, two snapshots, `EndScript`, then `PassOver`, `OpenFile`
(`os.stat`) and `ReadFile` for each file, `Summarize`, `RecordRow`. `Write` appends a
line, which may be blank, and `Touch` gives a file a new time and nothing else: after
either the tail of a log file is blank for `str.strip`, and the file is read in full.

*SeedMutation.* `heap` holds the `ConfItem` objects; `pool`, `seed` and `test` are
lists of references. `FromPool`, `DrawAtRandom`, `DrawInOrder`, `AddRelated` are
`generateSeed`; `Pick`, `RelateAlone`, `RelateBoth`, `EndPick`, `BuildTestcase` a
`mutate`; `Prepare` is `prepareTestcaseForExecution`, item by item; `Judge` adds the
test case to the pool or does not.

*ValidatedRounds.* One action for each write to the disk: `MakeDirectory`,
`CopyArtifacts`, `WriteRow`, and the manifest in two steps, emptied and written.
`Crash` between any two of them; `Launch` starts again.

### Abstractions

* A value is not represented: a seed or a test case is a set of names. Whether
  a mutation changed a value is a choice. Duplicates of a name in a seed are
  one element.
* Sequential and random choice of names are one choice of a subset; the ratios
  (`force_system_testing_ratio`, exploration, pool selection) are choices.
* What a system run reports, its status and type, is drawn from `Reports` and
  `Outcomes`. The workload signature is one constant, as it is within a campaign.
* The failure clock of the SmartMutator only counts whether it is over the two
  thresholds (`OneH`, `TwoH`, saturating at `MaxIdle`).
* In `FuzzCampaign` the unit result and the alarm are choices. In
  `CampaignThreads` `os._exit` and the endless mode are left out: the first ends
  all threads at once, the second differs by the `for` statement.
* The thread that only starts the three monitors (`threadMonitor`) is merged
  with the start of the run. SIGINT after the main thread has ended, while the
  interpreter waits for threads, is left out.
* `killpg` of a group is one step in `BatchedUnitRun`: no process of the group
  outlives it. `popen.kill` of a shell is not: its Maven may die or go on alone.
* In `TraceSources` lines are of one length and named, plain or blank, no two writes to a
  file have the same time, and log files are not renamed (by rotation, for example).
* The set of names of the bootstrap run, which only the run summary shows, is left out of
  `ExerciseTracking`.
* A dependency of a kind that `NewValue.py` does not know raises (line 76); no table of
  the repository has one, and `SeedMutation` has none. An object that no list holds is
  dropped from `heap` when a loop ends.
* `SeedMutation` has one class of generators for each way a value can come about
  (a switch, an integer, a float, a choice, none); guidance leaves any names in.
* One round runner at a time writes into an output directory. A manifest that was
  cut off ends every launch until somebody removes it, as `json.loads` raises.
* The second read of the flags (`TestValidator.py:363`) feeds the database only.
* A line of `UnitRun` is the summary of one class; any other line is
  `ReadOtherLine`. A torn one is recognised in neither half; that its rest could be the
  whole summary, were it torn before the first word, is left out (it would be counted
  then, and once, as a line that is not torn). Exit codes are 0 or not; `killed by -9`
  (shell code 137) has the verdict of any other nonzero code.

## 3. Runs

| run | instance | shows |
|---|---|---|
| `campaign` | `MCFuzzCampaign.cfg`: two names, two loops of one test case, three settings of gates and mutators, five outcomes | `TypeOK`, `PoolRequiresForcedGate`, `DiscoveredOnce`, `FailuresAgree`, `ImplementsPromise` |
| `campaign_long` | `MCFuzzCampaignLong.cfg`: two loops of two test cases, fewer reports and outcomes | `PoolSeedsExercised`, `CountersAgree`, `StopBound`, `Termination` |
| `campaign_exit` | `MCCampaignExit.cfg`: one kind, two loops, two SIGINTs | `OrphansBelongToShutdown`, `ExitsOrHangs` |
| `campaign_alarms` | `MCCampaignAlarms.cfg`: one sustained kind and one that is not, two loops | `TypeOK`, `AlarmEarned`, `ForeignAlarmOverlaps`, `LastLoopUnwatched` |
| `unit_run` | `MCUnitRun.cfg`: three classes, idle timeout 2, hard timeout 8 | `TypeOK`, `PassMeansPassed`, `CountedOnce`, `LeftOverIsDying`, `Returns`, `ImplementsGate` |
| `batched_unit_run` | `MCBatchedUnitRun.cfg`: two parameters, three tests in two classes of which one is shared by two groups, two test cases, four settings | `TypeOK`, `PassEarned`, `PassMeansAllRan`, `ForeignNeedsRejection`, `PassedTraced`, `ImplementsGate`, `EveryCaseEnds` |
| `trace_sources` | `MCTraceSources.cfg`: one log and one shell file, two runs, three writes of named and of blank lines | `TypeOK`, `LogLinesFresh`, `OwnOutputKept`, `HangsOnlyInScript` |
| `seed_mutation` | `MCSeedMutation.cfg`: three names, six settings of mutator, relations and project, two loops of two test cases | `TypeOK`, `MutationRecorded`, `RaisesOnlyCrossed`, `DrawnInTurn`, `PoolSeedsFrozen` |
| `validated_rounds` | `MCValidatedRounds.cfg`: two projects, targets 1 and 2, three attempts, three launches | `TypeOK`, `SelectedBacked`, `SelectedKept` |
| `startup_failure`, `alternation`, `stale_alarm` | small instances | the three findings below |

Why the bounds are enough. A seed must be added in one loop and drawn in a
later one, and a discovery made by the bootstrap must be met again: two loops
and two names do both. A stale alarm needs a run and its successor: two loops.
Two SIGINTs meet: the second may arrive in the handler of the first, inside its
`put`. `Needed` is 2 for 5: the properties only distinguish "one sample" from
"as many as needed". Three classes give a line before, at and after the one at
which the reader acts; a hard timeout of four idle ones lets several lines put
off the idle timeout before the hard one strikes. Two groups that share a class
are the least in which one report can be taken for another, and two test cases
the least in which a Maven left alone can reach the next. A log file must be
filled by an old writer, deleted, filled again and written anew: three writes in
two runs. A crossed default value is copied in one loop, accepted into the pool
and raises in the next: two loops. Three launches allow a kill in each of two and
a last one that reads what they left. The theorems cover
all other values for the safety properties they name. Every configuration turns the
deadlock check off: campaigns, threads and unit runs end, and a hang is a state
`ExitsOrHangs` names.

### Fairness

* `FuzzCampaign!FairSpec`: the main thread goes on. It holds because every
  blocking call returns, for `preKillRun` by `Returns`, for the system test by
  assumption: `subprocess.run` has no timeout there, and a script that hangs
  hangs the campaign. So `Termination` speaks of campaigns whose scripts return.
* `CampaignThreads!FairSpec`: each thread that can take a step eventually does
  (the operating system's scheduler, the global interpreter lock). Weak fairness
  is enough although the threads contend for the lock of `stopSoon`: the main
  thread takes it a bounded number of times. Fairness of the main thread is that of
  `OwnStep`, which leaves out the return of the test script; neither that nor SIGINT is
  assumed.
* `BatchedUnitRun!FairSpec`: the tester goes on, which every wait with a timeout
  lets it. Nothing is assumed of Maven.
* `TraceSources!FairSpec`: the tester goes on once the script has returned. That
  it returns is not assumed, nor that a daemon stops; so `HangsOnlyInScript` names
  the one wait without a timeout.
* `UnitRun!FairSpec`: the reader goes on and time passes. Nothing is assumed of
  Maven, which may hang or write for ever.

### Findings

* `startup_failure` (`SystemTester.py:334`): a startup failure reads
  `confItem.isMutated`, which does not exist. The exception ends the campaign
  after the counter of its type is raised and before the total is, where
  `Experiment Data/README.md:214` shows 26 such failures in one campaign.
* `alternation` (`TestValidator.py:249`): the guard names a strategy that the
  first switch renames, so mutation never returns from stacked to single, which
  `src/testcaseGenerator/README.md:10` promises.
* `stale_alarm` (`MonitorThread.py:13`): "init the flag" is undone by a thread
  of the previous run that is still in its sleep; the next test case is counted
  as a failure it did not cause.

`ExitsOrHangs` holds with its three exceptions spelled out: SIGINT inside a method of
`stopSoon` and an error while old results are deleted (`Hung`), and a test script that
never returns (`WaitsForScript`; `SystemTester.py:239` gives `subprocess.run` no timeout).

### What the code does that a reader may not expect

These are not disagreements with a line of the repository, but each is an
exception some property has to spell out:

* A seed can hold a name twice, since related names are added without a look at
  what is there (`SeedGenerator.py`); the reader of a configuration file takes the
  last. `MutationRecorded` excepts such names for what is recorded too much.
* A prepared parameter that a mutator had changed is recorded as mutated and then
  written over; `hbase.rootdir` is appended once more when its value differs.
* `genInt` and `genFloat` can only raise on a value that a default value dependency
  copied from a parameter of another type (`RaisesOnlyCrossed`).
* alluxio takes an unreadable report, and a failure without a text, for a pass.
* A Maven whose shell was killed reads the values it finds, those of the next test
  case included; only the look at `ps` before a system test ends that, and a test
  case that the gate rejects never gets there (`ForeignNeedsRejection`).
* A log file that was filled by a left-over daemon between its deletion and its
  snapshot, and then written anew and longer, loses its first lines (`OwnOutputKept`).
* A log file that was only touched since its snapshot, or got nothing but blank lines, is
  read in full, since the fallback of the collector fires on `content.strip() == ""`; the
  lines of whoever wrote before are then charged to the run (`LogLinesFresh`).
* SIGINT between `seedPool.append` and `queueLength += 1`, or between the names of one
  log, leaves the final summary one seed, or the log some names, behind (`CountersAgree`,
  `DiscoveredOnce`).
* `excludeConf` is never filled, so `updateConfMutable` changes nothing, and the
  fall-backs of `generateSeed` for an empty selection are never reached.

## 4. Proofs

The theorems hold for every value of the constants, under the named assumptions of
each module: sets of names, kinds, tests and projects of any size, any number of
loops, test cases, signals, attempts and launches, any timeouts.

* `FuzzCampaign_proofs`. `Typing` goes first, one step for each action, with
  lemmas for the operators that build records. The others use it and an
  inductive invariant each. `ForcedGate`: the pool grows only behind a failed
  unit verdict, which the required gate never lets past, so the invariant says
  where a failed verdict can be (`GateInv`, facts about `pc` and `ut`).
  `SeedsExercised`: what a test case carries between its run and the pool was
  put into the accepted names. `CountersConsistent`: the position in the loop
  determines how far each counter is behind the pool or ahead of the loops, and at the
  shutdown it is as far as some position in the loop left it. `FailuresAgreed`: how much
  a run can have added at each `pc`, and what of it is in the log. `DiscoveriesLogged`:
  from the recording of a run to its last event a known name is either in the log or
  among those still to be logged, and never in both. `StopHonoured`: `afterStop` is
  bounded by `iter` while the loop of the stop request lasts. `CampaignsShort`:
  `StepsLeft` counts what is still to come in loops, test cases and statements; it is a
  natural number (`LoopsInv`, `IterInv`), and every step lowers it or logs one name, of
  which a campaign logs each once in each log. That is the part of `Termination` that
  needs no fairness (in the endless mode `MaxLoops` stands for the loops that the time
  limit leaves). `ChoicesThere`: seeds are never without names (part of
  `FirstFailuresInv`), so whichever fall-back `choose_candidate_names` takes returns
  some.
* `CampaignThreads_proofs`. Updates of `monitor[r][k]` touch one thread only
  (`OneMonitor` and the effect lemmas). The invariant `Lives` says which threads
  can be alive at each `pc`, who may own a flag, and what `late` and `others`
  recorded at a reset still imply; all four properties follow from it.
* `UnitRun_proofs`. `Sound`: past the loop Maven is not running, and the exit
  code 0 means that no class failed; since the code is only read after the exit,
  the file no longer changes. `Reasoned`: while the reader acts on a failed class,
  that class is among the lines it is past and not yet counted.

* `UnitGate_proofs`. `SystemTestIsAlone`: the gate's own invariant, which needs two
  facts more about `phase` (`GateInductive`).
* Refinement. `UnitRunImplementsGate` and `BatchedRunImplementsGate` map the initial
  state and then every step to a step of the gate or a stutter. Both need that no
  value is in the files outside the unit tests (`Clean`, for `BatchedUnitRun`).
  `CampaignKeepsPromise` does the same for `FuzzCampaign` and `Campaign`, with
  `Unmoved` for the steps the promise does not see; it uses where a test case has a
  system run (`RunInv`), that what is missing in the log is what the run still has to log
  (`DiscoveryInv`), and `StopHonoured`.
* `BatchedUnitRun_proofs`. `Accounted`: while the tests run, each selected one has a
  result or is still awaited in a group, in the running one or in a class to be
  parsed; at the verdict none is left, which gives `PassMeansEveryTest`.
  `GroupedOrder` and `ParallelOrder` say which values a Maven can have read: in
  groups one Maven runs alone with those of its group, in parallel one that is waited
  for is in the list, for a class of its own. With `ReportsSound`, that the listed
  tests of every report had their own values, or a Maven left alone wrote it, they
  carry `PassesEarned`. `BatchedTyping` is proved first.
  `ForeignRejected`: in parallel every class has one Maven for a test case, which
  writes its report once (`WrittenOnce`), so a report of an earlier test case comes
  from a Maven left alone; and where neither the required gate nor alluxio lets a
  test case go on past a class without a report, such a class is not parsed yet or
  has counted as failed, and no Maven is left when a test case begins (`Pending`).
  `PassesTraced`: `TracesFound` follows the report of a passed test from its parsing
  to the reading of its trace: a report without the trace is never the one parsed.
* `SeedMutation_proofs`. `NamesDrawnInTurn`: the names before the index have been
  drawn exactly once more than those from it on. `MutationTyping`: `Shape` adds to the
  type what the mutators rely on, that each reference leads to an item, and that while
  a test case is built every position has its new item (`Renewed`, `Related`).
  `RaisesAfterCrossing`: unless a default value dependency joins two types, every
  number in the heap is one that `int()` or `float()` takes (`AllReadable`); it needs of
  the prepared names that their type is not a number, which holds because their values
  in the default file are paths and an address (in `NamesAssumption`).
  `MutationsRecorded`: `Recorded` holds from the capture to the judgement because the
  preparation writes to prepared names only. `SeedsFrozen`: an object that two lists
  share is at one position in both, with the same names before it (`Apart`), and in
  `hadoop-common` each prepared item is already what a pool seed has first of its name
  (`Ready`); so the preparation, which writes into the first object of a name, writes
  into a shared one what is there.
* `ValidatedRounds_proofs`. `RoundsTyping`; `ManifestKept`: what a launch holds in
  memory extends the manifest, and what it selected extends its memory;
  `ManifestBacked`: at each `pc` the selected rows have their directories and their
  rows in `attempts.tsv`, and no later number is in use.
* `TraceSources_proofs`. `LinesFresh`: while the collector is at work, each log file is
  what the snapshot saw with new lines beyond its length (`Extended`), or was written anew
  since, every line of it new (`Anew`). Either way a tail that is not blank has new lines
  only; where it is blank the whole file is read, and what is new in it is blank.
  `TraceTyping`: `Sorted` adds that the collected lines are finitely many and that the
  trace is the judgement of what was collected, from which each row agrees with itself.
  `OutputKept`: a file with a line of the run is later than what the snapshot saw of it
  (`OwnLines`), so it is not passed over, and each such line, unless it is blank, is
  charged already, in a file still to be read, or within the length seen (`Kept`).

Every safety property of the passing runs has a theorem. Model-checked only: the
liveness properties `Termination`, `ExitsOrHangs`, `Returns`, `EveryCaseEnds` and
`HangsOnlyInScript`, whose proofs need `ENABLED`, out of the prover's reach; and the
findings, which are violations.

## 5. Not modelled, and the plan

CEIT generators, the analysis of configuration files, the
database and viewers are stateless or pure input and output. The trimmers of
test cases (`NormalTrimmer`, `DichotomyTrimmer`) are built and never called. The
remaining parts, in the order in which they are worth modelling:

1. `ProvenanceRuntime`: the concurrent stores of the Java agent
   (`TraceRuntime`, `FieldBindingStore`, `FrameState`).
2. `RemoteRun`: the batch scripts on remote machines, whose state is in files there.

Theorems to come: lemmas on what the operators of `UnitTestSelection` return, and
counts of the steps left, as in `CampaignsShort`, for the unit runs and the rounds.
