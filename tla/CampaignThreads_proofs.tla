----------------------- MODULE CampaignThreads_proofs -----------------------
(***************************************************************************)
(* Theorems about CampaignThreads, for any number of loops, of resources,  *)
(* of samples an alarm needs, and of SIGINTs.                              *)
(***************************************************************************)
EXTENDS CampaignThreads, TLAPS

-----------------------------------------------------------------------------
(* Lemmas about the monitor threads of a step.                             *)

Monitors == [Loops -> [Kinds -> MonitorSet]]
Updated(ns, ms, r, k, m) == ns = [ms EXCEPT ![r][k] = m]

\* The steps of one monitor thread leave the others alone.
LEMMA OneMonitor ==
    ASSUME NEW ms \in Monitors, NEW r \in Loops, NEW k \in Kinds, NEW m \in MonitorSet,
           NEW ns, Updated(ns, ms, r, k, m)
    PROVE  /\ ns \in Monitors
           /\ ns[r][k] = m
           /\ \A s \in Loops, j \in Kinds : s # r \/ j # k => ns[s][j] = ms[s][j]
<1>1. ms[r] \in [Kinds -> MonitorSet]
  BY DEF Monitors
<1>2. ns = [ms EXCEPT ![r] = [ms[r] EXCEPT ![k] = m]]
  BY DEF Updated
<1>3. [ms[r] EXCEPT ![k] = m] \in [Kinds -> MonitorSet]
  BY <1>1
<1>4. ns \in Monitors
  BY <1>2, <1>3 DEF Monitors
<1>5. ns[r] = [ms[r] EXCEPT ![k] = m]
  BY <1>2 DEF Monitors
<1>6. \A s \in Loops : s # r => ns[s] = ms[s]
  BY <1>2 DEF Monitors
<1>7. \A j \in Kinds : [ms[r] EXCEPT ![k] = m][j] = IF j = k THEN m ELSE ms[r][j]
  BY <1>1
<1> QED BY <1>4, <1>5, <1>6, <1>7

\* Counting a high sample stays within its bound and never loses one.
LEMMA CappedCounts ==
    ASSUME NEW n \in 0..Needed, NEW isHigh \in BOOLEAN
    PROVE  LET high == Capped(n + (IF isHigh THEN 1 ELSE 0))
           IN  /\ high \in 0..Needed /\ high >= n /\ high <= n + 1
               /\ isHigh => high >= 1
BY CountAssumption DEF Capped

\* What StartMonitor does to its thread.
LEMMA StartEffect ==
    ASSUME TypeOK, NEW r \in Loops, NEW k \in Kinds, StartMonitor(r, k)
    PROVE  /\ monitor' \in Monitors
           /\ monitor[r][k].pc = "started"
           /\ monitor'[r][k].pc = "asleep" /\ monitor'[r][k].high = monitor[r][k].high
           /\ monitor'[r][k].late = stopSoon
           /\ monitor'[r][k].others = {s \in Loops \ {r} : Alive(s, k)}
           /\ \A s \in Loops, j \in Kinds : s # r \/ j # k => monitor'[s][j] = monitor[s][j]
           /\ flag' = [flag EXCEPT ![k] = 0]
           /\ UNCHANGED <<main, stopSoon, stopRun, display>>
<1> DEFINE m == [monitor[r][k] EXCEPT !.pc = "asleep", !.late = stopSoon,
                                      !.others = {s \in Loops \ {r} : Alive(s, k)}]
<1>1. monitor \in Monitors /\ monitor[r][k] \in MonitorSet /\ stopSoon \in BOOLEAN
  BY DEF TypeOK, Monitors
<1>2. /\ m \in MonitorSet
      /\ m.pc = "asleep" /\ m.high = monitor[r][k].high /\ m.late = stopSoon
      /\ m.others = {s \in Loops \ {r} : Alive(s, k)}
  BY <1>1 DEF MonitorSet
<1>3. Updated(monitor', monitor, r, k, m)
  BY DEF StartMonitor, Updated
<1> HIDE DEF m
<1>4. /\ monitor' \in Monitors /\ monitor'[r][k] = m
      /\ \A s \in Loops, j \in Kinds : s # r \/ j # k => monitor'[s][j] = monitor[s][j]
  BY <1>1, <1>2, <1>3, OneMonitor
<1>5. /\ monitor[r][k].pc = "started" /\ flag' = [flag EXCEPT ![k] = 0]
      /\ UNCHANGED <<main, stopSoon, stopRun, display>>
  BY DEF StartMonitor, FlagReset
<1> QED BY <1>2, <1>4, <1>5

\* What Sample does to its thread and to the flag.
LEMMA SampleEffect ==
    ASSUME TypeOK, NEW r \in Loops, NEW k \in Kinds, Sample(r, k)
    PROVE  /\ monitor' \in Monitors
           /\ monitor[r][k].pc = "asleep" /\ monitor'[r][k].pc = "checking"
           /\ monitor'[r][k].late = monitor[r][k].late
           /\ monitor'[r][k].others = monitor[r][k].others
           /\ monitor'[r][k].high >= monitor[r][k].high
           /\ monitor'[r][k].high <= monitor[r][k].high + 1
           /\ \A s \in Loops, j \in Kinds : s # r \/ j # k => monitor'[s][j] = monitor[s][j]
           /\ \/ flag' = flag
              \/ /\ flag' = [flag EXCEPT ![k] = r]
                 /\ monitor'[r][k].high >= (IF k \in Sustained THEN Needed ELSE 1)
           /\ UNCHANGED <<main, stopSoon, stopRun, display>>
<1>1. monitor \in Monitors /\ monitor[r][k] \in MonitorSet /\ flag \in [Kinds -> 0..FuzzingLoop]
  BY DEF TypeOK, Monitors
<1>2. PICK isHigh \in BOOLEAN :
        LET high == Capped(monitor[r][k].high + (IF isHigh THEN 1 ELSE 0))
            raised == IF k \in Sustained THEN IsContinue(high) ELSE isHigh
        IN  /\ flag' = [flag EXCEPT ![k] = IF raised THEN r ELSE @]
            /\ monitor' = [monitor EXCEPT ![r][k] = [@ EXCEPT !.pc = "checking", !.high = high]]
  BY DEF Sample
<1> DEFINE high == Capped(monitor[r][k].high + (IF isHigh THEN 1 ELSE 0))
           m == [monitor[r][k] EXCEPT !.pc = "checking", !.high = high]
           raised == IF k \in Sustained THEN IsContinue(high) ELSE isHigh
<1>3. monitor[r][k].high \in 0..Needed
  BY <1>1 DEF MonitorSet
<1>4. /\ high \in 0..Needed /\ high >= monitor[r][k].high /\ high <= monitor[r][k].high + 1
      /\ isHigh => high >= 1
  BY <1>3, CappedCounts
<1>5. /\ Updated(monitor', monitor, r, k, m)
      /\ flag' = [flag EXCEPT ![k] = IF raised THEN r ELSE @]
  BY <1>2 DEF Updated
<1>6. raised => high >= (IF k \in Sustained THEN Needed ELSE 1)
  BY <1>4 DEF IsContinue
<1> HIDE DEF high, raised
<1>7. /\ m \in MonitorSet /\ m.pc = "checking" /\ m.high = high
      /\ m.late = monitor[r][k].late /\ m.others = monitor[r][k].others
  BY <1>1, <1>4 DEF MonitorSet
<1> HIDE DEF m
<1>8. flag' = flag \/ (flag' = [flag EXCEPT ![k] = r] /\ raised)
  BY <1>1, <1>5
<1>9. /\ monitor' \in Monitors /\ monitor'[r][k] = m
      /\ \A s \in Loops, j \in Kinds : s # r \/ j # k => monitor'[s][j] = monitor[s][j]
  BY <1>1, <1>5, <1>7, OneMonitor
<1>10. monitor[r][k].pc = "asleep" /\ UNCHANGED <<main, stopSoon, stopRun, display>>
  BY DEF Sample
<1> QED BY <1>4, <1>6, <1>7, <1>8, <1>9, <1>10

\* What LookAtQueues does to its thread.
LEMMA LookEffect ==
    ASSUME TypeOK, NEW r \in Loops, NEW k \in Kinds, LookAtQueues(r, k)
    PROVE  /\ monitor' \in Monitors
           /\ monitor[r][k].pc = "checking"
           /\ monitor'[r][k].pc = IF SeesStop(r) THEN "ended" ELSE "asleep"
           /\ monitor'[r][k].high = monitor[r][k].high
           /\ monitor'[r][k].late = monitor[r][k].late
           /\ monitor'[r][k].others = monitor[r][k].others
           /\ \A s \in Loops, j \in Kinds : s # r \/ j # k => monitor'[s][j] = monitor[s][j]
           /\ UNCHANGED <<main, stopSoon, stopRun, flag, display>>
<1> DEFINE to == IF SeesStop(r) THEN "ended" ELSE "asleep"
           m == [monitor[r][k] EXCEPT !.pc = to]
<1>1. monitor \in Monitors /\ monitor[r][k] \in MonitorSet
  BY DEF TypeOK, Monitors
<1>2. to \in {"ended", "asleep"}
  OBVIOUS
<1>3. Updated(monitor', monitor, r, k, m)
  BY DEF LookAtQueues, Updated
<1> HIDE DEF to
<1>4. /\ m \in MonitorSet /\ m.pc = to /\ m.high = monitor[r][k].high
      /\ m.late = monitor[r][k].late /\ m.others = monitor[r][k].others
  BY <1>1, <1>2 DEF MonitorSet
<1> HIDE DEF m
<1>5. /\ monitor' \in Monitors /\ monitor'[r][k] = m
      /\ \A s \in Loops, j \in Kinds : s # r \/ j # k => monitor'[s][j] = monitor[s][j]
  BY <1>1, <1>3, <1>4, OneMonitor
<1> QED BY <1>4, <1>5 DEF LookAtQueues, to

\* What StartSystemTest does to the threads.
LEMMA SpawnEffect ==
    ASSUME TypeOK, loop \in Loops, StartSystemTest
    PROVE  /\ monitor' \in Monitors
           /\ \A k \in Kinds :
                 /\ monitor'[loop][k].pc = "started"
                 /\ monitor'[loop][k].high = monitor[loop][k].high
                 /\ monitor'[loop][k].late = monitor[loop][k].late
                 /\ monitor'[loop][k].others = monitor[loop][k].others
           /\ \A s \in Loops, j \in Kinds : s # loop => monitor'[s][j] = monitor[s][j]
<1> DEFINE ms == [k \in Kinds |-> [monitor[loop][k] EXCEPT !.pc = "started"]]
<1>1. monitor \in Monitors /\ \A k \in Kinds : monitor[loop][k] \in MonitorSet
  BY DEF TypeOK, Monitors
<1>2. monitor' = [monitor EXCEPT ![loop] = ms]
  BY DEF StartSystemTest
<1>3. \A k \in Kinds :
         /\ ms[k] \in MonitorSet
         /\ ms[k].pc = "started" /\ ms[k].high = monitor[loop][k].high
         /\ ms[k].late = monitor[loop][k].late /\ ms[k].others = monitor[loop][k].others
  BY <1>1 DEF MonitorSet
<1>4. ms \in [Kinds -> MonitorSet]
  BY <1>3
<1> HIDE DEF ms
<1> QED BY <1>1, <1>2, <1>3, <1>4 DEF Monitors

-----------------------------------------------------------------------------
(* Types.                                                                  *)

\* Where the main thread is says how far the loop counter may have come.
Placed ==
    /\ pc = "check" => loop < FuzzingLoop
    /\ pc \in {"timeLimit", "runTest", "testing", "verdict"} => loop >= 1

\* The type invariant with the bound of the loop counter, which EnterLoop checks and
\* CheckStop relies on.
LEMMA TypePlaced == Spec => [](TypeOK /\ Placed)
<1>1. Init => TypeOK /\ Placed
  <2>1. NoMonitor \in MonitorSet
    BY CountAssumption DEF NoMonitor, MonitorSet
  <2>2. ASSUME Init
        PROVE  /\ flag \in [Kinds -> 0..FuzzingLoop]
               /\ monitor \in [Loops -> [Kinds -> MonitorSet]]
               /\ stopRun \in [Loops -> BOOLEAN]
    BY <2>1, <2>2, CountAssumption DEF Init
  <2>3. ASSUME Init
        PROVE  /\ pc = "setup" /\ after = "exit" /\ held = FALSE /\ loop = 0
               /\ stopSoon = FALSE /\ sigints = 0 /\ display = "running"
    BY <2>3 DEF Init
  <2> QED BY <2>2, <2>3, CountAssumption DEF TypeOK, Placed, PCs
<1>2. TypeOK /\ Placed /\ [Next]_vars => TypeOK' /\ Placed'
  <2> SUFFICES ASSUME TypeOK, Placed, [Next]_vars
               PROVE  TypeOK' /\ Placed'
    OBVIOUS
  <2> USE CountAssumption DEF Loops
  <2>1. CASE SetUp
    BY <2>1 DEF SetUp, TypeOK, Placed, PCs
  <2>2. CASE EnterLoop
    BY <2>2 DEF EnterLoop, LoopsLeft, TypeOK, Placed, PCs
  <2>3. CASE EnterQueue
    BY <2>3 DEF EnterQueue, TypeOK, Placed, PCs
  <2>4. CASE CheckStop
    <3>1. /\ pc = "check" /\ pc' \in {"join", "timeLimit", "runTest"}
          /\ loop' \in {loop, loop + 1} /\ (pc' # "join" => loop' = loop + 1)
          /\ held' = FALSE
          /\ UNCHANGED <<after, stopSoon, sigints, stopRun, flag, monitor, display>>
      BY <2>4 DEF CheckStop, LeaveQueue
    <3>2. loop \in 0..FuzzingLoop /\ loop < FuzzingLoop
      BY <3>1 DEF TypeOK, Placed
    <3>3. loop' \in 0..FuzzingLoop /\ (pc' # "join" => loop' >= 1)
      BY <3>1, <3>2
    <3> QED BY <3>1, <3>3 DEF TypeOK, Placed, PCs
  <2>5. CASE PutTimeLimit
    BY <2>5 DEF PutTimeLimit, LeaveQueue, TypeOK, Placed, PCs
  <2>6. CASE SkipSystemTest
    BY <2>6 DEF SkipSystemTest, TypeOK, Placed, PCs
  <2>7. CASE StartSystemTest
    <3>1. loop \in Loops
      BY <2>7 DEF StartSystemTest, TypeOK, Placed
    <3>2. monitor' \in Monitors
      BY <2>7, <3>1, SpawnEffect
    <3> QED BY <2>7, <3>2 DEF StartSystemTest, TypeOK, Placed, PCs, Monitors
  <2>8. CASE EndSystemTest
    BY <2>8 DEF EndSystemTest, StopPut, TypeOK, Placed, PCs
  <2>9. CASE RaiseInSystemTest
    BY <2>9 DEF RaiseInSystemTest, TypeOK, Placed, PCs
  <2>10. CASE JudgeTestcase
    BY <2>10 DEF JudgeTestcase, TypeOK, Placed, PCs
  <2>11. CASE JoinDisplay
    BY <2>11 DEF JoinDisplay, TypeOK, Placed, PCs
  <2>12. CASE PutFinally
    BY <2>12 DEF PutFinally, LeaveQueue, TypeOK, Placed, PCs
  <2>13. CASE WriteSummary
    BY <2>13 DEF WriteSummary, TypeOK, Placed, PCs
  <2>14. CASE PutInHandler
    BY <2>14 DEF PutInHandler, LeaveQueue, TypeOK, Placed, PCs
  <2>15. CASE RaiseSystemExit
    BY <2>15 DEF RaiseSystemExit, TypeOK, Placed, PCs
  <2>16. CASE Interrupt
    BY <2>16 DEF Interrupt, ExitPath, TypeOK, Placed, PCs
  <2>17. CASE DrawBoard
    BY <2>17 DEF DrawBoard, main, TypeOK, Placed
  <2>18. ASSUME NEW r \in Loops, NEW k \in Kinds, StartMonitor(r, k)
         PROVE  TypeOK' /\ Placed'
    <3>1. /\ monitor' \in Monitors /\ flag' = [flag EXCEPT ![k] = 0]
          /\ UNCHANGED <<main, stopSoon, stopRun, display>>
      BY <2>18, StartEffect
    <3> QED BY <3>1 DEF main, TypeOK, Placed, Monitors
  <2>19. ASSUME NEW r \in Loops, NEW k \in Kinds, Sample(r, k)
         PROVE  TypeOK' /\ Placed'
    <3>1. /\ monitor' \in Monitors /\ (flag' = flag \/ flag' = [flag EXCEPT ![k] = r])
          /\ UNCHANGED <<main, stopSoon, stopRun, display>>
      BY <2>19, SampleEffect
    <3>2. flag' \in [Kinds -> 0..FuzzingLoop]
      BY <3>1 DEF TypeOK
    <3> QED BY <3>1, <3>2 DEF main, TypeOK, Placed, Monitors
  <2>20. ASSUME NEW r \in Loops, NEW k \in Kinds, LookAtQueues(r, k)
         PROVE  TypeOK' /\ Placed'
    <3>1. monitor' \in Monitors /\ UNCHANGED <<main, stopSoon, stopRun, flag, display>>
      BY <2>20, LookEffect
    <3> QED BY <3>1 DEF main, TypeOK, Placed, Monitors
  <2>21. CASE UNCHANGED vars
    BY <2>21 DEF vars, TypeOK, Placed
  <2> QED BY <2>1, <2>2, <2>3, <2>4, <2>5, <2>6, <2>7, <2>8, <2>9, <2>10, <2>11, <2>12, <2>13,
             <2>14, <2>15, <2>16, <2>17, <2>18, <2>19, <2>20, <2>21
      DEF Next, MainStep, OwnStep, ScriptStep, MonitorStep
<1> QED BY <1>1, <1>2, PTL DEF Spec

\* Every variable keeps its type: no loop is entered beyond fuzzing_loop and no sample
\* is counted beyond the number an alarm needs.
THEOREM ThreadsTyping == Spec => []TypeOK
BY TypePlaced, PTL

-----------------------------------------------------------------------------
(* The life of a monitor thread.                                           *)

\* The monitors of the loops to come do not exist yet.
Unborn ==
    \A r \in Loops, k \in Kinds :
        r > loop \/ (r = loop /\ pc \in {"timeLimit", "runTest"}) => monitor[r][k].pc = "none"

\* A monitor that has not reset its flag has no past.
Blank ==
    \A r \in Loops, k \in Kinds :
        monitor[r][k].pc \in {"none", "started"} =>
            monitor[r][k].high = 0 /\ monitor[r][k].late = FALSE

\* One that started when stopSoon was not empty ends after one sample.
OneSample ==
    \A r \in Loops, k \in Kinds :
        monitor[r][k].late =>
            /\ stopSoon
            /\ monitor[r][k].high <= 1
            /\ monitor[r][k].pc = "asleep" => monitor[r][k].high = 0

\* Once the monitor of the current loop has reset its flag, every other one that is
\* alive, and every other one whose alarm is up, was alive at the reset.
Overlaps ==
    \A r, s \in Loops, k \in Kinds :
        /\ r = loop /\ s # r
        /\ monitor[r][k].pc \in {"asleep", "checking", "ended"}
        /\ Alive(s, k) \/ flag[k] = s
        => s \in monitor[r][k].others

Lives == Unborn /\ Blank /\ OneSample /\ AlarmEarned /\ Overlaps

\* A step of the main thread that starts no system run and no loop leaves all of this.
LEMMA LivesKept ==
    ASSUME TypeOK, Lives, UNCHANGED <<monitor, flag>>,
           stopSoon => stopSoon',
           loop' = loop,
           pc' \in {"timeLimit", "runTest"} => pc \in {"timeLimit", "runTest"}
    PROVE  Lives'
BY DEF Lives, Unborn, Blank, OneSample, AlarmEarned, Overlaps, Alive

\* So does an alarm while the counts stay what they are, unless it is taken down.
LEMMA AlarmsKept ==
    ASSUME TypeOK, AlarmEarned,
           \A j \in Kinds : flag'[j] \in {0, flag[j]},
           \A s \in Loops, j \in Kinds : monitor'[s][j].high = monitor[s][j].high
    PROVE  AlarmEarned'
<1> SUFFICES ASSUME NEW j \in Kinds, flag'[j] # 0
             PROVE  monitor'[flag'[j]][j].high >= (IF j \in Sustained THEN Needed ELSE 1)
  BY DEF AlarmEarned
<1>1. flag'[j] = flag[j] /\ flag[j] # 0
  OBVIOUS
<1>2. flag[j] \in Loops
  BY <1>1, CountAssumption DEF TypeOK, Loops
<1>3. monitor'[flag[j]][j].high = monitor[flag[j]][j].high
  BY <1>2
<1>4. monitor[flag[j]][j].high >= (IF j \in Sustained THEN Needed ELSE 1)
  BY <1>1 DEF AlarmEarned
<1>5. monitor'[flag'[j]][j].high = monitor[flag[j]][j].high
  BY <1>1, <1>3
<1> QED BY <1>4, <1>5

\* The lives of the monitors: with the types this is inductive.
LEMMA LivesInvariant == Spec => []Lives
<1>1. Init => Lives
  BY DEF Init, NoMonitor, Lives, Unborn, Blank, OneSample, AlarmEarned, Overlaps, Alive
<1>2. TypeOK /\ Placed /\ Lives /\ [Next]_vars => Lives'
  <2> SUFFICES ASSUME TypeOK, Placed, Lives, [Next]_vars
               PROVE  Lives'
    OBVIOUS
  <2> USE CountAssumption
  <2>1. CASE \/ SetUp \/ EnterLoop \/ EnterQueue \/ PutTimeLimit \/ SkipSystemTest
             \/ EndSystemTest \/ RaiseInSystemTest \/ JudgeTestcase \/ JoinDisplay
             \/ PutFinally \/ WriteSummary \/ PutInHandler \/ RaiseSystemExit
             \/ Interrupt \/ DrawBoard \/ UNCHANGED vars
    <3>1. UNCHANGED <<monitor, flag, loop>>
      BY <2>1 DEF SetUp, EnterLoop, EnterQueue, PutTimeLimit, SkipSystemTest, EndSystemTest,
                  RaiseInSystemTest, JudgeTestcase, JoinDisplay, PutFinally, WriteSummary,
                  PutInHandler, RaiseSystemExit, Interrupt, DrawBoard, main, vars, LeaveQueue
    <3>2. stopSoon => stopSoon'
      BY <2>1 DEF SetUp, EnterLoop, EnterQueue, PutTimeLimit, SkipSystemTest, EndSystemTest,
                  RaiseInSystemTest, JudgeTestcase, JoinDisplay, PutFinally, WriteSummary,
                  PutInHandler, RaiseSystemExit, Interrupt, DrawBoard, main, vars, LeaveQueue
    <3>3. pc' \in {"timeLimit", "runTest"} => pc \in {"timeLimit", "runTest"}
      BY <2>1 DEF SetUp, EnterLoop, EnterQueue, PutTimeLimit, SkipSystemTest, EndSystemTest,
                  RaiseInSystemTest, JudgeTestcase, JoinDisplay, PutFinally, WriteSummary,
                  PutInHandler, RaiseSystemExit, Interrupt, DrawBoard, main, vars, LeaveQueue,
                  TypeOK
    <3> QED BY <3>1, <3>2, <3>3, LivesKept
  <2>2. CASE CheckStop
    <3>1. /\ UNCHANGED <<monitor, flag, stopSoon>>
          /\ \/ loop' = loop /\ pc' = "join"
             \/ loop' = loop + 1
      BY <2>2 DEF CheckStop, LeaveQueue
    <3>2. CASE loop' = loop /\ pc' = "join"
      BY <3>1, <3>2, LivesKept
    <3>3. CASE loop' = loop + 1
      <4>1. \A r \in Loops, k \in Kinds : r >= loop' => monitor[r][k].pc = "none"
        BY <3>3 DEF Lives, Unborn, TypeOK, Loops
      <4>2. Unborn'
        BY <3>1, <4>1, <3>3 DEF Unborn, Loops, TypeOK
      <4>3. Overlaps'
        <5>1. loop' \in Nat /\ UNCHANGED monitor
          BY <3>1, <3>3 DEF TypeOK
        <5>2. \A r \in Loops, k \in Kinds : r = loop' => monitor'[r][k].pc = "none"
          BY <4>1, <5>1 DEF Loops
        <5> QED BY <5>2 DEF Overlaps
      <4>4. Blank' /\ OneSample' /\ AlarmEarned'
        BY <3>1 DEF Lives, Blank, OneSample, AlarmEarned
      <4> QED BY <4>2, <4>3, <4>4 DEF Lives
    <3> QED BY <3>1, <3>2, <3>3
  <2>3. CASE StartSystemTest
    <3>1. loop \in Loops
      BY <2>3 DEF StartSystemTest, TypeOK, Placed, Loops
    <3>2. /\ pc = "runTest" /\ pc' = "testing"
          /\ UNCHANGED <<loop, flag, stopSoon>>
      BY <2>3 DEF StartSystemTest
    <3>3. /\ \A k \in Kinds :
                /\ monitor'[loop][k].pc = "started"
                /\ monitor'[loop][k].high = monitor[loop][k].high
                /\ monitor'[loop][k].late = monitor[loop][k].late
          /\ \A s \in Loops, j \in Kinds : s # loop => monitor'[s][j] = monitor[s][j]
      BY <2>3, <3>1, SpawnEffect
    <3>4. Unborn'
      BY <3>1, <3>2, <3>3 DEF Lives, Unborn, Loops, TypeOK
    <3>5. \A k \in Kinds : monitor[loop][k].pc = "none"
      BY <3>1, <3>2 DEF Lives, Unborn
    <3>6. Blank'
      BY <3>1, <3>3, <3>5 DEF Lives, Blank
    <3>7. OneSample'
      BY <3>1, <3>2, <3>3, <3>5 DEF Lives, OneSample, Blank
    <3>8. AlarmEarned'
      <4>1. \A s \in Loops, j \in Kinds : monitor'[s][j].high = monitor[s][j].high
        BY <3>1, <3>3
      <4>2. \A j \in Kinds : flag'[j] \in {0, flag[j]}
        BY <3>2
      <4> QED BY <4>1, <4>2, AlarmsKept DEF Lives
    <3>9. Overlaps'
      BY <3>2, <3>3 DEF Overlaps
    <3> QED BY <3>4, <3>6, <3>7, <3>8, <3>9 DEF Lives
  <2>4. ASSUME NEW r \in Loops, NEW k \in Kinds, StartMonitor(r, k)
        PROVE  Lives'
    <3>1. /\ monitor[r][k].pc = "started"
          /\ monitor'[r][k].pc = "asleep" /\ monitor'[r][k].high = monitor[r][k].high
          /\ monitor'[r][k].late = stopSoon
          /\ monitor'[r][k].others = {s \in Loops \ {r} : Alive(s, k)}
          /\ \A s \in Loops, j \in Kinds : s # r \/ j # k => monitor'[s][j] = monitor[s][j]
          /\ flag' = [flag EXCEPT ![k] = 0]
          /\ UNCHANGED <<pc, loop, stopSoon>>
      BY <2>4, StartEffect DEF main
    <3>2. /\ flag \in [Kinds -> 0..FuzzingLoop] /\ flag'[k] = 0
          /\ \A j \in Kinds : j # k => flag'[j] = flag[j]
      BY <3>1 DEF TypeOK
    <3>3. Unborn'
      BY <3>1 DEF Lives, Unborn
    <3>4. Blank'
      BY <3>1 DEF Lives, Blank
    <3>5. OneSample'
      BY <3>1 DEF Lives, OneSample, Blank
    <3>6. AlarmEarned'
      <4>1. \A s \in Loops, j \in Kinds : monitor'[s][j].high = monitor[s][j].high
        BY <3>1
      <4>2. \A j \in Kinds : flag'[j] \in {0, flag[j]}
        BY <3>2
      <4> QED BY <4>1, <4>2, AlarmsKept DEF Lives
    <3>7. \A s \in Loops, j \in Kinds : Alive(s, j)' <=> Alive(s, j)
      BY <3>1 DEF Alive
    <3>8. Overlaps'
      BY <3>1, <3>2, <3>7 DEF Lives, Overlaps, Loops
    <3> QED BY <3>3, <3>4, <3>5, <3>6, <3>8 DEF Lives
  <2>5. ASSUME NEW r \in Loops, NEW k \in Kinds, Sample(r, k)
        PROVE  Lives'
    <3>1. /\ monitor[r][k].pc = "asleep" /\ monitor'[r][k].pc = "checking"
          /\ monitor'[r][k].late = monitor[r][k].late
          /\ monitor'[r][k].others = monitor[r][k].others
          /\ monitor'[r][k].high >= monitor[r][k].high
          /\ monitor'[r][k].high <= monitor[r][k].high + 1
          /\ \A s \in Loops, j \in Kinds : s # r \/ j # k => monitor'[s][j] = monitor[s][j]
          /\ UNCHANGED <<pc, loop, stopSoon>>
      BY <2>5, SampleEffect DEF main
    <3>2. \/ flag' = flag
          \/ /\ flag' = [flag EXCEPT ![k] = r]
             /\ monitor'[r][k].high >= (IF k \in Sustained THEN Needed ELSE 1)
      BY <2>5, SampleEffect
    <3>3. /\ flag \in [Kinds -> 0..FuzzingLoop]
          /\ \A j \in Kinds : j # k => flag'[j] = flag[j]
          /\ flag'[k] = flag[k] \/ flag'[k] = r
      BY <3>2 DEF TypeOK
    <3>4. monitor[r][k].high \in Nat
      BY DEF TypeOK, MonitorSet
    <3>5. Unborn'
      BY <3>1 DEF Lives, Unborn
    <3>6. Blank'
      BY <3>1 DEF Lives, Blank
    <3>7. OneSample'
      BY <3>1, <3>4 DEF Lives, OneSample
    <3>8. AlarmEarned'
      <4> SUFFICES ASSUME NEW j \in Kinds, flag'[j] # 0
                   PROVE  monitor'[flag'[j]][j].high >= (IF j \in Sustained THEN Needed ELSE 1)
        BY DEF AlarmEarned
      <4> DEFINE bound == IF j \in Sustained THEN Needed ELSE 1
      <4>1. bound \in Nat
        OBVIOUS
      <4>2. flag'[j] \in Loops
        BY <3>3 DEF Loops
      <4>3. CASE flag'[j] = flag[j]
        <5>1. monitor[flag[j]][j].high >= bound /\ monitor[flag[j]][j].high \in Nat
          BY <4>2, <4>3 DEF Lives, AlarmEarned, TypeOK, MonitorSet
        <5>2. \/ monitor'[flag[j]][j] = monitor[flag[j]][j]
              \/ flag[j] = r /\ j = k
          BY <3>1, <4>2, <4>3
        <5>3. monitor'[r][k].high \in Nat
          <6>1. monitor' \in Monitors
            BY <2>5, SampleEffect
          <6> QED BY <6>1 DEF Monitors, MonitorSet
        <5> HIDE DEF bound
        <5> QED BY <3>1, <4>1, <4>3, <5>1, <5>2, <5>3 DEF bound
      <4>4. CASE flag'[j] # flag[j]
        <5>1. j = k /\ flag'[k] = r
          BY <3>3, <4>4
        <5>2. flag' # flag
          BY <4>4
        <5> QED BY <3>2, <5>1, <5>2
      <4> QED BY <4>3, <4>4
    <3>9. \A s \in Loops, j \in Kinds : Alive(s, j)' <=> Alive(s, j)
      BY <3>1 DEF Alive
    <3>10. Alive(r, k)
      BY <3>1 DEF Alive
    <3>11. Overlaps'
      BY <3>1, <3>3, <3>9, <3>10 DEF Lives, Overlaps
    <3> QED BY <3>5, <3>6, <3>7, <3>8, <3>11 DEF Lives
  <2>6. ASSUME NEW r \in Loops, NEW k \in Kinds, LookAtQueues(r, k)
        PROVE  Lives'
    <3>1. /\ monitor[r][k].pc = "checking"
          /\ monitor'[r][k].pc = IF SeesStop(r) THEN "ended" ELSE "asleep"
          /\ monitor'[r][k].high = monitor[r][k].high
          /\ monitor'[r][k].late = monitor[r][k].late
          /\ monitor'[r][k].others = monitor[r][k].others
          /\ \A s \in Loops, j \in Kinds : s # r \/ j # k => monitor'[s][j] = monitor[s][j]
          /\ UNCHANGED <<pc, loop, stopSoon, flag>>
      BY <2>6, LookEffect DEF main
    <3>2. Unborn'
      BY <3>1 DEF Lives, Unborn
    <3>3. Blank'
      BY <3>1 DEF Lives, Blank
    <3>4. OneSample'
      BY <3>1 DEF Lives, OneSample, SeesStop
    <3>5. AlarmEarned'
      <4>1. \A s \in Loops, j \in Kinds : monitor'[s][j].high = monitor[s][j].high
        BY <3>1
      <4>2. \A j \in Kinds : flag'[j] \in {0, flag[j]}
        BY <3>1
      <4> QED BY <4>1, <4>2, AlarmsKept DEF Lives
    <3>6. \A s \in Loops, j \in Kinds : Alive(s, j)' => Alive(s, j)
      BY <3>1 DEF Alive
    <3>7. Overlaps'
      BY <3>1, <3>6 DEF Lives, Overlaps
    <3> QED BY <3>2, <3>3, <3>4, <3>5, <3>7 DEF Lives
  <2> QED BY <2>1, <2>2, <2>3, <2>4, <2>5, <2>6
      DEF Next, MainStep, OwnStep, ScriptStep, MonitorStep
<1> QED BY <1>1, <1>2, TypePlaced, PTL DEF Spec

\* An alarm that is up was raised by a thread that saw enough high samples in one run.
THEOREM AlarmsEarned == Spec => []AlarmEarned
BY LivesInvariant, PTL DEF Lives

\* Once the monitor of the current run has reset its flag, a wrong alarm can only come
\* from a monitor that was alive at the reset.
THEOREM ForeignAlarms == Spec => []ForeignAlarmOverlaps
<1>1. TypeOK /\ Placed /\ Lives => ForeignAlarmOverlaps
  <2> SUFFICES ASSUME TypeOK, Placed, Lives, NEW k \in Kinds, pc = "verdict",
                      monitor[loop][k].pc \in {"asleep", "checking", "ended"},
                      flag[k] # 0, flag[k] # loop
               PROVE  flag[k] \in monitor[loop][k].others
    BY DEF ForeignAlarmOverlaps
  <2>1. loop \in Loops /\ flag[k] \in Loops
    BY CountAssumption DEF TypeOK, Placed, Loops
  <2> QED BY <2>1 DEF Lives, Overlaps
<1> QED BY <1>1, TypePlaced, LivesInvariant, PTL

\* A monitor that starts when stopSoon is not empty never raises an alarm for load.
THEOREM LastLoopsUnwatched == Spec => []LastLoopUnwatched
<1>1. TypeOK /\ Lives => LastLoopUnwatched
  <2> SUFFICES ASSUME TypeOK, Lives, NEW k \in Sustained, NEW r \in Loops,
                      monitor[r][k].late, flag[k] = r
               PROVE  FALSE
    BY DEF LastLoopUnwatched
  <2>1. k \in Kinds /\ r # 0
    BY KindsAssumption DEF Loops
  <2>2. monitor[r][k].high >= Needed
    BY <2>1 DEF Lives, AlarmEarned
  <2>3. monitor[r][k].high <= 1
    BY <2>1 DEF Lives, OneSample
  <2>4. monitor[r][k].high \in Nat
    BY <2>1 DEF TypeOK, MonitorSet
  <2> QED BY <2>2, <2>3, <2>4, CountAssumption
<1> QED BY <1>1, TypePlaced, LivesInvariant, PTL

-----------------------------------------------------------------------------
(* Monitors whose run was cut short.                                       *)

\* A monitor that outlives its run without being told to stop is told by stopSoon, as
\* soon as the finally block or the SIGINT handler fills it.
THEOREM OrphansStopped == Spec => []OrphansBelongToShutdown
<1>1. Init => OrphansBelongToShutdown
  BY DEF Init, NoMonitor, OrphansBelongToShutdown, Alive
<1>2. TypeOK /\ Placed /\ OrphansBelongToShutdown /\ [Next]_vars => OrphansBelongToShutdown'
  <2> SUFFICES ASSUME TypeOK, Placed, OrphansBelongToShutdown, [Next]_vars
               PROVE  OrphansBelongToShutdown'
    OBVIOUS
  <2>1. CASE \/ SetUp \/ EnterLoop \/ EnterQueue \/ CheckStop \/ SkipSystemTest
             \/ RaiseInSystemTest \/ JudgeTestcase \/ JoinDisplay \/ WriteSummary
             \/ RaiseSystemExit \/ Interrupt
    BY <2>1 DEF SetUp, EnterLoop, EnterQueue, CheckStop, LeaveQueue, SkipSystemTest,
                RaiseInSystemTest, JudgeTestcase, JoinDisplay, WriteSummary,
                RaiseSystemExit, Interrupt, OrphansBelongToShutdown, Alive
  <2>2. CASE PutTimeLimit \/ PutFinally \/ PutInHandler
    BY <2>2 DEF PutTimeLimit, PutFinally, PutInHandler, OrphansBelongToShutdown
  <2>3. CASE StartSystemTest
    <3>1. loop \in Loops
      BY <2>3 DEF StartSystemTest, TypeOK, Placed, Loops
    <3>2. \A s \in Loops, j \in Kinds : s # loop => monitor'[s][j] = monitor[s][j]
      BY <2>3, <3>1, SpawnEffect
    <3>3. pc = "runTest" /\ pc' = "testing" /\ UNCHANGED <<loop, stopSoon, stopRun>>
      BY <2>3 DEF StartSystemTest
    <3> QED BY <3>2, <3>3 DEF OrphansBelongToShutdown, Alive
  <2>4. CASE EndSystemTest
    <3>1. /\ pc = "testing" /\ UNCHANGED <<loop, stopSoon, monitor>>
          /\ stopRun' = [stopRun EXCEPT ![loop] = TRUE]
      BY <2>4 DEF EndSystemTest, StopPut
    <3>2. loop \in Loops /\ stopRun \in [Loops -> BOOLEAN]
      BY <3>1 DEF TypeOK, Placed, Loops
    <3>3. stopRun'[loop] /\ \A s \in Loops : s # loop => stopRun'[s] = stopRun[s]
      BY <3>1, <3>2
    <3> QED BY <3>1, <3>3 DEF OrphansBelongToShutdown, Alive
  <2>5. CASE DrawBoard \/ UNCHANGED vars
    BY <2>5 DEF DrawBoard, main, vars, OrphansBelongToShutdown, Alive
  <2>6. ASSUME NEW r \in Loops, NEW k \in Kinds, MonitorStep(r, k)
        PROVE  OrphansBelongToShutdown'
    <3>1. UNCHANGED <<pc, loop, stopSoon, stopRun>>
      BY <2>6 DEF MonitorStep, StartMonitor, Sample, LookAtQueues, main
    <3>2. CASE StartMonitor(r, k)
      <4>1. \A s \in Loops, j \in Kinds : Alive(s, j)' => Alive(s, j)
        BY <3>2, StartEffect DEF Alive
      <4> QED BY <3>1, <4>1 DEF OrphansBelongToShutdown
    <3>3. CASE Sample(r, k)
      <4>1. \A s \in Loops, j \in Kinds : Alive(s, j)' => Alive(s, j)
        BY <3>3, SampleEffect DEF Alive
      <4> QED BY <3>1, <4>1 DEF OrphansBelongToShutdown
    <3>4. CASE LookAtQueues(r, k)
      <4>1. \A s \in Loops, j \in Kinds : Alive(s, j)' => Alive(s, j)
        BY <3>4, LookEffect DEF Alive
      <4> QED BY <3>1, <4>1 DEF OrphansBelongToShutdown
    <3> QED BY <2>6, <3>2, <3>3, <3>4 DEF MonitorStep
  <2> QED BY <2>1, <2>2, <2>3, <2>4, <2>5, <2>6 DEF Next, MainStep, OwnStep, ScriptStep
<1> QED BY <1>1, <1>2, TypePlaced, PTL DEF Spec
=============================================================================
