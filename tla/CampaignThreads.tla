-------------------------- MODULE CampaignThreads --------------------------
(***************************************************************************)
(* The threads of a campaign and how they stop: the main thread (Fuzzer),  *)
(* the thread that draws the display board (ShowStats.run), and the        *)
(* threads MonitorThread.threadMonitor starts for each system run, one per *)
(* kind of resource.  They share the queue stopSoon, one queue per run,    *)
(* and one static alarm flag per kind.                                     *)
(*                                                                         *)
(* None of the threads is a daemon: the interpreter exits only when every  *)
(* one of them has ended.  queue.Queue guards each of its methods with one *)
(* lock that is not reentrant, and a signal handler runs in the main       *)
(* thread between any two bytecodes, those inside such a method included.  *)
(*                                                                         *)
(* FuzzCampaign models what a loop computes; here a loop makes one system  *)
(* run or none, and only the order of its steps matters.                   *)
(***************************************************************************)
EXTENDS Naturals, FiniteSets

CONSTANTS
    Kinds,       \* the monitored resources: cpu, memory and the size of the logs
    Sustained,   \* those whose alarm needs Needed high samples: cpu and memory
    Needed,      \* 5 in the code
    FuzzingLoop, \* fuzzing_loop
    MaxSigint    \* bound: the number of SIGINTs

ASSUME KindsAssumption == Sustained \subseteq Kinds
ASSUME CountAssumption ==
    /\ Needed \in Nat \ {0, 1}
    /\ FuzzingLoop \in Nat \ {0}
    /\ MaxSigint \in Nat

Loops == 1..FuzzingLoop

VARIABLES
    pc,       \* where the main thread is
    after,    \* where the SystemExit of the SIGINT handler will lead it
    held,     \* the main thread is inside a method of stopSoon
    loop,     \* the number of the current loop
    stopSoon, \* stopSoon is not empty
    sigints,  \* the SIGINTs so far
    stopRun,  \* stopRun[r]: the queue of run r is not empty
    flag,     \* flag[k]: 0 for False, else the run whose thread set it to True
    monitor,  \* monitor[r][k]: the thread of run r for kind k
    display   \* the display thread

vars == <<pc, after, held, loop, stopSoon, sigints, stopRun, flag, monitor, display>>
main == <<pc, after, held, loop, sigints>>

PCs == {"setup", "enter", "timeLimit", "runTest", "testing", "verdict", "check", "join",
        "finally", "summary", "exit", "handler", "raising", "deadlocked"}

\* high counts the high samples up to Needed; others are the older threads of the kind
\* that were alive when this one reset the flag, and late says that stopSoon was not
\* empty then (both auxiliary).
MonitorSet == [pc : {"none", "started", "asleep", "checking", "ended"},
               high : 0..Needed, others : SUBSET Loops, late : BOOLEAN]
NoMonitor == [pc |-> "none", high |-> 0, others |-> {}, late |-> FALSE]

Init ==
    /\ pc = "setup" /\ after = "exit" /\ held = FALSE /\ loop = 0
    /\ stopSoon = FALSE /\ sigints = 0
    /\ stopRun = [r \in Loops |-> FALSE]
    /\ flag = [k \in Kinds |-> 0]
    /\ monitor = [r \in Loops |-> [k \in Kinds |-> NoMonitor]]
    /\ display = "running"

Alive(r, k) == monitor[r][k].pc \in {"started", "asleep", "checking"}

-----------------------------------------------------------------------------
(* The main thread, up to a system run.                                    *)

\* The old result directories are deleted after the display thread is started and
\* before the try: an error there ends the main thread without a word to stopSoon.
SetUp ==
    /\ pc = "setup"
    /\ pc' \in {"enter", "exit"}
    /\ UNCHANGED <<after, held, loop, stopSoon, sigints, stopRun, flag, monitor, display>>

\* Mutant: one loop too many.
OneLoopTooMany(n) == n <= FuzzingLoop

\* range(fuzzingLoop)
LoopsLeft(n) == n < FuzzingLoop

\* The for statement of Fuzzer.run.
EnterLoop ==
    /\ pc = "enter"
    /\ IF LoopsLeft(loop) THEN pc' = "check" ELSE pc' = "finally"
    /\ UNCHANGED <<after, held, loop, stopSoon, sigints, stopRun, flag, monitor, display>>

\* Entering stopSoon.empty() or stopSoon.put(): the lock of the queue.
EnterQueue ==
    /\ pc \in {"check", "timeLimit", "finally", "handler"} /\ ~held
    /\ held' = TRUE
    /\ UNCHANGED <<pc, after, loop, stopSoon, sigints, stopRun, flag, monitor, display>>

LeaveQueue(at) == pc = at /\ held /\ held' = FALSE

CheckStop ==
    /\ LeaveQueue("check")
    /\ IF stopSoon THEN pc' = "join" /\ loop' = loop
                   ELSE pc' \in {"timeLimit", "runTest"} /\ loop' = loop + 1
    /\ UNCHANGED <<after, stopSoon, sigints, stopRun, flag, monitor, display>>

\* The time limit is up: the loop goes on all the same.
PutTimeLimit ==
    /\ LeaveQueue("timeLimit")
    /\ stopSoon' = TRUE
    /\ pc' = "runTest"
    /\ UNCHANGED <<after, loop, sigints, stopRun, flag, monitor, display>>

\* The test case does not reach the system test, or the loop raises on the way to it.
SkipSystemTest ==
    /\ pc = "runTest"
    /\ pc' \in {"enter", "finally"}
    /\ UNCHANGED <<after, held, loop, stopSoon, sigints, stopRun, flag, monitor, display>>

StartSystemTest ==
    /\ pc = "runTest"
    /\ monitor' = [monitor EXCEPT ![loop] = [k \in Kinds |-> [@[k] EXCEPT !.pc = "started"]]]
    /\ pc' = "testing"
    /\ UNCHANGED <<after, held, loop, stopSoon, sigints, stopRun, flag, display>>

\* Mutant: the monitors of the run are not told.
StopForgotten(queues, r) == queues

\* stop.put(1), the queue of the run.
StopPut(queues, r) == [queues EXCEPT ![r] = TRUE]

\* The test script has returned.
EndSystemTest ==
    /\ pc = "testing"
    /\ stopRun' = StopPut(stopRun, loop)
    /\ pc' = "verdict"
    /\ UNCHANGED <<after, held, loop, stopSoon, sigints, flag, monitor, display>>

\* subprocess.run raises, on output it cannot decode for one: nothing is put into the
\* queue of the run, and the campaign is over.
RaiseInSystemTest ==
    /\ pc = "testing"
    /\ pc' = "finally"
    /\ UNCHANGED <<after, held, loop, stopSoon, sigints, stopRun, flag, monitor, display>>

\* TestValidator.runTest reads the flags while it is here.  The classification of a
\* startup failure raises (FuzzCampaign!Raises).
JudgeTestcase ==
    /\ pc = "verdict"
    /\ pc' \in {"enter", "finally"}
    /\ UNCHANGED <<after, held, loop, stopSoon, sigints, stopRun, flag, monitor, display>>

-----------------------------------------------------------------------------
(* The main thread, stopping.                                              *)

JoinDisplay ==
    /\ pc = "join" /\ display = "ended"
    /\ pc' = "finally"
    /\ UNCHANGED <<after, held, loop, stopSoon, sigints, stopRun, flag, monitor, display>>

PutFinally ==
    /\ LeaveQueue("finally")
    /\ stopSoon' = TRUE
    /\ pc' = "summary"
    /\ UNCHANGED <<after, loop, sigints, stopRun, flag, monitor, display>>

WriteSummary ==
    /\ pc = "summary"
    /\ pc' = "exit"
    /\ UNCHANGED <<after, held, loop, stopSoon, sigints, stopRun, flag, monitor, display>>

\* SystemExit leaves through the finally block, unless it is raised before the try or
\* in the finally block itself.
ExitPath ==
    CASE pc \in {"setup", "finally", "summary"} -> "exit"
      [] pc \in {"handler", "raising"} -> after
      [] OTHER -> "finally"

\* SIGINT, at any point of the main thread before the interpreter waits for the other
\* threads.  Inside a method of stopSoon the handler's own put waits for the lock that
\* the interrupted method holds.
Interrupt ==
    /\ pc \notin {"exit", "deadlocked"} /\ sigints < MaxSigint
    /\ sigints' = sigints + 1
    /\ after' = ExitPath
    /\ pc' = IF held THEN "deadlocked" ELSE "handler"
    /\ UNCHANGED <<held, loop, stopSoon, stopRun, flag, monitor, display>>

PutInHandler ==
    /\ LeaveQueue("handler")
    /\ stopSoon' = TRUE
    /\ pc' = "raising"
    /\ UNCHANGED <<after, loop, sigints, stopRun, flag, monitor, display>>

RaiseSystemExit ==
    /\ pc = "raising"
    /\ pc' = after
    /\ UNCHANGED <<after, held, loop, stopSoon, sigints, stopRun, flag, monitor, display>>

-----------------------------------------------------------------------------
(* The display thread and the monitor threads.  Each of their calls on     *)
(* stopSoon is one step: nothing interrupts them inside it.                *)

DrawBoard ==
    /\ display = "running" /\ ~held
    /\ display' = IF stopSoon THEN "ended" ELSE "running"
    /\ UNCHANGED <<main, stopSoon, stopRun, flag, monitor>>

\* Mutant: the flag keeps the alarm of an earlier run.
FlagKept(flags, k) == flags

\* "init the flag"
FlagReset(flags, k) == [flags EXCEPT ![k] = 0]

StartMonitor(r, k) ==
    /\ monitor[r][k].pc = "started"
    /\ flag' = FlagReset(flag, k)
    /\ monitor' = [monitor EXCEPT ![r][k] =
                      [@ EXCEPT !.pc = "asleep", !.late = stopSoon,
                                !.others = {s \in Loops \ {r} : Alive(s, k)}]]
    /\ UNCHANGED <<main, stopSoon, stopRun, display>>

Capped(n) == IF n < Needed THEN n ELSE Needed

\* Mutant: one high sample is as good as five.
SustainedOnce(high) == high >= 1

\* isContinue: the high samples of the run are counted, whether or not they are
\* consecutive, and the latest sample need not be one of them.
IsContinue(high) == high >= Needed

\* One turn after the two seconds of sleep.
Sample(r, k) ==
    /\ monitor[r][k].pc = "asleep"
    /\ \E isHigh \in BOOLEAN :
          LET high == Capped(monitor[r][k].high + (IF isHigh THEN 1 ELSE 0))
              raised == IF k \in Sustained THEN IsContinue(high) ELSE isHigh
          IN  /\ flag' = [flag EXCEPT ![k] = IF raised THEN r ELSE @]
              /\ monitor' = [monitor EXCEPT ![r][k] = [@ EXCEPT !.pc = "checking", !.high = high]]
    /\ UNCHANGED <<main, stopSoon, stopRun, display>>

\* Mutant: only the queue of the run ends the thread.
SeesStopOfRun(r) == stopRun[r]

\* The queue of the run, then stopSoon.
SeesStop(r) == stopRun[r] \/ stopSoon

LookAtQueues(r, k) ==
    /\ monitor[r][k].pc = "checking"
    /\ stopRun[r] \/ ~held
    /\ monitor' = [monitor EXCEPT ![r][k].pc = IF SeesStop(r) THEN "ended" ELSE "asleep"]
    /\ UNCHANGED <<main, stopSoon, stopRun, flag, display>>

-----------------------------------------------------------------------------
\* The steps that the main thread takes by itself.
OwnStep == \/ SetUp \/ EnterLoop \/ EnterQueue \/ CheckStop \/ PutTimeLimit
           \/ SkipSystemTest \/ StartSystemTest \/ JudgeTestcase \/ JoinDisplay
           \/ PutFinally \/ WriteSummary \/ PutInHandler \/ RaiseSystemExit

\* Those that wait for the test script.
ScriptStep == EndSystemTest \/ RaiseInSystemTest

MainStep == OwnStep \/ ScriptStep

MonitorStep(r, k) == StartMonitor(r, k) \/ Sample(r, k) \/ LookAtQueues(r, k)

Next == \/ MainStep
        \/ Interrupt
        \/ DrawBoard
        \/ \E r \in Loops, k \in Kinds : MonitorStep(r, k)

Spec == Init /\ [][Next]_vars

\* The scheduler runs every thread that can run.  The main thread takes the lock of
\* stopSoon a bounded number of times, so weak fairness is enough for the others.  The
\* test script is not one of these threads: subprocess.run has no timeout, and nothing
\* is assumed of its return.
FairSpec ==
    /\ Spec
    /\ WF_vars(OwnStep)
    /\ WF_vars(DrawBoard)
    /\ \A r \in Loops, k \in Kinds : WF_vars(MonitorStep(r, k))

-----------------------------------------------------------------------------
(* Properties.                                                             *)

\* Every variable keeps its type.
TypeOK ==
    /\ pc \in PCs /\ after \in {"finally", "exit"} /\ held \in BOOLEAN
    /\ loop \in 0..FuzzingLoop
    /\ stopSoon \in BOOLEAN /\ sigints \in 0..MaxSigint
    /\ stopRun \in [Loops -> BOOLEAN]
    /\ flag \in [Kinds -> 0..FuzzingLoop]
    /\ monitor \in [Loops -> [Kinds -> MonitorSet]]
    /\ display \in {"running", "ended"}

\* An alarm that is up was earned: the thread that raised it saw a high sample, and
\* for cpu and memory as many as isContinue wants, in that one run.
AlarmEarned ==
    \A k \in Kinds : flag[k] # 0 =>
        monitor[flag[k]][k].high >= (IF k \in Sustained THEN Needed ELSE 1)

\* Where a wrong alarm can come from.  Once the monitor of the current run has reset
\* its flag, an alarm from another run was raised by a thread that was still alive at
\* the reset: a run whose predecessors' monitors have ended is judged by its own
\* samples only.
ForeignAlarmOverlaps ==
    \A k \in Kinds :
        pc = "verdict" /\ monitor[loop][k].pc \in {"asleep", "checking", "ended"}
            => flag[k] \in {0, loop} \cup monitor[loop][k].others

\* The last loop of a campaign that ran out of time is not watched for load: its
\* monitors find stopSoon filled after their first sample and end.
LastLoopUnwatched ==
    \A k \in Sustained, r \in Loops : monitor[r][k].late => flag[k] # r

\* A monitor that lives on after its run has a reason: until the queue of the run is
\* filled the run goes on, or it was cut short, and then stopSoon will be filled.
OrphansBelongToShutdown ==
    \A r \in Loops, k \in Kinds :
        Alive(r, k) /\ ~stopRun[r] =>
            \/ pc = "testing" /\ r = loop
            \/ pc \in {"handler", "deadlocked", "finally"}
            \/ stopSoon

\* The interpreter can exit: the main thread and every other thread have ended.
AllEnded ==
    /\ pc = "exit" /\ display = "ended"
    /\ \A r \in Loops, k \in Kinds : ~Alive(r, k)

\* Two ways a campaign hangs: SIGINT inside a method of stopSoon, and an error while
\* the old results are deleted, which nobody tells the display thread.
Hung == pc = "deadlocked" \/ (pc = "exit" /\ ~stopSoon)

\* The third: a test script that never returns, with no SIGINT to end the wait.
WaitsForScript == pc = "testing"

\* Every campaign's process exits in the end, however it stops, but for these three.
ExitsOrHangs == <>(AllEnded \/ Hung) \/ <>[]WaitsForScript

\* The flag is initialised for each run: a test case is judged by an alarm of its own
\* run only.
AlarmOfThisRun ==
    \A k \in Kinds : pc = "verdict" => flag[k] \in {0, loop}
=============================================================================
