------------------------------- MODULE UnitRun -------------------------------
(***************************************************************************)
(* The unit tests of one test case: UnitTester.preKillRun starts Maven in  *)
(* a session of its own, follows the file its output goes to, and kills it *)
(* at the first failed test class or when it takes too long; then          *)
(* TestValidator.runTest looks for a Maven that is still there.            *)
(*                                                                         *)
(* Two processes that share a growing file and an exit code: every look of *)
(* the reader at either of them is a step of its own.  One line of the     *)
(* output stands for the summary of one test class ("Tests run: ...").     *)
(***************************************************************************)
EXTENDS Naturals, Sequences

CONSTANTS
    MaxClasses,  \* the test classes Maven runs at most
    IdleTimeout, \* idle_timeout, in ticks: without a line for this long Maven is killed
    HardTimeout  \* hard_timeout: at least four times as long

ASSUME ClassesAssumption == MaxClasses \in Nat \ {0}
ASSUME TimeoutAssumption ==
    /\ IdleTimeout \in Nat \ {0} /\ HardTimeout \in Nat
    /\ HardTimeout >= IdleTimeout

VARIABLES
    pc,        \* where the main thread is
    injected,  \* the mutated values are in the files Maven's tests read
    maven,     \* the process Maven: "none", "running", "dying" (SIGKILL sent) or "exited"
    code,      \* its exit code, once it has exited: 0, or 1 for any other
    lines,     \* the complete lines of the output file
    half,      \* the beginning of one more line is in the file
    pos,       \* the lines the reader is past
    torn,      \* it has already taken the beginning of the next one
    now,       \* seconds since the start
    progress,  \* last_progress_time
    status,    \* unitResult.status
    why,       \* unitResult.description, one word for each text
    counted    \* cur_total_unit_test

vars == <<pc, injected, maven, code, lines, half, pos, torn, now, progress, status, why,
          counted>>
process == <<maven, code, lines, half>>
reader == <<pos, torn, progress, counted>>
verdict == <<status, why>>

PCs == {"start", "top", "read", "pollHard", "pollIdle", "pollFailed", "pollEmpty",
        "killHard", "killIdle", "killFailed", "cleanup", "lookForMaven",
        "systemTest", "exited", "aborted"}
Whys == {"notSet", "noMappedTests", "normal", "exitCode",
         "hardTimeout", "idleTimeout", "preKill"}

Init ==
    /\ pc = "start" /\ injected = FALSE
    /\ maven = "none" /\ code = 0 /\ lines = <<>> /\ half = FALSE
    /\ pos = 0 /\ torn = FALSE /\ now = 0 /\ progress = 0
    /\ status = 0 /\ why = "notSet" /\ counted = 0

-----------------------------------------------------------------------------
(* Maven.                                                                  *)

StartLine ==
    /\ maven = "running" /\ ~half /\ Len(lines) < MaxClasses
    /\ half' = TRUE
    /\ UNCHANGED <<pc, injected, maven, code, lines, reader, now, verdict>>

EndLine ==
    /\ maven = "running" /\ half
    /\ \E result \in {"pass", "fail"} : lines' = Append(lines, result)
    /\ half' = FALSE
    /\ UNCHANGED <<pc, injected, maven, code, reader, now, verdict>>

AllPassed(results) == \A i \in DOMAIN results : results[i] = "pass"

\* Maven ends with 0 only when no test class failed; it may fail for another reason at
\* any time.
ExitMaven ==
    /\ maven = "running"
    /\ \/ ~half /\ AllPassed(lines) /\ code' = 0
       \/ code' = 1
    /\ maven' = "exited"
    /\ UNCHANGED <<pc, injected, lines, half, reader, now, verdict>>

\* SIGKILL takes effect some time after it was sent.
DieMaven ==
    /\ maven = "dying"
    /\ maven' = "exited" /\ code' = 1
    /\ UNCHANGED <<pc, injected, lines, half, reader, now, verdict>>

Tick ==
    /\ now < HardTimeout
    /\ now' = now + 1
    /\ UNCHANGED <<pc, injected, process, reader, verdict>>

-----------------------------------------------------------------------------
(* preKillRun.                                                             *)

NoMappedTests ==
    /\ pc = "start"
    /\ why' = "noMappedTests"
    /\ pc' = "lookForMaven"
    /\ UNCHANGED <<injected, process, reader, now, status>>

InjectAndStart ==
    /\ pc = "start"
    /\ injected' = TRUE
    /\ maven' = "running"
    /\ progress' = now
    /\ pc' = "top"
    /\ UNCHANGED <<code, lines, half, pos, torn, counted, now, verdict>>

\* Mutant: only silence is timed.
HardTimeoutIgnored(time) == FALSE

HardTimeoutUp(time) == time >= HardTimeout

\* One turn of the loop: the two timeouts, then the next piece of output.
CheckTimeouts ==
    /\ pc = "top"
    /\ pc' = IF HardTimeoutUp(now) THEN "pollHard"
             ELSE IF now - progress >= IdleTimeout THEN "pollIdle"
             ELSE "read"
    /\ UNCHANGED <<injected, process, reader, now, verdict>>

\* Mutant: what is left of a torn line is taken for a failure.
LooksFailedIfTorn(wasTorn, result) == wasTorn \/ result = "fail"

\* deal_line_info: a line torn before its last words looks like no summary, neither its
\* beginning nor its rest.  Left out is a line torn before its first words, whose rest the
\* code takes for the summary it is; either way the class is counted once at most.
LooksFailed(wasTorn, result) == ~wasTorn /\ result = "fail"

\* Mutant: a failed class is counted here and again when the loop ends.
CountOfAny(wasTorn, result) == IF wasTorn THEN 0 ELSE 1

CountOf(wasTorn, result) == IF wasTorn \/ result = "fail" THEN 0 ELSE 1

\* Mutant: the silence counts from the next second on.
NextSecond(time) == time + 1

\* last_progress_time = time.time()
ProgressAt(time) == time

\* readline returns a complete line, what there is of an incomplete one, or nothing.
ReadLine ==
    /\ pc = "read" /\ pos < Len(lines)
    /\ pos' = pos + 1 /\ torn' = FALSE
    /\ progress' = ProgressAt(now)
    /\ counted' = counted + CountOf(torn, lines[pos + 1])
    /\ pc' = IF LooksFailed(torn, lines[pos + 1]) THEN "pollFailed" ELSE "top"
    /\ UNCHANGED <<injected, process, now, verdict>>

ReadBeginning ==
    /\ pc = "read" /\ pos = Len(lines) /\ half /\ ~torn
    /\ torn' = TRUE
    /\ progress' = ProgressAt(now)
    /\ pc' = "top"
    /\ UNCHANGED <<injected, process, pos, counted, now, verdict>>

\* A line that is no summary: Maven writes any number of them.
ReadOtherLine ==
    /\ pc = "read" /\ maven = "running" /\ ~half
    /\ progress' = ProgressAt(now)
    /\ pc' = "top"
    /\ UNCHANGED <<injected, process, pos, torn, counted, now, verdict>>

ReadNothing ==
    /\ pc = "read" /\ pos = Len(lines) /\ (half => torn)
    /\ pc' = "pollEmpty"
    /\ UNCHANGED <<injected, process, reader, now, verdict>>

\* process.poll() is None.
Running == maven \in {"running", "dying"}

\* Mutant: whatever the exit code, the run was normal.
AlwaysNormal(exitCode) == <<0, "normal">>

OfExitCode(exitCode) ==
    IF exitCode = 0 THEN <<0, "normal">> ELSE <<1, "exitCode">>

\* A failed class, or the one that was running at a timeout.
CountOneMore(n) == n + 1

\* A poll that finds Maven gone takes its exit code; one that finds it running goes on
\* to kill it, or, at the end of the file, goes on reading.
Poll(at, ifRunning) ==
    /\ pc = at
    /\ IF Running THEN pc' = ifRunning /\ UNCHANGED verdict
       ELSE /\ status' = OfExitCode(code)[1] /\ why' = OfExitCode(code)[2]
            /\ pc' = "cleanup"
    /\ UNCHANGED <<injected, process, pos, torn, progress, now>>

PollHard == Poll("pollHard", "killHard") /\ UNCHANGED counted
PollIdle == Poll("pollIdle", "killIdle") /\ UNCHANGED counted
PollEmpty == Poll("pollEmpty", "top") /\ UNCHANGED counted
PollFailed ==
    /\ Poll("pollFailed", "killFailed")
    /\ counted' = IF Running THEN counted ELSE CountOneMore(counted)

\* Mutant: the signal goes to nobody.
NotKilled(process_state) == process_state

\* kill_process_group; a process that has just exited stays exited.
Killed(process_state) == IF process_state = "running" THEN "dying" ELSE process_state

\* Maven may have exited since the poll: the verdict is that of a killed run.
Kill(at, description) ==
    /\ pc = at
    /\ maven' = Killed(maven)
    /\ status' = 1 /\ why' = description
    /\ counted' = CountOneMore(counted)
    /\ pc' = "cleanup"
    /\ UNCHANGED <<injected, code, lines, half, pos, torn, progress, now>>

KillHard == Kill("killHard", "hardTimeout")
KillIdle == Kill("killIdle", "idleTimeout")
KillFailed == Kill("killFailed", "preKill")

\* clean_config; a count of zero becomes that of the reports, or of the tests asked for.
CleanUp ==
    /\ pc = "cleanup"
    /\ injected' = FALSE
    /\ \E n \in 1..MaxClasses : counted' = IF counted = 0 THEN n ELSE counted
    /\ pc' = "lookForMaven"
    /\ UNCHANGED <<process, pos, torn, progress, now, verdict>>

\* ps -ef | grep maven
LookForMaven ==
    /\ pc = "lookForMaven"
    /\ pc' = IF Running THEN "exited" ELSE "systemTest"
    /\ UNCHANGED <<injected, process, reader, now, verdict>>

\* SIGINT: SystemExit leaves preKillRun as it is.  Maven, in a session of its own, is
\* not told.
Interrupt ==
    /\ pc \notin {"systemTest", "exited", "aborted"}
    /\ pc' = "aborted"
    /\ UNCHANGED <<injected, process, reader, now, verdict>>

-----------------------------------------------------------------------------
MavenStep == StartLine \/ EndLine \/ ExitMaven \/ DieMaven

Read == ReadLine \/ ReadBeginning \/ ReadOtherLine \/ ReadNothing
PollStep == PollHard \/ PollIdle \/ PollEmpty \/ PollFailed
KillStep == KillHard \/ KillIdle \/ KillFailed

ReaderStep == \/ NoMappedTests \/ InjectAndStart \/ CheckTimeouts \/ Read
              \/ PollStep \/ KillStep \/ CleanUp \/ LookForMaven

Next == MavenStep \/ Tick \/ ReaderStep \/ Interrupt

Spec == Init /\ [][Next]_vars

\* The reader runs and time passes.  Maven may hang, and may write for ever.
FairSpec == Spec /\ WF_vars(ReaderStep) /\ WF_vars(Tick)

-----------------------------------------------------------------------------
(* Properties.                                                             *)

\* Every variable keeps its type; the reader never runs ahead of the file.
TypeOK ==
    /\ pc \in PCs /\ injected \in BOOLEAN
    /\ maven \in {"none", "running", "dying", "exited"} /\ code \in {0, 1}
    /\ lines \in Seq({"pass", "fail"}) /\ half \in BOOLEAN
    /\ pos \in 0..Len(lines) /\ torn \in BOOLEAN
    /\ now \in 0..HardTimeout /\ progress \in 0..now
    /\ status \in {0, 1} /\ why \in Whys /\ counted \in Nat

Finished == pc \in {"cleanup", "lookForMaven", "systemTest", "exited"}

\* A run that passes is the run of a Maven that ended by itself with 0, so of one in
\* which no test class failed: no line torn between two reads, unread at the exit or
\* overtaken by a timeout makes a failing run pass.
PassMeansPassed ==
    Finished /\ status = 0 /\ maven # "none" => maven = "exited" /\ AllPassed(lines)

\* A pre-kill has a reason in the output: a complete line of a failed test class.
PreKillHasReason ==
    why = "preKill" => \E i \in 1..pos : lines[i] = "fail"

\* Every class whose line was read is counted at most once, however it was read, and a
\* timeout adds one.
CountedOnce ==
    pc = "cleanup" =>
        \/ counted <= pos
        \/ why \in {"hardTimeout", "idleTimeout"} /\ counted <= pos + 1

\* The look for a left-over Maven ends the campaign only when the reader has sent
\* SIGKILL and the process has not gone yet: preKillRun never returns past a Maven it
\* has left running.
LeftOverIsDying ==
    pc \in {"lookForMaven", "exited"} => maven # "running"

\* preKillRun returns, whatever Maven does: writing for ever puts off the idle timeout
\* but not the hard one.
Returns == <>(pc \in {"systemTest", "exited", "aborted"})

-----------------------------------------------------------------------------
(* The gate.                                                               *)

GatePhase ==
    CASE pc = "start" -> "idle"
      [] pc = "lookForMaven" -> "judged"
      [] pc = "systemTest" -> "system"
      [] pc \in {"exited", "aborted"} -> "ended"
      [] OTHER -> "unit"

Gate == INSTANCE UnitGate WITH
    phase <- GatePhase, alive <- Running, injected <- injected,
    failing <- ~AllPassed(lines), verdict <- status

\* preKillRun implements the gate: a failed class, read or not, makes the verdict a
\* failure, and the system test starts with no Maven and no injected value left.
ImplementsGate == Gate!Spec
=============================================================================
