---------------------------- MODULE UnitRun_proofs ----------------------------
(***************************************************************************)
(* Theorems about UnitRun, for any number of test classes and any          *)
(* timeouts.                                                               *)
(***************************************************************************)
EXTENDS UnitRun, TLAPS

Results == {"pass", "fail"}

-----------------------------------------------------------------------------
(* Lemmas about the output file.                                           *)

\* A new line leaves the others where they are.
LEMMA LinesKept ==
    ASSUME NEW ls \in Seq(Results), NEW result \in Results
    PROVE  /\ Append(ls, result) \in Seq(Results)
           /\ Len(Append(ls, result)) = Len(ls) + 1
           /\ \A i \in 1..Len(ls) : Append(ls, result)[i] = ls[i]
OBVIOUS

-----------------------------------------------------------------------------
(* Types.                                                                  *)

\* Every variable keeps its type: the reader never runs ahead of the file, and the last
\* progress is never in the future.
THEOREM RunTyping == Spec => []TypeOK
<1>1. Init => TypeOK
  <2>1. Init => /\ pos \in 0..Len(lines) /\ lines \in Seq({"pass", "fail"})
                /\ now \in 0..HardTimeout /\ progress \in 0..now
    BY TimeoutAssumption DEF Init
  <2>2. Init => pc \in PCs /\ why \in Whys
    BY DEF Init, PCs, Whys
  <2>3. Init => /\ injected \in BOOLEAN /\ half \in BOOLEAN /\ torn \in BOOLEAN
    BY Zenon DEF Init
  <2>4. Init => code \in {0, 1} /\ status \in {0, 1} /\ counted \in Nat
    BY DEF Init
  <2>5. Init => maven \in {"none", "running", "dying", "exited"}
    BY DEF Init
  <2> QED BY <2>1, <2>2, <2>3, <2>4, <2>5 DEF TypeOK
<1>2. TypeOK /\ [Next]_vars => TypeOK'
  <2> SUFFICES ASSUME TypeOK, [Next]_vars
               PROVE  TypeOK'
    OBVIOUS
  <2> USE TimeoutAssumption
  <2>1. CASE StartLine
    BY <2>1 DEF StartLine, reader, verdict, TypeOK
  <2>2. CASE EndLine
    <3>1. PICK result \in Results : lines' = Append(lines, result)
      BY <2>2 DEF EndLine, Results
    <3>2. lines' \in Seq(Results) /\ Len(lines') = Len(lines) + 1
      BY <3>1, LinesKept DEF TypeOK, Results
    <3>3. pos' \in 0..Len(lines')
      BY <2>2, <3>2 DEF EndLine, reader, TypeOK
    <3> QED BY <2>2, <3>2, <3>3 DEF EndLine, reader, verdict, TypeOK, Results
  <2>3. CASE ExitMaven
    BY <2>3 DEF ExitMaven, reader, verdict, TypeOK
  <2>4. CASE DieMaven
    BY <2>4 DEF DieMaven, reader, verdict, TypeOK
  <2>5. CASE Tick
    BY <2>5 DEF Tick, process, reader, verdict, TypeOK
  <2>6. CASE NoMappedTests
    BY <2>6 DEF NoMappedTests, process, reader, TypeOK, PCs, Whys
  <2>7. CASE InjectAndStart
    BY <2>7 DEF InjectAndStart, verdict, TypeOK, PCs
  <2>8. CASE CheckTimeouts
    BY <2>8 DEF CheckTimeouts, process, reader, verdict, TypeOK, PCs
  <2>9. CASE ReadLine
    <3>1. CountOf(torn, lines[pos + 1]) \in Nat
      BY DEF CountOf
    <3>2. counted' \in Nat /\ pos' \in 0..Len(lines) /\ progress' \in 0..now
      BY <2>9, <3>1 DEF ReadLine, TypeOK, ProgressAt
    <3>3. pc' \in PCs
      BY <2>9 DEF ReadLine, PCs
    <3> QED BY <2>9, <3>2, <3>3 DEF ReadLine, process, verdict, TypeOK
  <2>10. CASE ReadBeginning
    BY <2>10 DEF ReadBeginning, process, verdict, TypeOK, PCs, ProgressAt
  <2>11. CASE ReadOtherLine
    BY <2>11 DEF ReadOtherLine, process, verdict, TypeOK, PCs, ProgressAt
  <2>12. CASE ReadNothing
    BY <2>12 DEF ReadNothing, process, reader, verdict, TypeOK, PCs
  <2>13. CASE PollStep
    BY <2>13 DEF PollStep, PollHard, PollIdle, PollEmpty, PollFailed, Poll, OfExitCode,
                 CountOneMore, process, verdict, TypeOK, PCs, Whys
  <2>14. CASE KillStep
    BY <2>14 DEF KillStep, KillHard, KillIdle, KillFailed, Kill, Killed, CountOneMore,
                 TypeOK, PCs, Whys
  <2>15. CASE CleanUp
    <3>1. counted' \in Nat
      BY <2>15, ClassesAssumption DEF CleanUp, TypeOK
    <3> QED BY <2>15, <3>1 DEF CleanUp, process, verdict, TypeOK, PCs
  <2>16. CASE LookForMaven
    BY <2>16 DEF LookForMaven, process, reader, verdict, TypeOK, PCs
  <2>17. CASE Interrupt
    BY <2>17 DEF Interrupt, process, reader, verdict, TypeOK, PCs
  <2>18. CASE UNCHANGED vars
    BY <2>18 DEF vars, TypeOK
  <2> QED BY <2>1, <2>2, <2>3, <2>4, <2>5, <2>6, <2>7, <2>8, <2>9, <2>10, <2>11, <2>12, <2>13,
             <2>14, <2>15, <2>16, <2>17, <2>18 DEF Next, MavenStep, ReaderStep, Read
<1> QED BY <1>1, <1>2, PTL DEF Spec

-----------------------------------------------------------------------------
(* The verdict.                                                            *)

\* Where Maven is when the main thread is where it is.
MavenPlaced ==
    /\ pc = "start" => maven = "none"
    /\ Finished => maven # "running"
    /\ maven = "exited" /\ code = 0 => AllPassed(lines)

Sound == MavenPlaced /\ PassMeansPassed

\* A pass is the exit code 0 of a Maven none of whose test classes failed, and that code
\* is taken only once Maven has exited, when the file no longer changes.
LEMMA SoundInvariant == Spec => []Sound
<1>1. Init => Sound
  BY DEF Init, Sound, MavenPlaced, PassMeansPassed, Finished
<1>2. TypeOK /\ Sound /\ [Next]_vars => Sound'
  <2> SUFFICES ASSUME TypeOK, Sound, [Next]_vars
               PROVE  Sound'
    OBVIOUS
  <2> USE DEF Sound, MavenPlaced, PassMeansPassed, Finished
  <2>1. CASE StartLine
    BY <2>1 DEF StartLine, verdict
  <2>2. CASE EndLine
    BY <2>2 DEF EndLine, verdict
  <2>3. CASE ExitMaven
    BY <2>3 DEF ExitMaven, verdict
  <2>4. CASE DieMaven
    BY <2>4 DEF DieMaven, verdict
  <2>5. CASE Tick
    BY <2>5 DEF Tick, process, verdict
  <2>6. CASE NoMappedTests
    BY <2>6 DEF NoMappedTests, process
  <2>7. CASE InjectAndStart
    BY <2>7 DEF InjectAndStart, verdict
  <2>8. CASE CheckTimeouts
    BY <2>8 DEF CheckTimeouts, process, verdict
  <2>9. CASE Read
    BY <2>9 DEF Read, ReadLine, ReadBeginning, ReadOtherLine, ReadNothing, process, verdict
  <2>10. CASE PollStep
    BY <2>10 DEF PollStep, PollHard, PollIdle, PollEmpty, PollFailed, Poll, OfExitCode,
                 Running, process, verdict, TypeOK
  <2>11. CASE KillStep
    <3>1. maven' # "running" /\ status' = 1 /\ pc' = "cleanup" /\ UNCHANGED <<code, lines>>
      BY <2>11 DEF KillStep, KillHard, KillIdle, KillFailed, Kill, Killed
    <3>2. maven' = "exited" => maven = "exited"
      BY <2>11 DEF KillStep, KillHard, KillIdle, KillFailed, Kill, Killed
    <3> QED BY <3>1, <3>2
  <2>12. CASE CleanUp
    BY <2>12 DEF CleanUp, process, verdict
  <2>13. CASE LookForMaven
    BY <2>13 DEF LookForMaven, process, verdict
  <2>14. CASE Interrupt
    BY <2>14 DEF Interrupt, process, verdict
  <2>15. CASE UNCHANGED vars
    BY <2>15 DEF vars
  <2> QED BY <2>1, <2>2, <2>3, <2>4, <2>5, <2>6, <2>7, <2>8, <2>9, <2>10, <2>11, <2>12, <2>13,
             <2>14, <2>15 DEF Next, MavenStep, ReaderStep
<1> QED BY <1>1, <1>2, RunTyping, PTL DEF Spec

\* A failing run never passes, however its output was read.
THEOREM PassesSound == Spec => []PassMeansPassed
BY SoundInvariant, PTL DEF Sound

\* preKillRun leaves no Maven behind that it has not sent SIGKILL.
THEOREM NoneLeftRunning == Spec => []LeftOverIsDying
<1>1. Sound => LeftOverIsDying
  BY DEF Sound, MavenPlaced, LeftOverIsDying, Finished
<1> QED BY <1>1, SoundInvariant, PTL

-----------------------------------------------------------------------------
(* The pre-kill and the count.                                             *)

\* While the reader acts on a failed class, that class is among the lines it is past and
\* is not counted yet.
Reasoned ==
    /\ pc \in {"pollFailed", "killFailed"} \/ why = "preKill" =>
          \E i \in 1..pos : lines[i] = "fail"
    /\ pc \in {"start", "top", "read", "pollHard", "pollIdle", "pollEmpty", "killHard", "killIdle"} =>
          counted <= pos
    /\ pc \in {"pollFailed", "killFailed"} => counted < pos
    /\ CountedOnce

LEMMA ReasonedInvariant == Spec => []Reasoned
<1>1. Init => Reasoned
  BY DEF Init, Reasoned, CountedOnce
<1>2. TypeOK /\ Reasoned /\ [Next]_vars => Reasoned'
  <2> SUFFICES ASSUME TypeOK, Reasoned, [Next]_vars
               PROVE  Reasoned'
    OBVIOUS
  <2> USE DEF Reasoned, CountedOnce
  <2>1. CASE StartLine \/ ExitMaven \/ DieMaven \/ Tick
    BY <2>1 DEF StartLine, ExitMaven, DieMaven, Tick, process, reader, verdict
  <2>2. CASE EndLine
    <3>1. PICK result \in Results : lines' = Append(lines, result)
      BY <2>2 DEF EndLine, Results
    <3>2. \A i \in 1..pos : lines'[i] = lines[i]
      BY <3>1, LinesKept DEF TypeOK, Results
    <3> QED BY <2>2, <3>2 DEF EndLine, reader, verdict
  <2>3. CASE NoMappedTests
    BY <2>3 DEF NoMappedTests, process, reader
  <2>4. CASE InjectAndStart
    BY <2>4 DEF InjectAndStart, verdict
  <2>5. CASE CheckTimeouts
    BY <2>5 DEF CheckTimeouts, process, reader, verdict
  <2>6. CASE ReadLine
    <3>1. pos' = pos + 1 /\ pos \in Nat /\ counted \in Nat /\ counted <= pos
      BY <2>6 DEF ReadLine, TypeOK
    <3>2. CASE LooksFailed(torn, lines[pos + 1])
      BY <2>6, <3>1, <3>2 DEF ReadLine, LooksFailed, CountOf, process, verdict
    <3>3. CASE ~LooksFailed(torn, lines[pos + 1])
      BY <2>6, <3>1, <3>3 DEF ReadLine, CountOf, process, verdict
    <3> QED BY <3>2, <3>3
  <2>7. CASE ReadBeginning \/ ReadOtherLine \/ ReadNothing
    BY <2>7 DEF ReadBeginning, ReadOtherLine, ReadNothing, process, reader, verdict
  <2>8. CASE PollStep
    BY <2>8 DEF PollStep, PollHard, PollIdle, PollEmpty, PollFailed, Poll, OfExitCode,
                CountOneMore, process, verdict, TypeOK
  <2>9. CASE KillStep
    BY <2>9 DEF KillStep, KillHard, KillIdle, KillFailed, Kill, CountOneMore, TypeOK
  <2>10. CASE CleanUp
    BY <2>10 DEF CleanUp, process, verdict
  <2>11. CASE LookForMaven \/ Interrupt
    BY <2>11 DEF LookForMaven, Interrupt, process, reader, verdict
  <2>12. CASE UNCHANGED vars
    BY <2>12 DEF vars
  <2> QED BY <2>1, <2>2, <2>3, <2>4, <2>5, <2>6, <2>7, <2>8, <2>9, <2>10, <2>11, <2>12
          DEF Next, MavenStep, ReaderStep, Read
<1> QED BY <1>1, <1>2, RunTyping, PTL DEF Spec

\* Maven is killed before its end only after the summary of a failed class.
THEOREM PreKillReasoned == Spec => []PreKillHasReason
<1>1. Reasoned => PreKillHasReason
  BY DEF Reasoned, PreKillHasReason
<1> QED BY <1>1, ReasonedInvariant, PTL

\* No class is counted twice.
THEOREM CountsOnce == Spec => []CountedOnce
BY ReasonedInvariant, PTL DEF Reasoned

-----------------------------------------------------------------------------
(* The gate.                                                               *)

\* What is still untouched before the first step, and what is clean after the last.
Gated ==
    /\ maven = "none" => lines = <<>>
    /\ pc = "start" => lines = <<>> /\ status = 0
    /\ pc \in {"start", "lookForMaven", "systemTest"} => ~injected
    /\ pc = "systemTest" => ~Running
    /\ status = 1 \/ ~Finished \/ AllPassed(lines)

LEMMA GatedInvariant == Spec => []Gated
<1>1. Init => Gated
  <2>1. Init => pc = "start" /\ lines = <<>> /\ status = 0
    BY DEF Init
  <2>2. Init => ~injected
    BY Zenon DEF Init
  <2> QED BY <2>1, <2>2 DEF Gated, Finished
<1>2. TypeOK /\ TypeOK' /\ Sound /\ Sound' /\ Gated /\ [Next]_vars => Gated'
  <2> SUFFICES ASSUME TypeOK, TypeOK', Sound, Sound', Gated, [Next]_vars
               PROVE  Gated'
    OBVIOUS
  <2>1. (maven = "none" => lines = <<>>)'
    <3>1. maven' = "none" => maven = "none" /\ lines' = lines
      BY DEF Next, vars, MavenStep, ReaderStep, Read, PollStep, KillStep, StartLine, EndLine,
             ExitMaven, DieMaven, Tick, NoMappedTests, InjectAndStart, CheckTimeouts, ReadLine,
             ReadBeginning, ReadOtherLine, ReadNothing, PollHard, PollIdle, PollEmpty,
             PollFailed, Poll, KillHard, KillIdle, KillFailed, Kill, Killed, CleanUp,
             LookForMaven, Interrupt, process
    <3> QED BY <3>1 DEF Gated
  <2>2. (pc = "start" => lines = <<>> /\ status = 0)'
    <3>1. pc' = "start" => pc = "start" /\ maven = "none"
      BY DEF Next, vars, MavenStep, ReaderStep, Read, PollStep, KillStep, StartLine, EndLine,
             ExitMaven, DieMaven, Tick, NoMappedTests, InjectAndStart, CheckTimeouts, ReadLine,
             ReadBeginning, ReadOtherLine, ReadNothing, PollHard, PollIdle, PollEmpty,
             PollFailed, Poll, KillHard, KillIdle, KillFailed, Kill, CleanUp,
             LookForMaven, Interrupt, Sound, MavenPlaced
    <3>2. pc' = "start" => UNCHANGED <<lines, status>>
      BY <3>1 DEF Next, vars, MavenStep, ReaderStep, Read, PollStep, KillStep, StartLine, EndLine,
             ExitMaven, DieMaven, Tick, NoMappedTests, InjectAndStart, CheckTimeouts, ReadLine,
             ReadBeginning, ReadOtherLine, ReadNothing, PollHard, PollIdle, PollEmpty,
             PollFailed, Poll, KillHard, KillIdle, KillFailed, Kill, CleanUp,
             LookForMaven, Interrupt, process, verdict
    <3> QED BY <3>1, <3>2 DEF Gated
  <2>3. (pc \in {"start", "lookForMaven", "systemTest"} => ~injected)'
    <3>1. CASE CleanUp
      <4>1. injected' = FALSE
        BY <3>1 DEF CleanUp
      <4> QED BY <4>1
    <3>2. CASE pc' \in {"start", "lookForMaven", "systemTest"} /\ ~CleanUp
      <4>1. pc \in {"start", "lookForMaven", "systemTest"} /\ injected' = injected
        BY <3>2 DEF Next, vars, MavenStep, ReaderStep, Read, PollStep, KillStep, StartLine,
             EndLine, ExitMaven, DieMaven, Tick, NoMappedTests, InjectAndStart, CheckTimeouts,
             ReadLine, ReadBeginning, ReadOtherLine, ReadNothing, PollHard, PollIdle, PollEmpty,
             PollFailed, Poll, KillHard, KillIdle, KillFailed, Kill, LookForMaven, Interrupt
      <4> QED BY <4>1 DEF Gated
    <3> QED BY <3>1, <3>2
  <2>4. (pc = "systemTest" => ~Running)'
    <3>1. pc' = "systemTest" => maven' = maven \/ maven' = "exited"
      BY DEF Next, vars, MavenStep, ReaderStep, Read, PollStep, KillStep, StartLine, EndLine,
             ExitMaven, DieMaven, Tick, NoMappedTests, InjectAndStart, CheckTimeouts, ReadLine,
             ReadBeginning, ReadOtherLine, ReadNothing, PollHard, PollIdle, PollEmpty,
             PollFailed, Poll, KillHard, KillIdle, KillFailed, Kill, CleanUp,
             LookForMaven, Interrupt, process
    <3>2. pc' = "systemTest" => ~Running
      BY DEF Next, vars, MavenStep, ReaderStep, Read, PollStep, KillStep, StartLine, EndLine,
             ExitMaven, DieMaven, Tick, NoMappedTests, InjectAndStart, CheckTimeouts, ReadLine,
             ReadBeginning, ReadOtherLine, ReadNothing, PollHard, PollIdle, PollEmpty,
             PollFailed, Poll, KillHard, KillIdle, KillFailed, Kill, CleanUp,
             LookForMaven, Interrupt, Gated
    <3> QED BY <3>1, <3>2 DEF Running
  <2>5. (status = 1 \/ ~Finished \/ AllPassed(lines))'
    <3>1. maven' = "none" => AllPassed(lines')
      BY <2>1 DEF AllPassed
    <3>2. status' \in {0, 1}
      BY DEF TypeOK
    <3> QED BY <3>1, <3>2 DEF Sound, PassMeansPassed
  <2> QED BY <2>1, <2>2, <2>3, <2>4, <2>5 DEF Gated
<1> QED BY <1>1, <1>2, RunTyping, SoundInvariant, PTL DEF Spec

\* A run of preKillRun is a run of the gate.
THEOREM UnitRunImplementsGate == Spec => ImplementsGate
<1>1. Init => Gate!Init
  <2>1. Init => GatePhase = "idle" /\ ~Running /\ AllPassed(lines) /\ status = 0
    BY DEF Init, GatePhase, Running, AllPassed
  <2>2. Init => injected = FALSE
    BY Zenon DEF Init
  <2> QED BY <2>1, <2>2 DEF Gate!Init, Running, AllPassed
<1>2. /\ TypeOK /\ TypeOK' /\ Sound /\ Sound' /\ Gated /\ Gated' /\ [Next]_vars
      => [Gate!Next]_(Gate!vars)
  <2> SUFFICES ASSUME TypeOK, TypeOK', Sound, Sound', Gated, Gated', [Next]_vars
               PROVE  Gate!Next \/ UNCHANGED Gate!vars
    BY DEF Gate!vars
  <2>1. CASE StartLine \/ EndLine \/ ExitMaven \/ DieMaven
    <3>1. UNCHANGED <<pc, injected, status>> /\ GatePhase' = GatePhase
      BY <2>1 DEF StartLine, EndLine, ExitMaven, DieMaven, verdict, GatePhase
    <3>2. Running' => Running
      BY <2>1 DEF StartLine, EndLine, ExitMaven, DieMaven, Running
    <3>3. CASE UNCHANGED <<lines, Running>>
      BY <3>1, <3>3 DEF Gate!vars, AllPassed
    <3>4. CASE lines' = lines /\ ~Running' /\ Running
      BY <3>1, <3>4 DEF Gate!Next, Gate!LeftOverEnds, AllPassed
    <3>5. CASE lines' # lines
      <4>1. EndLine
        BY <2>1, <3>5 DEF StartLine, ExitMaven, DieMaven
      <4>2. maven = "running" /\ maven' = maven
        BY <4>1 DEF EndLine
      <4>3. GatePhase \in {"unit", "ended"}
        BY <4>2 DEF GatePhase, Sound, MavenPlaced, Finished, TypeOK, PCs
      <4>4. ~AllPassed(lines) => ~AllPassed(lines')
        <5>1. PICK result \in Results : lines' = Append(lines, result)
          BY <4>1 DEF EndLine, Results
        <5>2. /\ Len(lines') = Len(lines) + 1 /\ lines' \in Seq(Results)
              /\ \A i \in 1..Len(lines) : lines'[i] = lines[i]
          BY <5>1, LinesKept DEF TypeOK, Results
        <5>3. DOMAIN lines = 1..Len(lines) /\ DOMAIN lines' = 1..Len(lines')
              /\ Len(lines) \in Nat
          BY <5>2 DEF TypeOK, Results
        <5> QED BY <5>2, <5>3 DEF AllPassed
      <4>5. CASE GatePhase = "unit"
        BY <3>1, <4>2, <4>4, <4>5 DEF Gate!Next, Gate!Work, Running, TypeOK
      <4>6. CASE GatePhase = "ended"
        BY <3>1, <4>2, <4>4, <4>6 DEF Gate!Next, Gate!AfterEnd, Running
      <4> QED BY <4>3, <4>5, <4>6
    <3>6. Running' \in BOOLEAN /\ Running \in BOOLEAN
      BY DEF Running
    <3> QED BY <3>2, <3>3, <3>4, <3>5, <3>6
  <2>2. CASE Tick
    BY <2>2 DEF Tick, process, reader, verdict, Gate!vars, GatePhase, Running, AllPassed
  <2>3. CASE NoMappedTests
    <3>1. /\ pc = "start" /\ pc' = "lookForMaven" /\ lines = <<>> /\ status = 0
          /\ UNCHANGED <<injected, maven, lines, status>> /\ ~injected
      BY <2>3 DEF NoMappedTests, process, Gated
    <3>2. AllPassed(lines) /\ AllPassed(lines') /\ Running' = Running
      BY <3>1 DEF AllPassed, Running
    <3>3. GatePhase = "idle" /\ GatePhase' = "judged"
      BY <3>1 DEF GatePhase
    <3> QED BY <3>1, <3>2, <3>3 DEF Gate!Next, Gate!NoTests
  <2>4. CASE InjectAndStart
    <3>1. /\ pc = "start" /\ pc' = "top" /\ lines = <<>> /\ status = 0
          /\ UNCHANGED <<lines, status>> /\ ~injected
      BY <2>4 DEF InjectAndStart, verdict, Gated
    <3>2. AllPassed(lines) /\ AllPassed(lines') /\ Running' \in BOOLEAN
      BY <3>1 DEF AllPassed, Running
    <3>3. GatePhase = "idle" /\ GatePhase' = "unit"
      BY <3>1 DEF GatePhase
    <3>4. injected' \in BOOLEAN
      BY DEF TypeOK
    <3> QED BY <3>1, <3>2, <3>3, <3>4 DEF Gate!Next, Gate!Begin
  <2>5. CASE CheckTimeouts \/ Read
    <3>1. UNCHANGED <<injected, maven, lines, status>> /\ Running' = Running
      BY <2>5 DEF CheckTimeouts, Read, ReadLine, ReadBeginning, ReadOtherLine, ReadNothing,
                  process, verdict, Running
    <3>2. pc \in {"top", "read"} /\ pc' \in {"pollHard", "pollIdle", "read", "pollFailed",
                                             "top", "pollEmpty"}
      BY <2>5 DEF CheckTimeouts, Read, ReadLine, ReadBeginning, ReadOtherLine, ReadNothing
    <3>3. GatePhase = "unit" /\ GatePhase' = "unit"
      BY <3>2 DEF GatePhase
    <3> QED BY <3>1, <3>3 DEF Gate!vars, AllPassed
  <2>6. CASE PollStep
    <3>1. UNCHANGED <<injected, maven, lines>> /\ Running' = Running
      BY <2>6 DEF PollStep, PollHard, PollIdle, PollEmpty, PollFailed, Poll, process, Running
    <3>2. /\ pc \in {"pollHard", "pollIdle", "pollEmpty", "pollFailed"}
          /\ pc' \in {"killHard", "killIdle", "top", "killFailed", "cleanup"}
      BY <2>6 DEF PollStep, PollHard, PollIdle, PollEmpty, PollFailed, Poll
    <3>3. GatePhase = "unit" /\ GatePhase' = "unit"
      BY <3>2 DEF GatePhase
    <3>4. AllPassed(lines') = AllPassed(lines) /\ Running' \in BOOLEAN
      BY <3>1 DEF AllPassed, Running
    <3>5. status' \in {0, 1} /\ injected' \in BOOLEAN
      BY DEF TypeOK
    <3> QED BY <3>1, <3>3, <3>4, <3>5 DEF Gate!Next, Gate!Work
  <2>7. CASE KillStep
    <3>1. UNCHANGED <<injected, lines>> /\ Running' \in BOOLEAN
      BY <2>7 DEF KillStep, KillHard, KillIdle, KillFailed, Kill, Running
    <3>2. pc \in {"killHard", "killIdle", "killFailed"} /\ pc' = "cleanup"
      BY <2>7 DEF KillStep, KillHard, KillIdle, KillFailed, Kill
    <3>3. GatePhase = "unit" /\ GatePhase' = "unit"
      BY <3>2 DEF GatePhase
    <3>4. AllPassed(lines') = AllPassed(lines)
      BY <3>1 DEF AllPassed
    <3>5. status' \in {0, 1} /\ injected' \in BOOLEAN
      BY DEF TypeOK
    <3> QED BY <3>1, <3>3, <3>4, <3>5 DEF Gate!Next, Gate!Work
  <2>8. CASE CleanUp
    <3>1. /\ pc = "cleanup" /\ pc' = "lookForMaven" /\ injected' = FALSE
          /\ UNCHANGED <<maven, lines, status>>
      BY <2>8 DEF CleanUp, process, verdict
    <3>2. GatePhase = "unit" /\ GatePhase' = "judged"
      BY <3>1 DEF GatePhase
    <3>3. Running' = Running /\ AllPassed(lines') = AllPassed(lines)
      BY <3>1 DEF Running, AllPassed
    <3>4. status' \in {0, 1} /\ (~AllPassed(lines) => status' = 1)
      BY <3>1 DEF TypeOK, Gated, Finished
    <3> QED BY <3>1, <3>2, <3>3, <3>4 DEF Gate!Next, Gate!Judge
  <2>9. CASE LookForMaven
    <3>1. pc = "lookForMaven" /\ UNCHANGED <<injected, maven, lines, status>>
      BY <2>9 DEF LookForMaven, process, verdict
    <3>2. Running' = Running /\ AllPassed(lines') = AllPassed(lines) /\ GatePhase = "judged"
      BY <3>1 DEF Running, AllPassed, GatePhase
    <3>3. CASE Running
      <4>1. GatePhase' = "ended"
        BY <2>9, <3>3 DEF LookForMaven, GatePhase
      <4> QED BY <3>1, <3>2, <4>1 DEF Gate!Next, Gate!End
    <3>4. CASE ~Running
      <4>1. GatePhase' = "system"
        BY <2>9, <3>4 DEF LookForMaven, GatePhase
      <4> QED BY <3>1, <3>2, <3>4, <4>1 DEF Gate!Next, Gate!StartSystemTest
    <3> QED BY <3>3, <3>4
  <2>10. CASE Interrupt
    <3>1. pc' = "aborted" /\ UNCHANGED <<injected, maven, lines, status>>
      BY <2>10 DEF Interrupt, process, verdict
    <3>2. Running' = Running /\ AllPassed(lines') = AllPassed(lines) /\ GatePhase' = "ended"
      BY <3>1 DEF Running, AllPassed, GatePhase
    <3> QED BY <3>1, <3>2 DEF Gate!Next, Gate!End
  <2>11. CASE UNCHANGED vars
    BY <2>11 DEF vars, Gate!vars, GatePhase, Running, AllPassed
  <2> QED BY <2>1, <2>2, <2>3, <2>4, <2>5, <2>6, <2>7, <2>8, <2>9, <2>10, <2>11
          DEF Next, MavenStep, ReaderStep
<1> QED BY <1>1, <1>2, RunTyping, SoundInvariant, GatedInvariant, PTL
        DEF Spec, ImplementsGate, Gate!Spec
=============================================================================
