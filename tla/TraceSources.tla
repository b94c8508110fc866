---------------------------- MODULE TraceSources ----------------------------
(***************************************************************************)
(* Which lines of output a system test is charged with.  SystemTester      *)
(* deletes the log directory, notes the size and time of every file in the *)
(* log and the shell directory, runs the script, and reads what has        *)
(* changed since: ParamTraceCollector.collect_updated_text_sources.  The   *)
(* names in these lines become the exercised parameters of the test case.  *)
(*                                                                         *)
(* The script is not the only writer: a daemon it started and did not stop *)
(* writes on, while its own run is being read and during the next one.     *)
(* Lines are taken to be of one length, no two writes to a file have the   *)
(* same time, and log files are not renamed.                               *)
(***************************************************************************)
EXTENDS Naturals, Sequences, FiniteSets

CONSTANTS
    LogFiles,   \* the files of the log directory
    ShellFiles, \* the files of the shell directory, which is never deleted
    FileKinds,  \* the kinds of lines that are written into them
    MaxRuns,    \* system tests (bound)
    MaxWrites,  \* writes, over all runs (bound)
    MaxRewrite  \* lines of a file that is written anew (bound)

\* A line carries the name of a parameter that was got or set, or it does not, or it has
\* nothing in it that str.strip would leave.
LineKinds == {"named", "plain", "blank"}

ASSUME FilesAssumption == LogFiles \cap ShellFiles = {} /\ FileKinds \subseteq LineKinds
ASSUME TraceBoundsAssumption ==
    MaxRuns \in Nat \ {0} /\ MaxWrites \in Nat \ {0} /\ MaxRewrite \in Nat \ {0}

VARIABLES
    pc,      \* where the tester is
    run,     \* the system test, by its number
    clock,   \* the writes so far: the time of a file is that of its last write
    files,   \* of each file the lines and the time
    seen,    \* snapshot_file_state of both directories: sizes and times
    std,     \* the lines on stdout and stderr
    daemons, \* the runs of which a daemon is alive
    todo,    \* the files the collector has not looked at
    opened,  \* the file it is reading, with its size and time before
    sources, \* the text sources collected
    trace,   \* the lastTrace... attributes of SystemTester
    rows,    \* what is new in summary.tsv since the system test began
    ended    \* history: the clock when the script returned, until the row is written

vars == <<pc, run, clock, files, seen, std, daemons, todo, opened, sources, trace, rows, ended>>
disk == <<clock, files, std>>
collected == <<seen, todo, opened, sources, trace, rows, ended>>

Files == LogFiles \cup ShellFiles
NoFile == [lines |-> <<>>, time |-> 0]
NotSeen == [size |-> 0, time |-> 0]
Exists(f) == files[f].time # 0
NoTrace == [of |-> 0, lines |-> {}, status |-> "no-system-run"]
Closed == [file |-> "none", size |-> 0, time |-> 0]
Range1(seq) == {seq[i] : i \in DOMAIN seq}

Init ==
    /\ pc = "idle" /\ run = 0 /\ clock = 0 /\ files = [f \in Files |-> NoFile]
    /\ seen = [f \in Files |-> NotSeen] /\ std = {} /\ daemons = {}
    /\ todo = {} /\ opened = Closed /\ sources = {} /\ trace = NoTrace /\ rows = <<>>
    /\ ended = 0

-----------------------------------------------------------------------------
(* The writers.  A line knows who wrote it, when and where in the file.    *)

Line(by, nth, kind) == [by |-> by, at |-> clock + 1, nth |-> nth, kind |-> kind]

\* Blank lines on stdout and stderr are left out: nothing ever looks at them.
WriteStd ==
    /\ pc = "script" /\ clock < MaxWrites
    /\ \E kind \in LineKinds \ {"blank"} : std' = std \cup {Line(run, 1, kind)}
    /\ clock' = clock + 1
    /\ UNCHANGED <<pc, run, files, daemons, collected>>

Saved(f, lines) == files' = [files EXCEPT ![f] = [lines |-> lines, time |-> clock + 1]]

Writing(by) == by \in daemons \/ (pc = "script" /\ by = run)

\* The script, or a daemon whenever it likes; one whose file was deleted writes into
\* nothing until it opens the path again.
Write ==
    /\ clock < MaxWrites
    /\ \E by \in 1..run, f \in Files, kind \in FileKinds :
        /\ Writing(by)
        /\ Saved(f, Append(files[f].lines, Line(by, Len(files[f].lines) + 1, kind)))
    /\ clock' = clock + 1
    /\ UNCHANGED <<pc, run, std, daemons, collected>>

\* A file that is truncated and filled again, with lines of one kind, or left empty.
Rewrite ==
    /\ clock < MaxWrites
    /\ \E by \in 1..run, f \in Files, size \in 0..MaxRewrite, kind \in FileKinds :
        Writing(by) /\ Saved(f, [i \in 1..size |-> Line(by, i, kind)])
    /\ clock' = clock + 1
    /\ UNCHANGED <<pc, run, std, daemons, collected>>

\* A new time for the same lines; a file that is not there is created.
Touch ==
    /\ clock < MaxWrites
    /\ \E by \in 1..run, f \in Files : Writing(by) /\ Saved(f, files[f].lines)
    /\ clock' = clock + 1
    /\ UNCHANGED <<pc, run, std, daemons, collected>>

StartDaemon ==
    /\ pc = "script" /\ daemons' = daemons \cup {run}
    /\ UNCHANGED <<pc, run, disk, collected>>

StopDaemon ==
    /\ \E d \in daemons : daemons' = daemons \ {d}
    /\ UNCHANGED <<pc, run, disk, collected>>

-----------------------------------------------------------------------------
(* SystemTester.runTest.                                                   *)

\* _reset_trace_state
Reset(old) == NoTrace

StartRun ==
    /\ pc = "idle" /\ run < MaxRuns
    /\ run' = run + 1 /\ trace' = Reset(trace) /\ rows' = <<>>
    /\ pc' = "delete"
    /\ UNCHANGED <<disk, daemons, seen, todo, opened, sources, ended>>

\* deleteDir: rmtree raises where somebody writes into the directory meanwhile.
DeleteLogs ==
    /\ pc = "delete"
    /\ \/ /\ files' = [f \in Files |-> IF f \in LogFiles THEN NoFile ELSE files[f]]
          /\ pc' = "snapLogs"
       \/ /\ daemons # {} /\ pc' = "raised"
          /\ \E some \in SUBSET LogFiles :
                files' = [f \in Files |-> IF f \in some THEN NoFile ELSE files[f]]
    /\ UNCHANGED <<run, clock, std, daemons, collected>>

State(f) == [size |-> Len(files[f].lines), time |-> files[f].time]
Snapshot(dir) == seen' = [f \in Files |-> IF f \in dir THEN State(f) ELSE seen[f]]

SnapshotLogs ==
    /\ pc = "snapLogs" /\ Snapshot(LogFiles)
    /\ pc' = "snapShell"
    /\ UNCHANGED <<run, disk, daemons, todo, opened, sources, trace, rows, ended>>

\* The script starts.
SnapshotShell ==
    /\ pc = "snapShell" /\ Snapshot(ShellFiles)
    /\ pc' = "script"
    /\ UNCHANGED <<run, disk, daemons, todo, opened, sources, trace, rows, ended>>

\* subprocess.run returns: no timeout is given, and it waits for whoever holds stdout
\* or stderr, so a daemon that lives on has its output in files.
EndScript ==
    /\ pc = "script"
    /\ todo' = LogFiles /\ sources' = {} /\ ended' = clock
    /\ pc' = "logs"
    /\ UNCHANGED <<run, disk, daemons, seen, opened, trace, rows>>

-----------------------------------------------------------------------------
(* collect_updated_text_sources, file by file.                             *)

Collecting == pc \in {"logs", "shell"}

\* Mutant: only what has grown is read.
Grown(f) == State(f).size > seen[f].size

Changed(f) == Exists(f) /\ State(f) # seen[f]

\* Mutant: the collector waits for a file that is gone.
AwaitFile ==
    /\ Collecting /\ opened = Closed
    /\ \E f \in todo : Exists(f) /\ ~Changed(f) /\ todo' = todo \ {f}
    /\ UNCHANGED <<pc, run, disk, daemons, seen, opened, sources, trace, rows, ended>>

\* A file that is not there, or that is as it was.
PassOver ==
    /\ Collecting /\ opened = Closed
    /\ \E f \in todo : ~Changed(f) /\ todo' = todo \ {f}
    /\ UNCHANGED <<pc, run, disk, daemons, seen, opened, sources, trace, rows, ended>>

OpenFile ==
    /\ Collecting /\ opened = Closed
    /\ \E f \in todo :
        /\ Changed(f) /\ todo' = todo \ {f}
        /\ opened' = [file |-> f, size |-> State(f).size, time |-> State(f).time]
    /\ UNCHANGED <<pc, run, disk, daemons, seen, sources, trace, rows, ended>>

\* Mutant: the log files, too, are read from the beginning.
FromStart(f) == 0

\* A shell file is read in full, a log file from its old size unless it has shrunk.
Offset(f) ==
    IF f \in ShellFiles \/ opened.size < seen[f].size THEN 0 ELSE seen[f].size

\* content.strip() == ""
Blank(lines) == \A i \in DOMAIN lines : lines[i].kind = "blank"

\* The tail, or the whole file where nothing of the tail is left by strip: the file may
\* have been written anew.
Content(f) ==
    LET tail == SubSeq(files[f].lines, Offset(f) + 1, Len(files[f].lines))
    IN  IF Blank(tail) THEN files[f].lines ELSE tail

\* Whatever the file has become since its size was taken.
ReadFile ==
    /\ Collecting /\ opened # Closed
    /\ sources' = sources \cup
         (IF Blank(Content(opened.file)) THEN {}
          ELSE {[file |-> opened.file, lines |-> Range1(Content(opened.file))]})
    /\ opened' = Closed
    /\ UNCHANGED <<pc, run, disk, daemons, seen, todo, trace, rows, ended>>

NextDirectory ==
    /\ pc = "logs" /\ todo = {} /\ opened = Closed
    /\ todo' = ShellFiles
    /\ pc' = "shell"
    /\ UNCHANGED <<run, disk, daemons, seen, opened, sources, trace, rows, ended>>

SourceLines == std \cup UNION {s.lines : s \in sources}
Named(lines) == {l \in lines : l.kind = "named"}

\* _summarize_trace_run
StatusOf(noSource, noName) ==
    IF noSource THEN "no-sources" ELSE IF noName THEN "no-names" ELSE "names"

Summarize ==
    /\ pc = "shell" /\ todo = {} /\ opened = Closed
    /\ trace' = [of |-> run, lines |-> SourceLines,
                 status |-> StatusOf(std = {} /\ sources = {}, Named(SourceLines) = {})]
    /\ pc' = "judged"
    /\ UNCHANGED <<run, disk, daemons, seen, todo, opened, sources, rows, ended>>

\* Mutant: only files are preserved.
FileArtifacts == Cardinality(sources)

\* preserve_system_trace_artifacts: stdout, stderr and every text source.
Artifacts == Cardinality(sources) + IF std = {} THEN 0 ELSE 1

\* record_testcase; what the run kept is not used again.
RecordRow ==
    /\ pc = "judged"
    /\ rows' = Append(rows, [of |-> run, status |-> trace.status, artifacts |-> Artifacts,
                             names |-> Cardinality(Named(trace.lines))])
    /\ sources' = {} /\ std' = {} /\ seen' = [f \in Files |-> NotSeen] /\ ended' = 0
    /\ pc' = "idle"
    /\ UNCHANGED <<run, clock, files, daemons, todo, opened, trace>>

-----------------------------------------------------------------------------
Writers == WriteStd \/ Write \/ Rewrite \/ Touch \/ StartDaemon \/ StopDaemon
Collect == PassOver \/ OpenFile \/ ReadFile \/ NextDirectory
Tester == \/ StartRun \/ DeleteLogs \/ SnapshotLogs \/ SnapshotShell \/ Collect
          \/ Summarize \/ RecordRow

Next == Writers \/ EndScript \/ Tester

Spec == Init /\ [][Next]_vars

\* The tester runs.  The script need not end, nor a daemon stop.
FairSpec == Spec /\ WF_vars(Tester)

-----------------------------------------------------------------------------
(* Properties.                                                             *)

LineType == [by : 1..MaxRuns, at : 1..MaxWrites, nth : Nat, kind : LineKinds]

\* A row agrees with itself: no source means no artifact was kept, and the status tells of
\* names exactly where there are some.
RowType == {r \in [of : 1..MaxRuns, status : {"no-sources", "no-names", "names"},
                   artifacts : Nat, names : Nat] :
             (r.status = "no-sources" <=> r.artifacts = 0) /\ (r.status = "names" <=> r.names > 0)}

\* The variables have their types; a run that has no trace has none of its parts, and in
\* the row of a test case status, count and artifacts, worked out in three places, agree.
TypeOK ==
    /\ pc \in {"idle", "delete", "snapLogs", "snapShell", "script", "logs", "shell",
              "judged", "raised"}
    /\ run \in 0..MaxRuns /\ clock \in 0..MaxWrites /\ ended \in 0..clock
    /\ files \in [Files -> [lines : Seq(LineType), time : 0..clock]]
    /\ seen \in [Files -> [size : Nat, time : 0..clock]]
    /\ std \subseteq LineType /\ daemons \subseteq 1..run /\ todo \subseteq Files
    /\ opened = Closed \/ opened \in [file : Files, size : Nat, time : 1..clock]
    /\ sources \subseteq [file : Files, lines : SUBSET LineType]
    /\ trace.of \in 0..MaxRuns /\ trace.lines \subseteq LineType
    /\ trace.of = 0 => trace = NoTrace
    /\ \A i \in DOMAIN rows : rows[i] \in RowType

\* When a run is charged with log events that are not its own.  A line that was in a log
\* file when the snapshot was taken is charged to the run only with a file to which
\* nothing but blank lines was added since: one that was only touched is read in full,
\* too.  Where any other line is new, all that is read is new, though the tester reads
\* from an offset that it computed from sizes two writers have changed since.
LogLinesFresh ==
    \A s \in sources : s.file \in LogFiles =>
        LET new == {l \in s.lines : l.at > seen[s.file].time}
        IN  new = s.lines \/ \A l \in new : l.kind = "blank"

\* A line is lost only where a daemon of an earlier run had filled the log file again
\* between the deletion and the snapshot, and the script then wrote the file anew and
\* longer: what it wrote into the old length.  All else that it wrote into a file and
\* that is not blank is in the trace.
OwnOutputKept ==
    pc = "judged" =>
        \A f \in Files : \A l \in Range1(files[f].lines) :
            \/ l.by # run \/ l.at > ended \/ l.kind = "blank"
            \/ l \in trace.lines
            \/ f \in LogFiles /\ l.nth <= seen[f].size

\* Nothing but the script can keep the tester: without a timeout it waits there for
\* good, and else it gets through its runs or raises.
HangsOnlyInScript ==
    <>(pc = "raised" \/ (pc = "idle" /\ run = MaxRuns)) \/ <>[](pc = "script")
=============================================================================
