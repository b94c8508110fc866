------------------------- MODULE TraceSources_proofs -------------------------
(***************************************************************************)
(* For any files, runs, writes and writers: a system test is charged with  *)
(* a line of a log file that was there when its snapshot was taken only    *)
(* where nothing but blank lines is new in that file, what its script      *)
(* wrote is in its trace, and the row of a test case agrees with itself.   *)
(***************************************************************************)
EXTENDS TraceSources, FiniteSetTheorems, FunctionTheorems, SequenceTheorems, TLAPS

-----------------------------------------------------------------------------
(* What the argument needs of the types.                                   *)

WrittenLine == [by : Nat, at : Nat, nth : Nat, kind : LineKinds]

DiskOK ==
    /\ run \in Nat /\ clock \in Nat
    /\ files \in [Files -> [lines : Seq(WrittenLine), time : Nat]]
    /\ \A f \in Files :
          /\ files[f].time <= clock
          /\ \A i \in 1..Len(files[f].lines) : files[f].lines[i].at <= files[f].time

\* A writer has made L of the lines of g: all of them are new, or the old ones are there
\* and what follows them is new.
SavedAs(g, L) ==
    /\ files' = [files EXCEPT ![g] = [lines |-> L, time |-> clock + 1]]
    /\ \/ \A i \in 1..Len(L) : L[i].at = clock + 1
       \/ /\ Len(files[g].lines) <= Len(L)
          /\ \A i \in 1..Len(files[g].lines) : L[i] = files[g].lines[i]
          /\ \A i \in 1..Len(L) : i > Len(files[g].lines) => L[i].at = clock + 1

\* What is left of a list after its first k elements.
LEMMA Suffix ==
  ASSUME NEW S, NEW L \in Seq(S), NEW k \in Nat
  PROVE  /\ \A i \in DOMAIN SubSeq(L, k + 1, Len(L)) :
               /\ k + i \in (k + 1)..Len(L) /\ k + i \in 1..Len(L)
               /\ SubSeq(L, k + 1, Len(L))[i] = L[k + i]
         /\ \A i \in (k + 1)..Len(L) :
               /\ i - k \in DOMAIN SubSeq(L, k + 1, Len(L))
               /\ SubSeq(L, k + 1, Len(L))[i - k] = L[i]
<1> DEFINE n == Len(L)
           T == SubSeq(L, k + 1, n)
<1>1. n \in Nat /\ k + 1 \in Int /\ \A i \in 1..n : L[i] \in S
  OBVIOUS
<1>2. CASE k < n
  <2>1. \A i \in (k + 1)..n : L[i] \in S
    BY <1>1
  <2> HIDE DEF n
  <2>2. /\ T \in Seq(S)
        /\ Len(T) = IF k + 1 <= n THEN n - (k + 1) + 1 ELSE 0
        /\ \A i \in 1..(n - (k + 1) + 1) : T[i] = L[k + 1 + i - 1]
    BY <1>1, <2>1, SubSeqProperties
  <2> HIDE DEF T
  <2>3. Len(T) = n - k /\ DOMAIN T = 1..(n - k)
    BY <1>1, <1>2, <2>2
  <2>4. \A i \in 1..(n - k) : k + 1 + i - 1 = k + i /\ k + i \in (k + 1)..n /\ k + i \in 1..n
    BY <1>1
  <2>5. \A i \in 1..(n - k) : T[i] = L[k + i]
    BY <1>1, <2>2, <2>4
  <2>6. \A i \in (k + 1)..n : /\ i - k \in 1..(n - k) /\ k + (i - k) = i
                             /\ T[i - k] = L[k + (i - k)]
    BY <1>1, <2>5
  <2> QED
    BY <2>3, <2>4, <2>5, <2>6 DEF T, n
<1>3. CASE ~(k < n)
  <2>1. T = <<>>
    BY <1>1, <1>3, SubSeqEmpty
  <2> QED
    BY <1>3, <2>1
<1> QED
  BY <1>2, <1>3

LEMMA SizesNatural == 0..MaxRewrite \subseteq Nat
BY TraceBoundsAssumption

LEMMA FileSaved ==
    ASSUME DiskOK, Write \/ Rewrite \/ Touch
    PROVE  \E g \in Files, L \in Seq(WrittenLine) : SavedAs(g, L)
<1>1. run \in Nat /\ clock \in Nat
      /\ \A f \in Files : files[f].lines \in Seq(WrittenLine) /\ Len(files[f].lines) \in Nat
  BY DEF DiskOK
<1>2. \A by \in 1..run, nth \in Nat, kind \in FileKinds :
         Line(by, nth, kind) \in WrittenLine /\ Line(by, nth, kind).at = clock + 1
  BY <1>1, FilesAssumption DEF Line, WrittenLine
<1>3. CASE Write
  <2>1. PICK by \in 1..run, f \in Files, kind \in FileKinds :
           Saved(f, Append(files[f].lines, Line(by, Len(files[f].lines) + 1, kind)))
    BY <1>3 DEF Write
  <2> DEFINE old == files[f].lines
             line == Line(by, Len(old) + 1, kind)
  <2>2. line \in WrittenLine /\ line.at = clock + 1 /\ old \in Seq(WrittenLine)
        /\ Len(old) \in Nat
    BY <1>1, <1>2, <2>1
  <2>3. files' = [files EXCEPT ![f] = [lines |-> Append(old, line), time |-> clock + 1]]
    BY <2>1 DEF Saved
  <2> HIDE DEF line
  <2>4. /\ Append(old, line) \in Seq(WrittenLine) /\ Len(Append(old, line)) = Len(old) + 1
        /\ \A i \in 1..Len(old) : Append(old, line)[i] = old[i]
        /\ Append(old, line)[Len(old) + 1] = line
    BY <2>2
  <2>5. \A i \in 1..(Len(old) + 1) : i > Len(old) => i = Len(old) + 1
    BY <2>2
  <2> DEFINE new == Append(old, line)
  <2>6. /\ new \in Seq(WrittenLine) /\ Len(old) <= Len(new)
        /\ \A i \in 1..Len(old) : new[i] = old[i]
        /\ \A i \in 1..Len(new) : i > Len(old) => new[i].at = clock + 1
    BY <2>2, <2>4, <2>5
  <2> HIDE DEF new
  <2>7. SavedAs(f, new)
    BY <2>3, <2>6 DEF SavedAs, new
  <2> QED
    BY <2>6, <2>7
<1>4. CASE Rewrite
  <2>1. PICK by \in 1..run, f \in Files, size \in Nat, kind \in FileKinds :
           Saved(f, [i \in 1..size |-> Line(by, i, kind)])
    BY <1>4, SizesNatural DEF Rewrite
  <2> DEFINE L == [i \in 1..size |-> Line(by, i, kind)]
  <2>2. \A i \in 1..size : L[i] \in WrittenLine /\ L[i].at = clock + 1
    BY <1>2
  <2>3. L \in Seq(WrittenLine) /\ Len(L) = size
    BY <1>2
  <2> QED
    BY <2>1, <2>2, <2>3 DEF SavedAs, Saved
<1>5. CASE Touch
  <2>1. PICK f \in Files : Saved(f, files[f].lines)
    BY <1>5 DEF Touch
  <2>2. \A i \in 1..Len(files[f].lines) : ~(i > Len(files[f].lines))
    BY <1>1
  <2>3. SavedAs(f, files[f].lines)
    BY <1>1, <2>1, <2>2 DEF SavedAs, Saved
  <2> QED
    BY <1>1, <2>3
<1> QED
  BY <1>3, <1>4, <1>5

LEMMA DiskTyped == Spec => []DiskOK
<1>1. Init => DiskOK
  BY DEF Init, DiskOK, NoFile
<1>2. DiskOK /\ [Next]_vars => DiskOK'
  <2> SUFFICES ASSUME DiskOK, [Next]_vars PROVE DiskOK'
    OBVIOUS
  <2> USE DEF DiskOK
  <2>1. CASE WriteStd
    BY <2>1 DEF WriteStd
  <2>2. CASE Write \/ Rewrite \/ Touch
    <3>1. PICK g \in Files, L \in Seq(WrittenLine) : SavedAs(g, L)
      BY <2>2, FileSaved
    <3>2. clock' = clock + 1 /\ run' = run
      BY <2>2 DEF Write, Rewrite, Touch
    <3>3. files' = [files EXCEPT ![g] = [lines |-> L, time |-> clock + 1]]
      BY <3>1 DEF SavedAs
    <3>4. \A i \in 1..Len(L) : L[i].at <= clock + 1
      <4>1. CASE \A i \in 1..Len(L) : L[i].at = clock + 1
        BY <4>1
      <4>2. CASE /\ \A i \in 1..Len(files[g].lines) : L[i] = files[g].lines[i]
                 /\ \A i \in 1..Len(L) : i > Len(files[g].lines) => L[i].at = clock + 1
        <5>1. \A i \in 1..Len(files[g].lines) :
                 files[g].lines[i].at \in Nat /\ files[g].lines[i].at <= clock
          <6>1. files[g].lines \in Seq(WrittenLine) /\ files[g].time \in Nat
            OBVIOUS
          <6>2. \A i \in 1..Len(files[g].lines) : files[g].lines[i] \in WrittenLine
            BY <6>1
          <6>3. \A i \in 1..Len(files[g].lines) : files[g].lines[i].at \in Nat
            BY <6>2 DEF WrittenLine
          <6> QED BY <6>1, <6>3
        <5>2. Len(files[g].lines) \in Nat /\ Len(L) \in Nat
          OBVIOUS
        <5> QED BY <4>2, <5>1, <5>2
      <4> QED BY <3>1, <4>1, <4>2 DEF SavedAs
    <3>5. /\ files'[g].lines = L /\ files'[g].time = clock + 1
          /\ \A f \in Files \ {g} : files'[f] = files[f]
      BY <3>3
    <3>6. files' \in [Files -> [lines : Seq(WrittenLine), time : Nat]]
      <4> DEFINE S == Seq(WrittenLine)
      <4>1. files \in [Files -> [lines : S, time : Nat]] /\ L \in S /\ clock + 1 \in Nat
        OBVIOUS
      <4> HIDE DEF S
      <4>2. files' \in [Files -> [lines : S, time : Nat]]
        BY <3>3, <4>1
      <4> QED BY <4>2 DEF S
    <3>7. ASSUME NEW f \in Files
          PROVE  /\ files'[f].time <= clock'
                 /\ \A i \in 1..Len(files'[f].lines) : files'[f].lines[i].at <= files'[f].time
      <4>1. CASE f = g
        BY <3>2, <3>4, <3>5, <4>1
      <4>2. CASE f # g
        <5>1. files'[f] = files[f] /\ files[f].time \in Nat /\ files[f].time <= clock
          BY <3>5, <4>2
        <5> QED BY <3>2, <5>1
      <4> QED BY <4>1, <4>2
    <3> QED
      BY <3>2, <3>6, <3>7 DEF Files
  <2>4. CASE StartRun
    BY <2>4 DEF StartRun, disk
  <2>5. CASE DeleteLogs
    <3>1. PICK some \in SUBSET LogFiles :
             files' = [f \in Files |-> IF f \in some THEN NoFile ELSE files[f]]
      BY <2>5 DEF DeleteLogs
    <3>2. clock' = clock /\ run' = run
      BY <2>5 DEF DeleteLogs
    <3> QED
      BY <3>1, <3>2 DEF NoFile
  <2>6. CASE RecordRow
    BY <2>6 DEF RecordRow
  <2>7. CASE UNCHANGED <<run, clock, files>>
    BY <2>7
  <2>8. CASE StartDaemon \/ StopDaemon \/ EndScript \/ SnapshotLogs \/ SnapshotShell \/ Collect
             \/ Summarize \/ UNCHANGED vars
    BY <2>7, <2>8 DEF StartDaemon, StopDaemon, EndScript, SnapshotLogs, SnapshotShell, Collect,
                      PassOver, OpenFile, ReadFile, NextDirectory, Summarize, vars, disk
  <2> QED
    BY <2>1, <2>2, <2>4, <2>5, <2>6, <2>8 DEF Next, Writers, Tester
<1> QED
  BY <1>1, <1>2, PTL DEF Spec

-----------------------------------------------------------------------------
(* A log file between its snapshot and its reading.                        *)

\* It was written anew: no line of it is old.
Anew(f) == \A i \in 1..Len(files[f].lines) : files[f].lines[i].at > seen[f].time

\* It was only appended to, or touched: what the snapshot saw is there, and what is beyond
\* the old length is new.
Extended(f) ==
    /\ seen[f].size <= Len(files[f].lines)
    /\ \A i \in 1..seen[f].size : files[f].lines[i].at <= seen[f].time
    /\ \A i \in (seen[f].size + 1)..Len(files[f].lines) : files[f].lines[i].at > seen[f].time

Watched == {"snapShell", "script", "logs", "shell"}

\* A file that had shrunk when the tester opened it was written anew.
Opened(f) ==
    opened.file = f => opened.size \in Nat /\ (opened.size < seen[f].size => Anew(f))

FreshInv ==
    /\ pc \in Watched => \A f \in LogFiles :
         /\ seen[f] \in [size : Nat, time : Nat] /\ seen[f].time <= clock
         /\ Anew(f) \/ Extended(f)
         /\ opened # Closed => Opened(f)
    /\ pc \notin {"logs", "shell"} => opened = Closed
    /\ todo \subseteq Files /\ (opened # Closed => opened.file \in Files)
    /\ pc \notin {"logs", "shell", "judged"} => sources = {}
    /\ LogLinesFresh

\* A write to one file leaves the others as they were, and this one new or extended.
LEMMA WrittenFresh ==
    ASSUME DiskOK, FreshInv, NEW g \in Files, NEW L \in Seq(WrittenLine), SavedAs(g, L),
           UNCHANGED <<pc, seen, todo, opened, sources>>, clock' = clock + 1
    PROVE  FreshInv'
<1>0. /\ files'[g].lines = L /\ \A f \in Files \ {g} : files'[f] = files[f]
      /\ clock \in Nat /\ Len(L) \in Nat /\ Len(files[g].lines) \in Nat
  BY DEF SavedAs, DiskOK
<1>1. ASSUME pc \in Watched, NEW f \in LogFiles
      PROVE  /\ seen[f] \in [size : Nat, time : Nat] /\ seen[f].time <= clock
             /\ Anew(f)' \/ Extended(f)'
             /\ Anew(f) => Anew(f)'
             /\ opened # Closed => Opened(f)
  <2>1. /\ seen[f] \in [size : Nat, time : Nat] /\ seen[f].time <= clock
        /\ seen[f].size \in Nat /\ seen[f].time \in Nat
        /\ Anew(f) \/ Extended(f)
        /\ opened # Closed => Opened(f)
    BY <1>1 DEF FreshInv
  <2>2. CASE f # g
    <3>1. files'[f] = files[f] /\ seen' = seen
      BY <1>0, <1>1, <2>2 DEF Files
    <3> QED
      BY <2>1, <3>1 DEF Anew, Extended
  <2>3. CASE f = g /\ \A i \in 1..Len(L) : L[i].at = clock + 1
    <3>1. Anew(f)'
      BY <1>0, <2>1, <2>3 DEF Anew
    <3> QED
      BY <2>1, <3>1
  <2>4. CASE /\ f = g /\ Len(files[g].lines) <= Len(L)
             /\ \A i \in 1..Len(files[g].lines) : L[i] = files[g].lines[i]
             /\ \A i \in 1..Len(L) : i > Len(files[g].lines) => L[i].at = clock + 1
    <3> DEFINE old == files[f].lines
    <3>1. /\ files'[f].lines = L /\ Len(old) \in Nat /\ Len(old) <= Len(L) /\ seen' = seen
          /\ \A i \in 1..Len(old) : L[i] = old[i]
          /\ \A i \in 1..Len(L) : i > Len(old) => L[i].at > seen[f].time
      BY <1>0, <2>1, <2>4
    <3>2. \A i \in 1..Len(L) : i \in 1..Len(old) \/ i > Len(old)
      BY <1>0, <3>1
    <3>3. Anew(f) => Anew(f)'
      BY <3>1, <3>2 DEF Anew
    <3>4. Extended(f) => Extended(f)'
      <4> SUFFICES ASSUME Extended(f) PROVE Extended(f)'
        OBVIOUS
      <4>1. /\ seen[f].size <= Len(old)
            /\ \A i \in 1..seen[f].size : old[i].at <= seen[f].time
            /\ \A i \in (seen[f].size + 1)..Len(old) : old[i].at > seen[f].time
        BY DEF Extended
      <4>2. seen[f].size <= Len(L)
        BY <1>0, <2>1, <3>1, <4>1
      <4>3. \A i \in 1..seen[f].size : L[i].at <= seen[f].time
        <5>1. \A i \in 1..seen[f].size : i \in 1..Len(old)
          BY <2>1, <3>1, <4>1
        <5> QED BY <3>1, <4>1, <5>1
      <4>4. \A i \in (seen[f].size + 1)..Len(L) : L[i].at > seen[f].time
        <5>1. \A i \in (seen[f].size + 1)..Len(L) :
                 /\ i \in 1..Len(L)
                 /\ i > Len(old) \/ (i \in 1..Len(old) /\ i \in (seen[f].size + 1)..Len(old))
          BY <1>0, <2>1, <3>1
        <5> HIDE DEF old
        <5> QED BY <3>1, <4>1, <5>1
      <4> QED
        BY <3>1, <4>2, <4>3, <4>4 DEF Extended
    <3> QED
      BY <2>1, <3>3, <3>4
  <2> QED
    BY <2>2, <2>3, <2>4 DEF SavedAs
<1>2. ASSUME pc \in Watched, opened # Closed, NEW f \in LogFiles
      PROVE  Opened(f)'
  BY <1>1, <1>2 DEF Opened
<1>3. pc' \in Watched => \A f \in LogFiles :
         /\ seen'[f] \in [size : Nat, time : Nat] /\ seen'[f].time <= clock'
         /\ Anew(f)' \/ Extended(f)'
         /\ opened' # Closed => Opened(f)'
  BY <1>0, <1>1, <1>2
<1>4. LogLinesFresh'
  BY DEF FreshInv, LogLinesFresh
<1> QED
  BY <1>3, <1>4 DEF FreshInv

LEMMA FreshInductive == Spec => []FreshInv
<1>1. Init => FreshInv
  BY DEF Init, FreshInv, LogLinesFresh, Watched
<1>2. DiskOK /\ FreshInv /\ [Next]_vars => FreshInv'
  <2> SUFFICES ASSUME DiskOK, FreshInv, [Next]_vars PROVE FreshInv'
    OBVIOUS
  <2>2. CASE WriteStd
    <3>1. UNCHANGED <<pc, files, seen, todo, opened, sources>> /\ clock' = clock + 1
      BY <2>2 DEF WriteStd, collected
    <3>2. \A f \in LogFiles : Anew(f)' = Anew(f) /\ Extended(f)' = Extended(f)
                              /\ (opened # Closed /\ Opened(f) => Opened(f)')
      BY <3>1 DEF Anew, Extended, Opened
    <3>3. LogLinesFresh'
      BY <3>1 DEF FreshInv, LogLinesFresh
    <3>4. clock \in Nat
      BY DEF DiskOK
    <3> QED
      BY <3>1, <3>2, <3>3, <3>4 DEF FreshInv
  <2>3. CASE Write \/ Rewrite \/ Touch
    <3>1. PICK g \in Files, L \in Seq(WrittenLine) : SavedAs(g, L)
      BY <2>3, FileSaved
    <3>2. UNCHANGED <<pc, seen, todo, opened, sources>> /\ clock' = clock + 1
      BY <2>3 DEF Write, Rewrite, Touch, collected
    <3> QED
      BY <3>1, <3>2, WrittenFresh
  <2>5. CASE StartDaemon \/ StopDaemon
    <3>1. UNCHANGED <<pc, files, seen, todo, opened, sources, clock>>
      BY <2>5 DEF StartDaemon, StopDaemon, disk, collected
    <3> QED
      BY <3>1 DEF FreshInv, LogLinesFresh, Anew, Extended, Opened
  <2>6. CASE StartRun \/ DeleteLogs \/ RecordRow
    <3>1. pc \in {"idle", "delete", "judged"} /\ pc' \in {"delete", "snapLogs", "raised", "idle"}
          /\ UNCHANGED <<todo, opened>> /\ sources' \in {sources, {}}
          /\ (pc = "judged" => sources' = {})
      BY <2>6 DEF StartRun, DeleteLogs, RecordRow, collected
    <3>2. sources' = {} /\ opened = Closed
      BY <3>1 DEF FreshInv
    <3> QED
      BY <3>1, <3>2 DEF FreshInv, LogLinesFresh, Watched
  <2>7. CASE SnapshotLogs
    <3>1. /\ pc = "snapLogs" /\ pc' = "snapShell"
          /\ UNCHANGED <<files, clock, todo, opened, sources>>
          /\ seen' = [f \in Files |-> IF f \in LogFiles THEN State(f) ELSE seen[f]]
      BY <2>7 DEF SnapshotLogs, Snapshot, disk
    <3>2. \A f \in LogFiles : /\ seen'[f].size = Len(files[f].lines)
                              /\ seen'[f].time = files[f].time
      BY <3>1 DEF State, Files
    <3>3. ASSUME NEW f \in LogFiles
          PROVE  /\ seen'[f] \in [size : Nat, time : Nat]
                 /\ seen'[f].time <= clock /\ Extended(f)'
      <4>1. /\ Len(files[f].lines) \in Nat /\ files[f].time \in Nat /\ files[f].time <= clock
            /\ \A i \in 1..Len(files[f].lines) : files[f].lines[i].at <= files[f].time
        BY DEF DiskOK, Files
      <4>2. (Len(files[f].lines) + 1)..Len(files[f].lines) = {}
        BY <4>1
      <4>3. seen'[f] = [size |-> Len(files[f].lines), time |-> files[f].time]
        BY <3>1 DEF State, Files
      <4> QED
        BY <3>1, <3>2, <4>1, <4>2, <4>3 DEF Extended
    <3>4. sources' = {} /\ opened' = Closed
      BY <3>1 DEF FreshInv
    <3> QED
      BY <3>1, <3>3, <3>4 DEF FreshInv, LogLinesFresh, Watched
  <2>8. CASE SnapshotShell
    <3>1. /\ pc = "snapShell" /\ pc' = "script"
          /\ UNCHANGED <<files, clock, todo, opened, sources>>
          /\ seen' = [f \in Files |-> IF f \in ShellFiles THEN State(f) ELSE seen[f]]
      BY <2>8 DEF SnapshotShell, Snapshot, disk
    <3>2. \A f \in LogFiles : seen'[f] = seen[f]
      BY <3>1, FilesAssumption DEF Files
    <3> QED
      BY <3>1, <3>2 DEF FreshInv, LogLinesFresh, Watched, Anew, Extended
  <2>9. CASE EndScript \/ NextDirectory
    <3>1. /\ pc \in {"script", "logs"} /\ pc' \in {"logs", "shell"} /\ opened = Closed
          /\ UNCHANGED <<files, clock, seen, opened>> /\ sources' \in {sources, {}}
          /\ todo' \subseteq Files
      BY <2>9 DEF EndScript, NextDirectory, disk, FreshInv, Files
    <3> QED
      BY <3>1 DEF FreshInv, LogLinesFresh, Watched, Anew, Extended
  <2>10. CASE PassOver
    <3>1. UNCHANGED <<pc, files, seen, opened, sources, clock>> /\ todo' \subseteq todo
      BY <2>10 DEF PassOver, disk
    <3> QED
      BY <3>1 DEF FreshInv, LogLinesFresh, Anew, Extended, Opened
  <2>11. CASE OpenFile
    <3>1. /\ pc \in {"logs", "shell"} /\ UNCHANGED <<pc, files, seen, sources, clock>>
          /\ todo' \subseteq todo
      BY <2>11 DEF OpenFile, Collecting, disk
    <3>2. PICK g \in todo : Changed(g) /\ opened' = [file |-> g, size |-> State(g).size,
                                                       time |-> State(g).time]
      BY <2>11 DEF OpenFile
    <3>3. g \in Files /\ opened'.file = g /\ opened'.size = Len(files[g].lines)
      BY <3>2 DEF FreshInv, State
    <3>4. ASSUME g \in LogFiles PROVE Opened(g)'
      <4>1. /\ seen[g].size \in Nat /\ Len(files[g].lines) \in Nat
            /\ Anew(g) \/ Extended(g)
        BY <3>1, <3>3, <3>4 DEF FreshInv, Watched, DiskOK
      <4>2. CASE Anew(g)
        BY <3>1, <3>3, <4>1, <4>2 DEF Opened, Anew
      <4>3. CASE Extended(g)
        BY <3>1, <3>3, <4>1, <4>3 DEF Opened, Extended
      <4> QED
        BY <4>1, <4>2, <4>3
    <3>5. \A f \in LogFiles : Opened(f)'
      BY <3>3, <3>4 DEF Opened
    <3> QED
      BY <3>1, <3>3, <3>5 DEF FreshInv, LogLinesFresh, Anew, Extended
  <2>12. CASE ReadFile
    <3>1. /\ pc \in {"logs", "shell"} /\ opened # Closed /\ opened' = Closed
          /\ UNCHANGED <<pc, files, seen, todo, clock>>
          /\ sources' = sources \cup
               (IF Blank(Content(opened.file)) THEN {}
                ELSE {[file |-> opened.file, lines |-> Range1(Content(opened.file))]})
      BY <2>12 DEF ReadFile, Collecting, disk
    <3> DEFINE f == opened.file
               Fresh == {l \in Range1(Content(f)) : l.at > seen[f].time}
    <3>2. ASSUME f \in LogFiles
          PROVE  Fresh = Range1(Content(f)) \/ \A l \in Fresh : l.kind = "blank"
      <4> DEFINE L == files[f].lines
                 k == Offset(f)
                 tail == SubSeq(L, k + 1, Len(L))
      <4>1. L \in Seq(WrittenLine) /\ Len(L) \in Nat /\ DOMAIN L = 1..Len(L)
        BY <3>2 DEF DiskOK, Files
      <4>2. /\ seen[f].size \in Nat /\ seen[f].time \in Nat /\ opened.size \in Nat
            /\ opened.size < seen[f].size => Anew(f)
            /\ Anew(f) \/ Extended(f)
        BY <3>1, <3>2 DEF FreshInv, Opened, Watched
      <4>3. k = IF opened.size < seen[f].size THEN 0 ELSE seen[f].size
        BY <3>2, FilesAssumption DEF Offset
      <4>4. k \in Nat
        BY <4>2, <4>3
      <4>5. /\ \A i \in DOMAIN tail : /\ k + i \in (k + 1)..Len(L) /\ k + i \in 1..Len(L)
                                     /\ tail[i] = L[k + i]
            /\ \A i \in (k + 1)..Len(L) : i - k \in DOMAIN tail /\ tail[i - k] = L[i]
        <5> HIDE DEF L, k
        <5> QED
          BY <4>1, <4>4, Suffix
      <4>6. Content(f) = IF Blank(tail) THEN L ELSE tail
        BY DEF Content
      <4> HIDE DEF k, tail, L
      <4>7. CASE Anew(f)
        <5>1. \A i \in DOMAIN L : L[i].at > seen[f].time
          BY <4>1, <4>7 DEF Anew, L
        <5>2. \A i \in DOMAIN tail : tail[i].at > seen[f].time
          BY <4>1, <4>5, <5>1
        <5> QED
          BY <4>6, <5>1, <5>2 DEF Range1
      <4>8. CASE ~Anew(f)
        <5>1. k = seen[f].size
          BY <4>2, <4>3, <4>8
        <5>2. /\ \A i \in 1..k : L[i].at <= seen[f].time
              /\ \A i \in (k + 1)..Len(L) : L[i].at > seen[f].time
          BY <4>2, <4>8, <5>1 DEF Extended, L
        <5>3. CASE ~Blank(tail)
          <6>1. \A i \in DOMAIN tail : tail[i].at > seen[f].time
            BY <4>5, <5>2
          <6> QED
            BY <4>6, <5>3, <6>1 DEF Range1
        <5>4. CASE Blank(tail)
          <6>1. ASSUME NEW i \in DOMAIN L, L[i].at > seen[f].time
                PROVE  L[i].kind = "blank"
            <7>1. L[i].at \in Nat
              <8>1. L[i] \in WrittenLine
                BY <4>1
              <8> QED
                BY <8>1 DEF WrittenLine
            <7>2. i \in (k + 1)..Len(L)
              BY <4>1, <4>2, <4>4, <5>2, <6>1, <7>1
            <7>3. i - k \in DOMAIN tail /\ tail[i - k] = L[i]
              BY <4>5, <7>2
            <7> QED
              BY <5>4, <7>3 DEF Blank
          <6> QED
            BY <4>6, <5>4, <6>1 DEF Range1
        <5> QED
          BY <5>3, <5>4
      <4> QED
        BY <4>7, <4>8
    <3>3. LogLinesFresh'
      <4> SUFFICES ASSUME NEW s \in sources', s.file \in LogFiles
                   PROVE  LET new == {l \in s.lines : l.at > seen[s.file].time}
                          IN  new = s.lines \/ \A l \in new : l.kind = "blank"
        BY <3>1 DEF LogLinesFresh
      <4>1. CASE s \in sources
        BY <4>1 DEF FreshInv, LogLinesFresh
      <4>2. CASE s = [file |-> f, lines |-> Range1(Content(f))]
        <5>1. s.file = f /\ s.lines = Range1(Content(f))
          BY <4>2
        <5> QED
          BY <3>2, <5>1
      <4> QED
        BY <3>1, <4>1, <4>2
    <3> QED
      BY <3>1, <3>3 DEF FreshInv, Anew, Extended
  <2>13. CASE Summarize
    <3>1. /\ pc = "shell" /\ pc' = "judged" /\ opened = Closed
          /\ UNCHANGED <<files, seen, todo, opened, sources, clock>>
      BY <2>13 DEF Summarize, disk
    <3> QED
      BY <3>1 DEF FreshInv, LogLinesFresh, Watched
  <2>14. CASE UNCHANGED vars
    BY <2>14 DEF vars, FreshInv, LogLinesFresh, Anew, Extended, Opened
  <2> QED
    BY <2>2, <2>3, <2>5, <2>6, <2>7, <2>8, <2>9, <2>10, <2>11, <2>12, <2>13, <2>14
    DEF Next, Writers, Tester, Collect
<1> QED
  BY <1>1, <1>2, DiskTyped, PTL DEF Spec

\* A line that was in a log file when the snapshot of a system test was taken is charged to
\* it only where nothing but blank lines was added to that file, and then the fallback to
\* the whole file charges them all; else what is charged is new, whatever any number of
\* writers append, truncate, write anew and touch between the steps of the collector.
THEOREM LinesFresh == Spec => []LogLinesFresh
<1>1. FreshInv => LogLinesFresh
  BY DEF FreshInv
<1> QED
  BY <1>1, FreshInductive, PTL

-----------------------------------------------------------------------------
(* The types, and what the row of a test case is made of.                  *)

PCs == {"idle", "delete", "snapLogs", "snapShell", "script", "logs", "shell", "judged", "raised"}
FileType == [lines : Seq(LineType), time : 0..clock]
SeenType == [size : Nat, time : 0..clock]
OpenedType == [file : Files, size : Nat, time : 1..clock]
SourceType == [file : Files, lines : SUBSET LineType]

Counters ==
    /\ pc \in PCs /\ run \in 0..MaxRuns /\ clock \in 0..MaxWrites /\ ended \in 0..clock
    /\ daemons \subseteq 1..run /\ todo \subseteq Files
    /\ pc # "idle" => run >= 1

Stored ==
    /\ files \in [Files -> FileType] /\ seen \in [Files -> SeenType]
    /\ opened = Closed \/ opened \in OpenedType

Collected ==
    /\ std \subseteq LineType /\ IsFiniteSet(std)
    /\ sources \subseteq SourceType /\ IsFiniteSet(sources)
    /\ \A s \in sources : IsFiniteSet(s.lines)

Judgement ==
    [of |-> run, lines |-> SourceLines,
     status |-> StatusOf(std = {} /\ sources = {}, Named(SourceLines) = {})]

Traced ==
    /\ trace.of \in 0..MaxRuns /\ trace.lines \subseteq LineType
    /\ trace.of = 0 => trace = NoTrace
    /\ pc = "judged" => trace = Judgement

RowsTyped == \A i \in DOMAIN rows : rows[i] \in RowType

Sorted == Counters /\ Stored /\ Collected /\ Traced /\ rows \in Seq(RowType)

LEMMA SortedTyped == Sorted => TypeOK
<1> SUFFICES ASSUME Sorted PROVE TypeOK
  OBVIOUS
<1>1. \A i \in DOMAIN rows : rows[i] \in RowType
  <2> DEFINE R == RowType
  <2>1. rows \in Seq(R)
    BY DEF Sorted
  <2> HIDE DEF R
  <2>2. \A i \in DOMAIN rows : rows[i] \in R
    BY <2>1
  <2> QED
    BY <2>2 DEF R
<1>2. /\ pc \in {"idle", "delete", "snapLogs", "snapShell", "script", "logs", "shell",
                "judged", "raised"}
      /\ run \in 0..MaxRuns /\ clock \in 0..MaxWrites /\ ended \in 0..clock
      /\ daemons \subseteq 1..run /\ todo \subseteq Files
  BY DEF Sorted, Counters, PCs
<1>3. /\ files \in [Files -> [lines : Seq(LineType), time : 0..clock]]
      /\ seen \in [Files -> [size : Nat, time : 0..clock]]
      /\ opened = Closed \/ opened \in [file : Files, size : Nat, time : 1..clock]
  BY DEF Sorted, Stored, FileType, SeenType, OpenedType
<1>4. std \subseteq LineType /\ sources \subseteq [file : Files, lines : SUBSET LineType]
  BY DEF Sorted, Collected, SourceType
<1>5. /\ trace.of \in 0..MaxRuns /\ trace.lines \subseteq LineType
      /\ trace.of = 0 => trace = NoTrace
  BY DEF Sorted, Traced
<1> HIDE DEF Files, LineType, RowType, Closed, NoTrace
<1> QED
  BY <1>1, <1>2, <1>3, <1>4, <1>5 DEF TypeOK

\* What is in time stays in time.
LEMMA TimePasses ==
    ASSUME Counters, clock' \in Nat, clock <= clock'
    PROVE  /\ FileType \subseteq FileType' /\ SeenType \subseteq SeenType'
           /\ OpenedType \subseteq OpenedType'
           /\ [Files -> SeenType] \subseteq [Files -> SeenType']
           /\ [Files -> FileType] \subseteq [Files -> FileType']
<1>1. clock \in Nat /\ 0..clock \subseteq 0..clock' /\ 1..clock \subseteq 1..clock'
  BY DEF Counters
<1>2. FileType \subseteq FileType'
  <2> HIDE DEF LineType
  <2> DEFINE S == Seq(LineType)
  <2>1. FileType = [lines : S, time : 0..clock] /\ FileType' = [lines : S, time : 0..clock']
    BY DEF FileType, LineType
  <2> HIDE DEF S
  <2> QED
    BY <1>1, <2>1
<1>3. SeenType \subseteq SeenType' /\ OpenedType \subseteq OpenedType'
  BY <1>1 DEF SeenType, OpenedType, Files
<1>4. [Files -> SeenType] \subseteq [Files -> SeenType']
  BY <1>3
<1>5. [Files -> FileType] \subseteq [Files -> FileType']
  BY <1>2
<1> QED
  BY <1>2, <1>3, <1>4, <1>5

LEMMA LineTyped ==
    ASSUME Counters, clock < MaxWrites, NEW by \in 1..run, NEW nth \in Nat, NEW kind \in LineKinds
    PROVE  Line(by, nth, kind) \in LineType
<1>1. by \in 1..MaxRuns /\ clock + 1 \in 1..MaxWrites
  BY TraceBoundsAssumption DEF Counters
<1> QED
  BY <1>1 DEF Line, LineType

LEMMA FileAt ==
    ASSUME Stored, NEW f \in Files
    PROVE  /\ files[f] \in FileType /\ files[f].lines \in Seq(LineType)
           /\ files[f].time \in 0..clock /\ Len(files[f].lines) \in Nat
<1>1. files[f] \in FileType
  BY DEF Stored
<1> DEFINE S == Seq(LineType)
<1>2. files[f] \in [lines : S, time : 0..clock]
  BY <1>1 DEF FileType
<1> HIDE DEF S
<1>3. files[f].lines \in S /\ files[f].time \in 0..clock
  BY <1>2
<1> QED
  BY <1>1, <1>3 DEF S

\* A writer has put some lines into a file.
LEMMA FileWritten ==
    ASSUME Counters, Stored, NEW f \in Files, NEW L \in Seq(LineType), clock < MaxWrites,
           files' = [files EXCEPT ![f] = [lines |-> L, time |-> clock + 1]],
           clock' = clock + 1, UNCHANGED <<seen, opened>>
    PROVE  Stored'
<1>1. clock \in Nat /\ clock' \in Nat /\ clock <= clock' /\ clock + 1 \in 0..clock'
  BY DEF Counters
<1>2. files \in [Files -> FileType'] /\ seen' \in [Files -> SeenType']
  BY <1>1, TimePasses DEF Stored
<1>3. opened' = Closed \/ opened' \in OpenedType'
  BY <1>1, TimePasses DEF Stored
<1>4. [lines |-> L, time |-> clock + 1] \in FileType'
  <2> DEFINE S == Seq(LineType)
  <2>1. FileType' = [lines : S, time : 0..clock']
    BY DEF FileType, LineType
  <2>2. L \in S
    OBVIOUS
  <2> HIDE DEF S
  <2> QED
    BY <1>1, <2>1, <2>2
<1>5. files' \in [Files -> FileType']
  <2> DEFINE T == FileType'
             new == [lines |-> L, time |-> clock + 1]
  <2>1. files \in [Files -> T] /\ new \in T /\ files' = [files EXCEPT ![f] = new]
    BY <1>2, <1>4
  <2> HIDE DEF T, new
  <2>2. files' \in [Files -> T]
    BY <2>1
  <2> QED
    BY <2>2 DEF T
<1> QED
  BY <1>2, <1>3, <1>5 DEF Stored, Closed, Files

LEMMA SuffixTyped ==
    ASSUME NEW S, NEW L \in Seq(S), NEW k \in Nat
    PROVE  SubSeq(L, k + 1, Len(L)) \in Seq(S)
<1>1. Len(L) \in Nat /\ \A i \in 1..Len(L) : L[i] \in S
  OBVIOUS
<1>2. CASE k < Len(L)
  <2>1. \A i \in (k + 1)..Len(L) : L[i] \in S
    BY <1>1
  <2> QED
    BY <1>1, <2>1, SubSeqProperties
<1>3. CASE ~(k < Len(L))
  BY <1>1, <1>3, SubSeqEmpty, EmptySeq
<1> QED
  BY <1>2, <1>3

LEMMA FiniteImage ==
    ASSUME NEW S, IsFiniteSet(S), NEW F, DOMAIN F = S, F = [x \in S |-> F[x]]
    PROVE  IsFiniteSet({F[x] : x \in S})
<1> DEFINE T == {F[x] : x \in S}
<1>1. F \in [S -> T] /\ \A t \in T : \E x \in S : F[x] = t
  OBVIOUS
<1> HIDE DEF T
<1>2. F \in Surjection(S, T)
  BY <1>1, Fun_IsSurj
<1>3. IsFiniteSet(T)
  BY <1>2, FS_Surjection
<1> QED
  BY <1>3 DEF T

LEMMA FiniteLines ==
    ASSUME NEW S, NEW L \in Seq(S)
    PROVE  Range1(L) \subseteq S /\ IsFiniteSet(Range1(L))
<1>1. DOMAIN L = 1..Len(L) /\ Len(L) \in Nat /\ \A i \in DOMAIN L : L[i] \in S
  OBVIOUS
<1>2. IsFiniteSet(1..Len(L))
  BY <1>1, FS_Interval
<1>3. IsFiniteSet({L[i] : i \in 1..Len(L)})
  BY <1>1, <1>2, FiniteImage
<1> QED
  BY <1>1, <1>3 DEF Range1

LEMMA ContentTyped ==
    ASSUME Counters, Stored, opened # Closed
    PROVE  /\ opened.file \in Files
           /\ Content(opened.file) \in Seq(LineType)
<1> DEFINE f == opened.file
           L == files[f].lines
<1>1. opened \in OpenedType
  BY DEF Stored
<1>2. f \in Files /\ opened.size \in Nat
  BY <1>1 DEF OpenedType
<1>3. L \in Seq(LineType)
  BY <1>2, FileAt
<1>4. Offset(f) \in Nat
  <2>1. seen[f] \in SeenType
    BY <1>2 DEF Stored
  <2>2. seen[f].size \in Nat
    BY <2>1 DEF SeenType
  <2> QED
    BY <2>2 DEF Offset
<1>5. SubSeq(L, Offset(f) + 1, Len(L)) \in Seq(LineType)
  <2> HIDE DEF f, L
  <2> QED
    BY <1>3, <1>4, SuffixTyped
<1>6. Content(f) \in {L, SubSeq(L, Offset(f) + 1, Len(L))}
  BY DEF Content
<1> QED
  BY <1>2, <1>3, <1>5, <1>6

LEMMA SourcesTyped ==
    ASSUME Collected
    PROVE  /\ SourceLines \subseteq LineType /\ IsFiniteSet(SourceLines)
           /\ std = {} /\ sources = {} => SourceLines = {}
<1> DEFINE U == {s.lines : s \in sources}
<1>1. \A s \in sources : s.lines \subseteq LineType
  <2> DEFINE T == SUBSET LineType
  <2>1. sources \subseteq [file : Files, lines : T]
    BY DEF Collected, SourceType
  <2> HIDE DEF T
  <2>2. \A s \in sources : s.lines \in T
    BY <2>1
  <2> QED
    BY <2>2 DEF T
<1>2. IsFiniteSet(U) /\ \A T \in U : IsFiniteSet(T)
  <2> DEFINE F == [s \in sources |-> s.lines]
  <2>1. IsFiniteSet(U)
    <3>1. IsFiniteSet(sources) /\ DOMAIN F = sources /\ F = [s \in sources |-> F[s]]
      BY DEF Collected
    <3>2. U = {F[s] : s \in sources}
      OBVIOUS
    <3> HIDE DEF F, U
    <3> QED
      BY <3>1, <3>2, FiniteImage
  <2> QED
    BY <2>1 DEF Collected
<1>3. IsFiniteSet(UNION U)
  <2> HIDE DEF U
  <2> QED
    BY <1>2, FS_UNION
<1>4. IsFiniteSet(SourceLines)
  BY <1>3, FS_Union DEF Collected, SourceLines
<1>5. SourceLines \subseteq LineType
  BY <1>1 DEF Collected, SourceLines
<1>6. std = {} /\ sources = {} => SourceLines = {}
  BY DEF SourceLines
<1> QED
  BY <1>4, <1>5, <1>6

\* What record_testcase writes agrees with itself.
LEMMA RowTyped ==
    ASSUME Sorted, pc = "judged"
    PROVE  [of |-> run, status |-> trace.status, artifacts |-> Artifacts,
            names |-> Cardinality(Named(trace.lines))] \in RowType
<1> DEFINE none == std = {} /\ sources = {}
           names == Named(SourceLines)
<1>1. trace = Judgement
  BY DEF Sorted, Traced
<1>2. trace.status = StatusOf(none, names = {}) /\ trace.lines = SourceLines
  BY <1>1 DEF Judgement
<1>3. run \in 1..MaxRuns
  BY TraceBoundsAssumption DEF Sorted, Counters
<1>4. Artifacts \in Nat /\ (Artifacts = 0 <=> none)
  <2>1. IsFiniteSet(sources)
    BY DEF Sorted, Collected
  <2>2. Cardinality(sources) \in Nat /\ (Cardinality(sources) = 0 <=> sources = {})
    BY <2>1, FS_CardinalityType, FS_EmptySet
  <2> QED
    BY <2>2 DEF Artifacts
<1>5. Cardinality(names) \in Nat /\ (Cardinality(names) = 0 <=> names = {})
  <2>1. IsFiniteSet(SourceLines) /\ names \subseteq SourceLines
    BY SourcesTyped DEF Sorted, Named
  <2>2. IsFiniteSet(names)
    BY <2>1, FS_Subset
  <2> HIDE DEF names
  <2> QED
    BY <2>2, FS_CardinalityType, FS_EmptySet
<1>6. none => names = {}
  BY SourcesTyped DEF Sorted, Named
<1>7. /\ trace.status \in {"no-sources", "no-names", "names"}
      /\ trace.status = "no-sources" <=> none
      /\ trace.status = "names" <=> ~none /\ names # {}
  <2> HIDE DEF none, names
  <2> QED
    BY <1>2 DEF StatusOf
<1> DEFINE row == [of |-> run, status |-> trace.status, artifacts |-> Artifacts,
                   names |-> Cardinality(names)]
<1> HIDE DEF none, names
<1>8. row \in RowType
  BY <1>3, <1>4, <1>5, <1>6, <1>7 DEF RowType
<1> QED
  BY <1>2, <1>8 DEF names

\* The steps that leave the files and the clock alone.
LEMMA FilesStay ==
    ASSUME Stored, UNCHANGED <<files, clock>>, seen' \in [Files -> SeenType],
           opened' = Closed \/ opened' \in OpenedType
    PROVE  Stored'
<1>1. FileType' = FileType /\ SeenType' = SeenType /\ OpenedType' = OpenedType
  BY DEF FileType, SeenType, OpenedType, LineType, Files
<1> QED
  BY <1>1 DEF Stored, Files, Closed

\* The steps of the writers.
LEMMA WrittenSorted ==
    ASSUME Sorted, Writers
    PROVE  Sorted'
<1>1. /\ UNCHANGED <<pc, run, seen, todo, opened, sources, trace, rows, ended>>
      /\ Counters /\ Stored /\ Collected /\ Traced
  BY DEF Writers, WriteStd, Write, Rewrite, Touch, StartDaemon, StopDaemon, collected, disk,
         Sorted
<1>2. CASE WriteStd \/ Write \/ Rewrite \/ Touch
  <2>1. clock < MaxWrites /\ clock' = clock + 1 /\ daemons' = daemons
    BY <1>2 DEF WriteStd, Write, Rewrite, Touch
  <2>2. clock \in Nat /\ clock' \in 0..MaxWrites /\ clock <= clock' /\ 0..clock \subseteq 0..clock'
    BY <1>1, <2>1, TraceBoundsAssumption DEF Counters
  <2>3. Counters'
    BY <1>1, <2>1, <2>2 DEF Counters, Files
  <2>4. CASE WriteStd
    <3>1. PICK kind \in LineKinds : std' = std \cup {Line(run, 1, kind)}
      BY <2>4 DEF WriteStd
    <3>2. pc = "script" /\ files' = files /\ run \in 1..run
      BY <1>1, <2>4 DEF WriteStd, Counters
    <3>3. Line(run, 1, kind) \in LineType
      BY <1>1, <2>1, <3>2, LineTyped
    <3>4. std' \subseteq LineType /\ IsFiniteSet(std')
      BY <1>1, <3>1, <3>3, FS_AddElement DEF Collected
    <3>5. Collected'
      BY <1>1, <3>4 DEF Collected, SourceType, LineType, Files
    <3>6. Stored'
      <4>1. files' \in [Files -> FileType'] /\ seen' \in [Files -> SeenType']
        BY <1>1, <2>2, <3>2, TimePasses DEF Stored
      <4>2. opened' = Closed \/ opened' \in OpenedType'
        BY <1>1, <2>2, TimePasses DEF Stored
      <4> QED
        BY <4>1, <4>2 DEF Stored, Files, Closed
    <3>7. Traced'
      BY <1>1, <3>2 DEF Traced, LineType, NoTrace
    <3> QED
      BY <1>1, <2>3, <3>5, <3>6, <3>7 DEF Sorted, RowType
  <2>5. CASE Write \/ Rewrite \/ Touch
    <3>1. PICK f \in Files, L \in Seq(LineType) :
            files' = [files EXCEPT ![f] = [lines |-> L, time |-> clock + 1]]
      <4>1. CASE Write
        <5>1. PICK by \in 1..run, f \in Files, kind \in FileKinds :
                 Saved(f, Append(files[f].lines, Line(by, Len(files[f].lines) + 1, kind)))
          BY <4>1 DEF Write
        <5> DEFINE line == Line(by, Len(files[f].lines) + 1, kind)
                   L    == Append(files[f].lines, line)
        <5>2. files[f].lines \in Seq(LineType) /\ Len(files[f].lines) + 1 \in Nat
          BY <1>1, FileAt
        <5>3. line \in LineType
          BY <1>1, <2>1, <5>2, FilesAssumption, LineTyped
        <5>4. L \in Seq(LineType)
          <6> DEFINE T == LineType
          <6> HIDE DEF line, T
          <6>1. files[f].lines \in Seq(T) /\ line \in T
            BY <5>2, <5>3 DEF T
          <6> QED
            BY <6>1 DEF T
        <5>5. files' = [files EXCEPT ![f] = [lines |-> L, time |-> clock + 1]]
          BY <5>1 DEF Saved
        <5> HIDE DEF L
        <5> QED
          BY <5>4, <5>5
      <4>2. CASE Rewrite
        <5>1. PICK by \in 1..run, f \in Files, size \in Nat, kind \in FileKinds :
                Saved(f, [i \in 1..size |-> Line(by, i, kind)])
          BY <4>2, SizesNatural DEF Rewrite
        <5> DEFINE L == [i \in 1..size |-> Line(by, i, kind)]
        <5>2. \A i \in 1..size : Line(by, i, kind) \in LineType
          BY <1>1, <2>1, <5>1, FilesAssumption, LineTyped
        <5>3. L \in Seq(LineType)
          <6> DEFINE T == LineType
          <6>1. \A i \in 1..size : Line(by, i, kind) \in T
            BY <5>2
          <6> HIDE DEF T
          <6>2. L \in Seq(T)
            BY <5>1, <6>1
          <6> QED
            BY <6>2 DEF T
        <5>4. files' = [files EXCEPT ![f] = [lines |-> L, time |-> clock + 1]]
          BY <5>1 DEF Saved
        <5> HIDE DEF L
        <5> QED
          BY <5>3, <5>4
      <4>3. CASE Touch
        <5>1. PICK f \in Files : Saved(f, files[f].lines)
          BY <4>3 DEF Touch
        <5>2. files[f].lines \in Seq(LineType)
          BY <1>1, FileAt
        <5> QED
          BY <5>1, <5>2 DEF Saved
      <4> QED
        BY <2>5, <4>1, <4>2, <4>3
    <3>2. std' = std
      BY <2>5 DEF Write, Rewrite, Touch
    <3>3. Stored'
      BY <1>1, <2>1, <3>1, FileWritten
    <3>4. Collected'
      BY <1>1, <3>2 DEF Collected, SourceType, LineType, Files
    <3>5. Traced'
      BY <1>1, <3>2 DEF Traced, Judgement, SourceLines, Named, StatusOf, LineType, NoTrace
    <3> QED
      BY <1>1, <2>3, <3>3, <3>4, <3>5 DEF Sorted, RowType
  <2> QED
    BY <1>2, <2>4, <2>5
<1>3. CASE StartDaemon \/ StopDaemon
  <2>1. UNCHANGED <<clock, files, std>> /\ daemons' \subseteq 1..run
    <3>1. daemons \subseteq 1..run /\ (pc = "script" => run \in 1..run)
      BY <1>1 DEF Counters
    <3>2. CASE StartDaemon
      BY <3>1, <3>2 DEF StartDaemon, disk
    <3>3. CASE StopDaemon
      BY <3>1, <3>3 DEF StopDaemon, disk
    <3> QED
      BY <1>3, <3>2, <3>3
  <2>2. Counters'
    BY <1>1, <2>1 DEF Counters, Files
  <2>3. Stored'
    BY <1>1, <2>1, FilesStay DEF Stored
  <2>4. Collected'
    BY <1>1, <2>1 DEF Collected, SourceType, LineType, Files
  <2>5. Traced'
    BY <1>1, <2>1 DEF Traced, Judgement, SourceLines, Named, StatusOf, LineType, NoTrace
  <2> QED
    BY <1>1, <2>2, <2>3, <2>4, <2>5 DEF Sorted, RowType
<1> QED
  BY <1>2, <1>3 DEF Writers

\* The steps of the tester, and the return of the script.
LEMMA TesterSorted ==
    ASSUME Sorted, Tester \/ EndScript
    PROVE  Sorted'
<1>1. Counters /\ Stored /\ Collected /\ Traced
  BY DEF Sorted
<1>2. clock' = clock
  BY DEF Tester, EndScript, StartRun, DeleteLogs, SnapshotLogs, SnapshotShell, Collect, PassOver,
         OpenFile, ReadFile, NextDirectory, Summarize, RecordRow, disk
<1>3. Counters'
  <2>1. CASE StartRun
    <3>1. run < MaxRuns /\ run' = run + 1 /\ pc' = "delete" /\ UNCHANGED <<daemons, todo, ended>>
      BY <2>1 DEF StartRun
    <3>2. run' \in 0..MaxRuns /\ run' >= 1 /\ 1..run \subseteq 1..run'
      BY <1>1, <3>1, TraceBoundsAssumption DEF Counters
    <3> QED
      BY <1>1, <1>2, <3>1, <3>2 DEF Counters, PCs, Files
  <2>2. CASE EndScript \/ NextDirectory
    <3>1. UNCHANGED <<run, daemons>> /\ pc # "idle"
      BY <2>2 DEF EndScript, NextDirectory
    <3>2. pc' \in {"logs", "shell"} /\ todo' \in {LogFiles, ShellFiles}
      BY <2>2 DEF EndScript, NextDirectory
    <3>3. ended' \in {ended, clock}
      BY <2>2 DEF EndScript, NextDirectory
    <3> QED
      BY <1>1, <1>2, <3>1, <3>2, <3>3 DEF Counters, PCs, Files
  <2>3. CASE PassOver \/ OpenFile \/ ReadFile
    <3>1. UNCHANGED <<pc, run, clock, ended, daemons>> /\ todo' \subseteq todo
      BY <2>3 DEF PassOver, OpenFile, ReadFile, disk
    <3> QED
      BY <1>1, <3>1 DEF Counters, Files
  <2>4. CASE DeleteLogs \/ SnapshotLogs \/ SnapshotShell \/ Summarize \/ RecordRow
    <3>1. UNCHANGED <<run, clock, daemons, todo>> /\ ended' \in {ended, 0}
      BY <2>4 DEF DeleteLogs, SnapshotLogs, SnapshotShell, Summarize, RecordRow, disk, collected
    <3>2. /\ pc \in {"delete", "snapLogs", "snapShell", "shell", "judged"}
          /\ pc' \in {"snapLogs", "raised", "snapShell", "script", "judged", "idle"}
      BY <2>4 DEF DeleteLogs, SnapshotLogs, SnapshotShell, Summarize, RecordRow
    <3> QED
      BY <1>1, <3>1, <3>2 DEF Counters, PCs, Files
  <2> QED
    BY <2>1, <2>2, <2>3, <2>4 DEF Tester, Collect
<1>4. files' \in [Files -> FileType]
  <2>1. CASE UNCHANGED files
    BY <1>1, <2>1 DEF Stored
  <2>2. CASE DeleteLogs
    <3>1. PICK some \in SUBSET LogFiles :
             files' = [f \in Files |-> IF f \in some THEN NoFile ELSE files[f]]
      BY <2>2 DEF DeleteLogs
    <3>2. NoFile \in FileType
      <4> DEFINE S == Seq(LineType)
      <4>1. <<>> \in S /\ 0 \in 0..clock
        BY <1>1, EmptySeq DEF Counters
      <4> HIDE DEF S
      <4>2. NoFile \in [lines : S, time : 0..clock]
        BY <4>1 DEF NoFile
      <4> QED
        BY <4>2 DEF FileType, S
    <3> HIDE DEF NoFile
    <3> QED
      BY <1>1, <3>1, <3>2 DEF Stored
  <2> QED
    BY <2>1, <2>2 DEF Tester, EndScript, StartRun, SnapshotLogs, SnapshotShell, Collect, PassOver,
         OpenFile, ReadFile, NextDirectory, Summarize, RecordRow, disk
<1>5. \A f \in Files : State(f) \in SeenType
  BY <1>1, FileAt DEF State, SeenType
<1>6. seen' \in [Files -> SeenType]
  <2>1. CASE UNCHANGED seen
    BY <1>1, <2>1 DEF Stored
  <2>2. CASE SnapshotLogs \/ SnapshotShell
    <3>1. PICK dir : seen' = [f \in Files |-> IF f \in dir THEN State(f) ELSE seen[f]]
      BY <2>2 DEF SnapshotLogs, SnapshotShell, Snapshot
    <3> QED
      BY <1>1, <1>5, <3>1 DEF Stored
  <2>3. CASE RecordRow
    BY <1>1, <2>3 DEF RecordRow, NotSeen, SeenType, Counters
  <2> QED
    BY <2>1, <2>2, <2>3 DEF Tester, EndScript, StartRun, DeleteLogs, Collect, PassOver,
         OpenFile, ReadFile, NextDirectory, Summarize, collected
<1>7. opened' = Closed \/ opened' \in OpenedType
  <2>1. CASE opened' \in {opened, Closed}
    BY <1>1, <2>1 DEF Stored
  <2>2. CASE OpenFile
    <3>1. PICK f \in todo : Changed(f) /\ opened' = [file |-> f, size |-> State(f).size,
                                                       time |-> State(f).time]
      BY <2>2 DEF OpenFile
    <3>2. f \in Files
      BY <1>1, <3>1 DEF Counters
    <3>3. State(f).size \in Nat /\ State(f).time \in 0..clock
      BY <1>1, <3>2, FileAt DEF State
    <3>4. State(f).time # 0
      BY <3>1 DEF Changed, Exists, State
    <3> QED
      BY <1>1, <3>1, <3>2, <3>3, <3>4 DEF OpenedType, Counters
  <2> QED
    BY <2>1, <2>2 DEF Tester, EndScript, StartRun, DeleteLogs, SnapshotLogs, SnapshotShell, Collect,
         PassOver, ReadFile, NextDirectory, Summarize, RecordRow, collected
<1>8. Stored'
  <2>1. FileType' = FileType /\ SeenType' = SeenType /\ OpenedType' = OpenedType
    BY <1>2 DEF FileType, SeenType, OpenedType, LineType, Files
  <2> QED
    BY <1>4, <1>6, <1>7, <2>1 DEF Stored, Files, Closed
<1>9. Collected'
  <2>1. CASE std' \in {std, {}} /\ sources' \in {sources, {}}
    BY <1>1, <2>1, FS_EmptySet DEF Collected, SourceType, LineType, Files
  <2>2. CASE ReadFile
    <3> DEFINE L == Content(opened.file)
               source == [file |-> opened.file, lines |-> Range1(L)]
    <3>1. opened.file \in Files /\ L \in Seq(LineType)
      BY <1>1, <2>2, ContentTyped DEF ReadFile
    <3>2. Range1(L) \subseteq LineType /\ IsFiniteSet(Range1(L))
      <4> HIDE DEF L
      <4> QED
        BY <3>1, FiniteLines
    <3>3. source \in SourceType /\ IsFiniteSet(source.lines)
      <4> DEFINE T == SUBSET LineType
      <4>1. Range1(L) \in T
        BY <3>2
      <4> HIDE DEF T, L
      <4>2. source \in [file : Files, lines : T]
        BY <3>1, <4>1
      <4> QED
        BY <3>2, <4>2 DEF SourceType, T
    <3>4. sources' \in {sources, sources \cup {source}} /\ std' = std
      BY <2>2 DEF ReadFile, disk
    <3>5. IsFiniteSet(sources \cup {source})
      <4> HIDE DEF source
      <4> QED
        BY <1>1, FS_AddElement DEF Collected
    <3> HIDE DEF source
    <3>6. /\ sources' \subseteq SourceType /\ IsFiniteSet(sources')
          /\ \A s \in sources' : IsFiniteSet(s.lines)
      BY <1>1, <3>3, <3>4, <3>5 DEF Collected
    <3> QED
      BY <1>1, <3>4, <3>6 DEF Collected, SourceType, LineType, Files
  <2> QED
    BY <2>1, <2>2 DEF Tester, EndScript, StartRun, DeleteLogs, SnapshotLogs, SnapshotShell, Collect,
         PassOver, OpenFile, NextDirectory, Summarize, RecordRow, collected, disk
<1>10. Traced'
  <2>1. CASE StartRun
    BY <2>1, TraceBoundsAssumption DEF StartRun, Reset, NoTrace, Traced
  <2>2. CASE Summarize
    <3>1. trace' = Judgement /\ Judgement' = Judgement
      BY <2>2 DEF Summarize, Judgement, SourceLines, Named, StatusOf, disk
    <3>2. run \in 1..MaxRuns
      BY <1>1, <2>2 DEF Summarize, Counters
    <3>3. SourceLines \subseteq LineType
      BY <1>1, SourcesTyped
    <3> QED
      BY <3>1, <3>2, <3>3 DEF Traced, Judgement, LineType
  <2>3. CASE UNCHANGED trace /\ pc' # "judged"
    BY <1>1, <2>3 DEF Traced, LineType, NoTrace
  <2>4. pc' # "judged" \/ Summarize
    BY DEF Tester, EndScript, StartRun, DeleteLogs, SnapshotLogs, SnapshotShell, Collect, PassOver,
           OpenFile, ReadFile, NextDirectory, Collecting, RecordRow
  <2>5. UNCHANGED trace \/ StartRun \/ Summarize
    BY DEF Tester, EndScript, DeleteLogs, SnapshotLogs, SnapshotShell, Collect, PassOver,
           OpenFile, ReadFile, NextDirectory, RecordRow, collected
  <2> QED
    BY <2>1, <2>2, <2>3, <2>4, <2>5
<1>11. rows' \in Seq(RowType)
  <2>1. CASE UNCHANGED rows
    BY <2>1 DEF Sorted
  <2>3. CASE StartRun
    BY <2>3, EmptySeq DEF StartRun
  <2>2. CASE RecordRow
    <3> DEFINE row == [of |-> run, status |-> trace.status, artifacts |-> Artifacts,
                       names |-> Cardinality(Named(trace.lines))]
               R == RowType
    <3>1. row \in R /\ rows \in Seq(R)
      BY <2>2, RowTyped DEF RecordRow, Sorted
    <3>2. rows' = Append(rows, row)
      BY <2>2 DEF RecordRow
    <3> HIDE DEF row, R
    <3>3. rows' \in Seq(R)
      BY <3>1, <3>2
    <3> QED
      BY <3>3 DEF R
  <2> QED
    BY <2>1, <2>2, <2>3 DEF Tester, EndScript, DeleteLogs, SnapshotLogs, SnapshotShell, Collect,
         PassOver, OpenFile, ReadFile, NextDirectory, Summarize, collected
<1> QED
  BY <1>3, <1>8, <1>9, <1>10, <1>11 DEF Sorted, RowType

LEMMA SortedInductive == Spec => []Sorted
<1>1. Init => Sorted
  <2> SUFFICES ASSUME Init PROVE Sorted
    OBVIOUS
  <2>1. Counters
    BY TraceBoundsAssumption DEF Init, Counters, PCs
  <2>2. Stored
    <3> DEFINE S == Seq(LineType)
    <3>1. <<>> \in S /\ 0 \in 0..clock
      BY EmptySeq DEF Init
    <3> HIDE DEF S
    <3>2. NoFile \in [lines : S, time : 0..clock]
      BY <3>1 DEF NoFile
    <3>3. NoFile \in FileType /\ NotSeen \in SeenType
      BY <3>1, <3>2 DEF FileType, S, NotSeen, SeenType
    <3> HIDE DEF NoFile, NotSeen
    <3> QED
      BY <3>3 DEF Init, Stored
  <2>3. Collected
    BY FS_EmptySet DEF Init, Collected
  <2>4. Traced
    BY TraceBoundsAssumption DEF Init, Traced, NoTrace
  <2>5. rows \in Seq(RowType)
    BY EmptySeq DEF Init
  <2> QED
    BY <2>1, <2>2, <2>3, <2>4, <2>5 DEF Sorted
<1>2. Sorted /\ UNCHANGED vars => Sorted'
  <2> SUFFICES ASSUME Sorted, UNCHANGED vars PROVE Sorted'
    OBVIOUS
  <2>1. /\ UNCHANGED <<pc, run, clock, ended, daemons, todo, files, seen, opened>>
        /\ UNCHANGED <<std, sources, trace, rows>>
    BY DEF vars
  <2>2. Counters' /\ Collected'
    BY <2>1 DEF Sorted, Counters, Collected, SourceType, LineType, Files
  <2>3. Stored'
    BY <2>1, FilesStay DEF Sorted, Stored
  <2>4. Traced'
    BY <2>1 DEF Sorted, Traced, Judgement, SourceLines, Named, StatusOf, LineType, NoTrace
  <2> QED
    BY <2>1, <2>2, <2>3, <2>4 DEF Sorted, RowType
<1>3. Sorted /\ [Next]_vars => Sorted'
  BY <1>2, WrittenSorted, TesterSorted DEF Next
<1> QED
  BY <1>1, <1>3, PTL DEF Spec

\* In the row of a test case, the status, the count of names and the artifacts, which
\* _summarize_trace_run, record_testcase and preserve_system_trace_artifacts work out of what
\* the collector left, agree, whatever is written meanwhile.
THEOREM TraceTyping == Spec => []TypeOK
BY SortedInductive, SortedTyped, PTL

-----------------------------------------------------------------------------
(* What the script wrote is in the trace.                                  *)

LineAt(f, i) == files[f].lines[i]
Places(f) == DOMAIN files[f].lines

\* A line knows its place, and its file is as new as the line.
Numbered ==
    \A f \in Files : \A i \in Places(f) :
        LineAt(f, i).nth = i /\ LineAt(f, i).at <= files[f].time /\ LineAt(f, i).by <= run

\* No file has a line of the run before its script starts, and then every line of it is
\* later than what the snapshot saw of the file.
OwnLines ==
    /\ pc \in {"delete", "snapLogs", "snapShell"} =>
          run \notin daemons /\ \A f \in Files : \A i \in Places(f) : LineAt(f, i).by # run
    /\ pc \in {"script", "logs", "shell", "judged"} =>
          \A f \in Files : \A i \in Places(f) :
              LineAt(f, i).by = run => LineAt(f, i).at > seen[f].time

\* The collector has still to read the file, or has it open.
Waiting(f) ==
    /\ pc # "judged"
    /\ f \in todo \/ (pc = "logs" /\ f \in ShellFiles) \/ (opened # Closed /\ opened.file = f)

Charged == IF pc = "judged" THEN trace.lines ELSE UNION {s.lines : s \in sources}

LineKept(f, i) ==
    \/ LineAt(f, i).by # run \/ LineAt(f, i).at > ended \/ LineAt(f, i).kind = "blank"
    \/ LineAt(f, i) \in Charged
    \/ f \in LogFiles /\ i <= seen[f].size
    \/ Waiting(f)

Kept == pc \in {"logs", "shell", "judged"} => \A f \in Files : \A i \in Places(f) : LineKept(f, i)

KeptInv == Numbered /\ OwnLines /\ Kept

LEMMA Measures ==
    ASSUME Sorted
    PROVE  /\ clock \in Nat /\ ended \in Nat /\ ended <= clock /\ run \in Nat
           /\ \A f \in Files :
                /\ files[f].lines \in Seq(LineType) /\ Places(f) = 1..Len(files[f].lines)
                /\ Len(files[f].lines) \in Nat
                /\ files[f].time \in Nat /\ files[f].time <= clock
                /\ seen[f].time \in Nat /\ seen[f].time <= clock /\ seen[f].size \in Nat
                /\ \A i \in Places(f) : /\ LineAt(f, i).by \in Nat /\ i \in Nat
                                        /\ LineAt(f, i).at \in Nat \ {0}
<1>1. /\ clock \in Nat /\ ended \in Nat /\ ended <= clock /\ run \in Nat
  BY DEF Sorted, Counters
<1>2. ASSUME NEW f \in Files
      PROVE  /\ files[f].lines \in Seq(LineType) /\ Places(f) = 1..Len(files[f].lines)
             /\ Len(files[f].lines) \in Nat
             /\ files[f].time \in Nat /\ files[f].time <= clock
             /\ seen[f].time \in Nat /\ seen[f].time <= clock /\ seen[f].size \in Nat
             /\ \A i \in Places(f) : /\ LineAt(f, i).by \in Nat /\ i \in Nat
                                     /\ LineAt(f, i).at \in Nat \ {0}
  <2>1. /\ files[f].lines \in Seq(LineType) /\ files[f].time \in 0..clock
        /\ Len(files[f].lines) \in Nat
    BY FileAt DEF Sorted
  <2>2. seen[f] \in SeenType
    BY DEF Sorted, Stored
  <2>3. seen[f].time \in Nat /\ seen[f].time <= clock /\ seen[f].size \in Nat
    BY <1>1, <2>2 DEF SeenType
  <2>4. Places(f) = 1..Len(files[f].lines) /\ \A i \in Places(f) : LineAt(f, i) \in LineType
    <3> DEFINE T == LineType
    <3>1. files[f].lines \in Seq(T)
      BY <2>1
    <3> HIDE DEF T
    <3>2. Places(f) = 1..Len(files[f].lines) /\ \A i \in Places(f) : LineAt(f, i) \in T
      BY <3>1 DEF Places, LineAt
    <3> QED
      BY <3>2 DEF T
  <2>5. \A i \in Places(f) : /\ LineAt(f, i).by \in Nat /\ i \in Nat
                             /\ LineAt(f, i).at \in Nat \ {0}
    BY <2>1, <2>4, TraceBoundsAssumption DEF LineType
  <2> QED
    BY <1>1, <2>1, <2>3, <2>4, <2>5
<1> QED
  BY <1>1, <1>2

\* What a write does to the lines of a file: each is an old one in its place, or one of the
\* writer with the time of the write.
WrittenBy(g, by) ==
    /\ Writing(by) /\ clock' = clock + 1
    /\ UNCHANGED <<pc, run, daemons, seen, todo, opened, sources, trace, ended>>
    /\ \A f \in Files \ {g} : files'[f] = files[f]
    /\ files'[g].time = clock + 1
    /\ \A i \in DOMAIN files'[g].lines :
         \/ i \in Places(g) /\ files'[g].lines[i] = LineAt(g, i)
         \/ /\ files'[g].lines[i].by = by /\ files'[g].lines[i].at = clock + 1
            /\ files'[g].lines[i].nth = i

LEMMA WriteEffect ==
    ASSUME Sorted, Write \/ Rewrite \/ Touch
    PROVE  \E g \in Files, by \in 1..run : WrittenBy(g, by)
<1>1. /\ UNCHANGED <<pc, run, daemons, seen, todo, opened, sources, trace, ended>>
      /\ clock' = clock + 1
  BY DEF Write, Rewrite, Touch, collected
<1>2. CASE Write
  <2>1. PICK by \in 1..run, g \in Files, kind \in FileKinds :
           /\ Writing(by)
           /\ Saved(g, Append(files[g].lines, Line(by, Len(files[g].lines) + 1, kind)))
    BY <1>2 DEF Write
  <2> DEFINE L    == files[g].lines
             line == Line(by, Len(L) + 1, kind)
  <2>2. files' = [files EXCEPT ![g] = [lines |-> Append(L, line), time |-> clock + 1]]
    BY <2>1 DEF Saved
  <2>3. files'[g] = [lines |-> Append(L, line), time |-> clock + 1]
        /\ \A f \in Files \ {g} : files'[f] = files[f]
    <3> DEFINE file == [lines |-> Append(L, line), time |-> clock + 1]
    <3>1. files' = [files EXCEPT ![g] = file] /\ DOMAIN files = Files
      BY <2>2 DEF Sorted, Stored
    <3> HIDE DEF file
    <3>2. files'[g] = file /\ \A f \in Files \ {g} : files'[f] = files[f]
      BY <3>1
    <3> QED
      BY <3>2 DEF file
  <2>4. line.by = by /\ line.at = clock + 1 /\ line.nth = Len(L) + 1
    BY DEF Line
  <2>5. L \in Seq(LineType) /\ Len(L) \in Nat /\ Places(g) = 1..Len(L)
    BY Measures
  <2> HIDE DEF line
  <2>6. /\ DOMAIN Append(L, line) = 1..(Len(L) + 1) /\ Append(L, line)[Len(L) + 1] = line
        /\ \A i \in 1..Len(L) : Append(L, line)[i] = L[i]
    BY <2>5
  <2>7. \A i \in DOMAIN files'[g].lines :
           \/ i \in Places(g) /\ files'[g].lines[i] = LineAt(g, i)
           \/ /\ files'[g].lines[i].by = by /\ files'[g].lines[i].at = clock + 1
              /\ files'[g].lines[i].nth = i
    <3> SUFFICES ASSUME NEW i \in 1..(Len(L) + 1)
                 PROVE  \/ i \in Places(g) /\ files'[g].lines[i] = LineAt(g, i)
                        \/ /\ files'[g].lines[i].by = by /\ files'[g].lines[i].at = clock + 1
                           /\ files'[g].lines[i].nth = i
      BY <2>3, <2>6
    <3>1. CASE i = Len(L) + 1
      BY <2>3, <2>4, <2>6, <3>1
    <3>2. CASE i # Len(L) + 1
      <4>1. i \in 1..Len(L)
        BY <2>5, <3>2
      <4> QED
        BY <2>3, <2>5, <2>6, <4>1 DEF LineAt
    <3> QED
      BY <3>1, <3>2
  <2>8. files'[g].time = clock + 1
    BY <2>3
  <2>9. WrittenBy(g, by)
    BY <1>1, <2>1, <2>3, <2>7, <2>8 DEF WrittenBy
  <2> QED
    BY <2>9
<1>3. CASE Rewrite
  <2>1. PICK by \in 1..run, g \in Files, size \in 0..MaxRewrite, kind \in FileKinds :
          Writing(by) /\ Saved(g, [i \in 1..size |-> Line(by, i, kind)])
    BY <1>3 DEF Rewrite
  <2> DEFINE L    == [i \in 1..size |-> Line(by, i, kind)]
             file == [lines |-> L, time |-> clock + 1]
  <2>2. files'[g] = file /\ \A f \in Files \ {g} : files'[f] = files[f]
    <3>1. files' = [files EXCEPT ![g] = file] /\ DOMAIN files = Files
      BY <2>1 DEF Saved, Sorted, Stored
    <3> HIDE DEF file
    <3> QED
      BY <3>1
  <2>3. \A i \in 1..size : L[i].by = by /\ L[i].at = clock + 1 /\ L[i].nth = i
    BY DEF Line
  <2>4. DOMAIN L = 1..size
    OBVIOUS
  <2> HIDE DEF L
  <2>5. files'[g].time = clock + 1 /\ files'[g].lines = L
    BY <2>2
  <2> HIDE DEF file
  <2>6. WrittenBy(g, by)
    BY <1>1, <2>1, <2>2, <2>3, <2>4, <2>5 DEF WrittenBy
  <2> QED
    BY <2>6
<1>4. CASE Touch
  <2>1. PICK by \in 1..run, g \in Files : Writing(by) /\ Saved(g, files[g].lines)
    BY <1>4 DEF Touch
  <2> DEFINE file == [lines |-> files[g].lines, time |-> clock + 1]
  <2>2. files'[g] = file /\ \A f \in Files \ {g} : files'[f] = files[f]
    <3>1. files' = [files EXCEPT ![g] = file] /\ DOMAIN files = Files
      BY <2>1 DEF Saved, Sorted, Stored
    <3> HIDE DEF file
    <3> QED
      BY <3>1
  <2>3. files'[g].time = clock + 1 /\ files'[g].lines = files[g].lines
    BY <2>2
  <2> HIDE DEF file
  <2>4. WrittenBy(g, by)
    BY <1>1, <2>1, <2>2, <2>3 DEF WrittenBy, Places, LineAt
  <2> QED
    BY <2>4
<1> QED
  BY <1>2, <1>3, <1>4

LEMMA WriteKeeps ==
    ASSUME Sorted, KeptInv, Write \/ Rewrite \/ Touch
    PROVE  KeptInv'
<1>1. PICK g \in Files, by \in 1..run : WrittenBy(g, by)
  BY WriteEffect
<1>2. /\ Writing(by) /\ clock' = clock + 1 /\ files'[g].time = clock + 1
      /\ UNCHANGED <<pc, run, daemons, seen, todo, opened, sources, trace, ended>>
      /\ \A f \in Files \ {g} : files'[f] = files[f]
  BY <1>1 DEF WrittenBy
\* A line that is there now is the old one of its place, or a new one of the writer.
<1>3. ASSUME NEW f \in Files, NEW i \in Places(f)'
      PROVE  \/ /\ i \in Places(f) /\ LineAt(f, i)' = LineAt(f, i)
                /\ files'[f].time >= files[f].time
             \/ /\ f = g /\ LineAt(f, i)'.by = by /\ LineAt(f, i)'.at = clock + 1
                /\ LineAt(f, i)'.nth = i
  <2>1. CASE f # g
    <3>1. files'[f] = files[f]
      BY <1>2, <2>1
    <3>2. files[f].time \in Nat
      BY Measures
    <3> QED
      BY <3>1, <3>2 DEF Places, LineAt
  <2>2. CASE f = g
    <3>1. files[g].time \in Nat /\ clock \in Nat /\ files[g].time <= clock
      BY Measures
    <3>2. files'[g].time >= files[g].time
      BY <1>2, <3>1
    <3>3. i \in DOMAIN files'[g].lines
      BY <2>2 DEF Places
    <3>4. \/ i \in Places(g) /\ files'[g].lines[i] = LineAt(g, i)
          \/ /\ files'[g].lines[i].by = by /\ files'[g].lines[i].at = clock + 1
             /\ files'[g].lines[i].nth = i
      BY <1>1, <3>3 DEF WrittenBy
    <3>5. LineAt(f, i)' = files'[g].lines[i]
      BY <2>2 DEF LineAt
    <3> QED
      BY <2>2, <3>2, <3>4, <3>5
  <2> QED
    BY <2>1, <2>2
<1>4. clock \in Nat /\ run \in Nat /\ ended \in Nat /\ ended <= clock
      /\ \A f \in Files : seen[f].time \in Nat /\ seen[f].time <= clock
  BY Measures
<1>5. Numbered'
  <2> SUFFICES ASSUME NEW f \in Files, NEW i \in Places(f)'
               PROVE  /\ LineAt(f, i)'.nth = i /\ LineAt(f, i)'.at <= files'[f].time
                      /\ LineAt(f, i)'.by <= run'
    BY DEF Numbered, Files
  <2>1. CASE /\ i \in Places(f) /\ LineAt(f, i)' = LineAt(f, i)
             /\ files'[f].time >= files[f].time
    <3>1. LineAt(f, i).nth = i /\ LineAt(f, i).at <= files[f].time /\ LineAt(f, i).by <= run
      BY <2>1 DEF KeptInv, Numbered
    <3>2. LineAt(f, i).at \in Nat /\ files[f].time \in Nat /\ files[f].time <= clock
      BY <2>1, Measures
    <3>3. files'[f].time \in Nat
      BY <1>2, <1>4, <3>2
    <3> QED
      BY <1>2, <2>1, <3>1, <3>2, <3>3
  <2>2. CASE /\ f = g /\ LineAt(f, i)'.by = by /\ LineAt(f, i)'.at = clock + 1
             /\ LineAt(f, i)'.nth = i
    BY <1>2, <1>4, <2>2
  <2> QED
    BY <1>3, <2>1, <2>2
<1>6. OwnLines'
  <2>1. ASSUME pc \in {"delete", "snapLogs", "snapShell"}, NEW f \in Files, NEW i \in Places(f)'
        PROVE  LineAt(f, i)'.by # run
    <3>1. by \in daemons /\ run \notin daemons
      BY <1>2, <2>1 DEF Writing, KeptInv, OwnLines
    <3> QED
      BY <1>3, <2>1, <3>1 DEF KeptInv, OwnLines
  <2>2. ASSUME pc \in {"script", "logs", "shell", "judged"}, NEW f \in Files,
               NEW i \in Places(f)', LineAt(f, i)'.by = run
        PROVE  LineAt(f, i)'.at > seen[f].time
    <3>1. CASE i \in Places(f) /\ LineAt(f, i)' = LineAt(f, i)
      BY <2>2, <3>1 DEF KeptInv, OwnLines
    <3>2. CASE LineAt(f, i)'.at = clock + 1
      BY <1>4, <3>2
    <3> QED
      BY <1>3, <3>1, <3>2
  <2>3. pc \in {"delete", "snapLogs", "snapShell"} => run \notin daemons
    BY DEF KeptInv, OwnLines
  <2> QED
    BY <1>2, <2>1, <2>2, <2>3 DEF OwnLines, Files
<1>7. Kept'
  <2> SUFFICES ASSUME pc \in {"logs", "shell", "judged"}, NEW f \in Files, NEW i \in Places(f)'
               PROVE  LineKept(f, i)'
    BY <1>2 DEF Kept, Files
  <2>1. CASE i \in Places(f) /\ LineAt(f, i)' = LineAt(f, i)
    <3>1. LineKept(f, i)
      BY <2>1 DEF KeptInv, Kept
    <3>2. Charged' = Charged /\ Waiting(f)' = Waiting(f)
      BY <1>2 DEF Charged, Waiting, Closed
    <3> QED
      BY <1>2, <2>1, <3>1, <3>2 DEF LineKept
  <2>2. CASE LineAt(f, i)'.at = clock + 1
    <3>1. LineAt(f, i)'.at > ended'
      BY <1>2, <1>4, <2>2
    <3> QED
      BY <3>1 DEF LineKept
  <2> QED
    BY <1>3, <2>1, <2>2
<1> QED
  BY <1>5, <1>6, <1>7 DEF KeptInv

\* The files are as they were, or some are gone.
LEMMA NumberedStays ==
    ASSUME Sorted, Numbered, run' >= run, run' \in Nat,
           \A f \in Files : files'[f] \in {files[f], NoFile}
    PROVE  Numbered'
<1> SUFFICES ASSUME NEW f \in Files, NEW i \in Places(f)'
             PROVE  /\ LineAt(f, i)'.nth = i /\ LineAt(f, i)'.at <= files'[f].time
                    /\ LineAt(f, i)'.by <= run'
  BY DEF Numbered, Files
<1>1. files'[f] = files[f]
  BY DEF Places, NoFile
<1>2. i \in Places(f) /\ LineAt(f, i)' = LineAt(f, i)
  BY <1>1 DEF Places, LineAt
<1>3. LineAt(f, i).nth = i /\ LineAt(f, i).at <= files[f].time /\ LineAt(f, i).by <= run
  BY <1>2 DEF Numbered
<1>4. run \in Nat /\ LineAt(f, i).by \in Nat
  BY <1>2, Measures
<1> QED
  BY <1>1, <1>2, <1>3, <1>4

\* Up to the start of the script.
LEMMA BeforeKeeps ==
    ASSUME Sorted, KeptInv, StartRun \/ DeleteLogs \/ SnapshotLogs \/ SnapshotShell
    PROVE  KeptInv'
<1>1. run \in Nat /\ daemons \subseteq 1..run /\ daemons' = daemons
  BY DEF Sorted, Counters, StartRun, DeleteLogs, SnapshotLogs, SnapshotShell
<1>2. run' \in {run, run + 1} /\ (StartRun => run' = run + 1) /\ (~StartRun => run' = run)
  BY DEF StartRun, DeleteLogs, SnapshotLogs, SnapshotShell
<1>3. \A f \in Files : files'[f] \in {files[f], NoFile}
  <2>1. CASE DeleteLogs
    <3>1. PICK some \in SUBSET LogFiles :
             files' = [f \in Files |-> IF f \in some THEN NoFile ELSE files[f]]
      BY <2>1 DEF DeleteLogs
    <3> QED
      BY <3>1
  <2>2. CASE StartRun \/ SnapshotLogs \/ SnapshotShell
    BY <2>2 DEF StartRun, SnapshotLogs, SnapshotShell, disk
  <2> QED
    BY <2>1, <2>2
<1>4. Numbered'
  BY <1>1, <1>2, <1>3, NumberedStays DEF KeptInv
<1>5. \A f \in Files : \A i \in Places(f)' : i \in Places(f) /\ LineAt(f, i)' = LineAt(f, i)
  <2> SUFFICES ASSUME NEW f \in Files, NEW i \in Places(f)'
               PROVE  i \in Places(f) /\ LineAt(f, i)' = LineAt(f, i)
    OBVIOUS
  <2>1. files'[f] = files[f]
    BY <1>3 DEF Places, NoFile
  <2> QED
    BY <2>1 DEF Places, LineAt
<1>6. ~(run' \in daemons) /\ \A f \in Files : \A i \in Places(f)' : LineAt(f, i)'.by # run'
  <2>1. CASE StartRun
    <3>1. \A f \in Files : \A i \in Places(f) : LineAt(f, i).by <= run /\ LineAt(f, i).by \in Nat
      BY Measures DEF KeptInv, Numbered
    <3>2. run' = run + 1 /\ run' \notin 1..run
      BY <1>1, <1>2, <2>1
    <3> QED
      BY <1>1, <1>5, <3>1, <3>2
  <2>2. CASE DeleteLogs \/ SnapshotLogs \/ SnapshotShell
    <3>1. pc \in {"delete", "snapLogs", "snapShell"} /\ run' = run
      BY <2>2 DEF DeleteLogs, SnapshotLogs, SnapshotShell
    <3>2. run \notin daemons /\ \A f \in Files : \A i \in Places(f) : LineAt(f, i).by # run
      BY <3>1 DEF KeptInv, OwnLines
    <3> QED
      BY <1>5, <3>1, <3>2
  <2> QED
    BY <2>1, <2>2
<1>7. pc' \in {"delete", "snapLogs", "snapShell", "script", "raised"}
  BY DEF StartRun, DeleteLogs, SnapshotLogs, SnapshotShell
<1>8. OwnLines'
  BY <1>1, <1>6 DEF OwnLines, Files
<1>9. Kept'
  BY <1>7 DEF Kept
<1> QED
  BY <1>4, <1>8, <1>9 DEF KeptInv

\* The other steps that leave the files alone: what holds of them from the start of the
\* script on stays as it is.
LEMMA OwnStays ==
    ASSUME Sorted, KeptInv, UNCHANGED <<files, run, seen>>, daemons' \subseteq daemons \/ pc = "script",
           \/ pc' = pc
           \/ pc \in {"script", "logs", "shell", "judged"}
              /\ pc' \in {"script", "logs", "shell", "judged"}
    PROVE  /\ Numbered' /\ OwnLines'
           /\ \A f \in Files : /\ Places(f)' = Places(f)
                               /\ \A i \in Places(f) : LineAt(f, i)' = LineAt(f, i)
<1>1. \A f \in Files : /\ Places(f)' = Places(f)
                       /\ \A i \in Places(f) : LineAt(f, i)' = LineAt(f, i)
  BY DEF Places, LineAt
<1>2. Numbered'
  BY Measures, NumberedStays DEF KeptInv
<1>3. pc' \in {"delete", "snapLogs", "snapShell"} =>
        run \notin daemons' /\ \A f \in Files : \A i \in Places(f) : LineAt(f, i).by # run
  BY DEF KeptInv, OwnLines
<1>4. pc' \in {"script", "logs", "shell", "judged"} =>
        \A f \in Files : \A i \in Places(f) :
            LineAt(f, i).by = run => LineAt(f, i).at > seen[f].time
  BY DEF KeptInv, OwnLines
<1>5. OwnLines'
  BY <1>1, <1>3, <1>4 DEF OwnLines, Files
<1> QED
  BY <1>1, <1>2, <1>5

\* A file with a line of this run's script differs from what the snapshot saw.
LEMMA OwnLineChanges ==
    ASSUME Sorted, KeptInv, Collecting, NEW f \in Files, NEW i \in Places(f),
           LineAt(f, i).by = run
    PROVE  Changed(f)
<1>1. LineAt(f, i).at > seen[f].time
  BY DEF KeptInv, OwnLines, Collecting
<1>2. LineAt(f, i).at <= files[f].time
  BY DEF KeptInv, Numbered
<1>3. /\ LineAt(f, i).at \in Nat \ {0} /\ files[f].time \in Nat /\ seen[f].time \in Nat
  BY Measures
<1>4. State(f).time = files[f].time
  BY DEF State
<1> QED
  BY <1>1, <1>2, <1>3, <1>4 DEF Changed, Exists

\* What the collector reads of a file is all of it, or what is beyond the old length.
LEMMA ReadsBeyond ==
    ASSUME Sorted, opened # Closed, NEW i \in Places(opened.file),
           LineAt(opened.file, i).kind # "blank"
    PROVE  \/ LineAt(opened.file, i) \in Range1(Content(opened.file))
           \/ opened.file \in LogFiles /\ i <= seen[opened.file].size
<1> DEFINE f == opened.file
           L == files[f].lines
           k == Offset(f)
           tail == SubSeq(L, k + 1, Len(L))
<1>1. f \in Files
  BY ContentTyped DEF Sorted
<1>2. /\ L \in Seq(LineType) /\ Len(L) \in Nat /\ seen[f].size \in Nat /\ i \in 1..Len(L)
      /\ Places(f) = DOMAIN L /\ LineAt(f, i) = L[i]
  BY <1>1, Measures DEF Places, LineAt
<1>3. k = 0 \/ (k = seen[f].size /\ f \notin ShellFiles)
  BY DEF Offset
<1>4. Content(f) = IF Blank(tail) THEN L ELSE tail
  BY DEF Content
<1>5. k \in Nat
  BY <1>2, <1>3
<1> HIDE DEF k
<1>6. CASE Blank(tail)
  <2>1. LineAt(f, i) \in Range1(L)
    BY <1>2 DEF Range1
  <2> QED
    BY <1>4, <1>6, <2>1
<1>7. CASE ~Blank(tail) /\ i > k
  <2>1. i \in (k + 1)..Len(L)
    BY <1>2, <1>5, <1>7
  <2>2. i - k \in DOMAIN tail /\ tail[i - k] = L[i]
    BY <1>2, <1>5, <2>1, Suffix
  <2> HIDE DEF tail
  <2>3. L[i] \in Range1(tail)
    BY <2>2 DEF Range1
  <2> QED
    BY <1>2, <1>4, <1>7, <2>3
<1>8. CASE i <= k
  <2>1. k = seen[f].size /\ f \notin ShellFiles
    BY <1>2, <1>3, <1>8
  <2> QED
    BY <1>1, <1>8, <2>1 DEF Files
<1> QED
  BY <1>2, <1>5, <1>6, <1>7, <1>8

LEMMA CollectKeeps ==
    ASSUME Sorted, KeptInv, Collect
    PROVE  KeptInv'
<1>1. /\ UNCHANGED <<files, run, seen, daemons, clock, ended>> /\ Collecting
      /\ pc' \in {"logs", "shell"} /\ pc \in {"logs", "shell"}
  BY DEF Collect, PassOver, OpenFile, ReadFile, NextDirectory, Collecting, disk
<1>2. /\ Numbered' /\ OwnLines'
      /\ \A f \in Files : /\ Places(f)' = Places(f)
                          /\ \A i \in Places(f) : LineAt(f, i)' = LineAt(f, i)
  BY <1>1, OwnStays
<1>3. ASSUME NEW f \in Files, NEW i \in Places(f), LineAt(f, i).by = run,
             LineAt(f, i).kind # "blank", Waiting(f)
      PROVE  \/ Waiting(f)' \/ LineAt(f, i) \in Charged'
             \/ f \in LogFiles /\ i <= seen[f].size
  <2>1. CASE PassOver
    <3>1. PICK g \in todo : ~Changed(g) /\ todo' = todo \ {g}
      BY <2>1 DEF PassOver
    <3>2. Changed(f)
      BY <1>1, <1>3, OwnLineChanges
    <3>3. UNCHANGED <<pc, opened>>
      BY <2>1 DEF PassOver
    <3>4. Waiting(f)'
      BY <1>3, <3>1, <3>2, <3>3 DEF Waiting, Closed
    <3> QED
      BY <3>4
  <2>2. CASE OpenFile
    <3>1. PICK g \in todo : /\ Changed(g) /\ todo' = todo \ {g}
                            /\ opened' = [file |-> g, size |-> State(g).size, time |-> State(g).time]
      BY <2>2 DEF OpenFile
    <3>2. opened = Closed /\ pc' = pc
      BY <2>2 DEF OpenFile
    <3>3. opened'.file = g /\ opened' # Closed
      BY <3>1 DEF Changed, Exists, State, Closed
    <3>4. Waiting(f)'
      BY <1>1, <1>3, <3>1, <3>2, <3>3 DEF Waiting, Closed
    <3> QED
      BY <3>4
  <2>3. CASE ReadFile
    <3>1. opened # Closed /\ UNCHANGED <<pc, todo>>
      BY <2>3 DEF ReadFile
    <3>2. CASE opened.file = f
      <4>1. \/ LineAt(f, i) \in Range1(Content(f))
            \/ f \in LogFiles /\ i <= seen[f].size
        BY <1>3, <3>1, <3>2, ReadsBeyond
      <4>2. ASSUME LineAt(f, i) \in Range1(Content(f))
            PROVE  LineAt(f, i) \in Charged'
        <5> DEFINE source == [file |-> f, lines |-> Range1(Content(f))]
        <5>1. ~Blank(Content(f))
          BY <1>3, <4>2 DEF Blank, Range1
        <5>2. source \in sources' /\ source.lines = Range1(Content(f))
          BY <2>3, <3>2, <5>1 DEF ReadFile
        <5> HIDE DEF source
        <5> QED
          BY <1>1, <4>2, <5>2 DEF Charged
      <4> QED
        BY <4>1, <4>2
    <3>3. CASE opened.file # f
      <4>1. Waiting(f)'
        BY <1>1, <1>3, <3>1, <3>3 DEF Waiting
      <4> QED
        BY <4>1
    <3> QED
      BY <3>2, <3>3
  <2>4. CASE NextDirectory
    <3>1. todo = {} /\ opened = Closed /\ todo' = ShellFiles /\ pc' = "shell"
      BY <2>4 DEF NextDirectory
    <3>2. Waiting(f)'
      BY <1>3, <3>1 DEF Waiting
    <3> QED
      BY <3>2
  <2> QED
    BY <2>1, <2>2, <2>3, <2>4 DEF Collect
<1>4. Charged \subseteq Charged'
  <2>1. sources \subseteq sources'
    BY DEF Collect, PassOver, OpenFile, ReadFile, NextDirectory
  <2> QED
    BY <1>1, <2>1 DEF Charged
<1>5. Kept'
  <2> SUFFICES ASSUME NEW f \in Files, NEW i \in Places(f)
               PROVE  LineKept(f, i)'
    BY <1>2 DEF Kept, Files
  <2>1. LineKept(f, i)
    BY <1>1 DEF KeptInv, Kept
  <2>2. LineAt(f, i)' = LineAt(f, i)
    BY <1>2
  <2> QED
    BY <1>1, <1>3, <1>4, <2>1, <2>2 DEF LineKept
<1> QED
  BY <1>2, <1>5 DEF KeptInv

LEMMA KeptInductive == Spec => []KeptInv
<1>1. Init => KeptInv
  BY DEF Init, KeptInv, Numbered, OwnLines, Kept, Places, NoFile
<1>2. Sorted /\ KeptInv /\ [Next]_vars => KeptInv'
  <2> SUFFICES ASSUME Sorted, KeptInv, [Next]_vars PROVE KeptInv'
    OBVIOUS
  <2>1. CASE WriteStd \/ StartDaemon
    <3>1. /\ UNCHANGED <<files, run, seen, pc>> /\ pc = "script"
      BY <2>1 DEF WriteStd, StartDaemon, disk, collected
    <3>2. Numbered' /\ OwnLines'
      BY <3>1, OwnStays
    <3> QED
      BY <3>1, <3>2 DEF KeptInv, Kept
  <2>2. CASE StopDaemon \/ UNCHANGED vars
    <3>1. UNCHANGED <<files, run, seen, pc, todo, opened, sources, trace, ended>>
      BY <2>2 DEF StopDaemon, disk, collected, vars
    <3>2. daemons' \subseteq daemons
      BY <2>2 DEF StopDaemon, vars
    <3>3. /\ Numbered' /\ OwnLines'
          /\ \A f \in Files : /\ Places(f)' = Places(f)
                              /\ \A i \in Places(f) : LineAt(f, i)' = LineAt(f, i)
      BY <3>1, <3>2, OwnStays
    <3>4. Charged' = Charged /\ \A f \in Files : Waiting(f)' = Waiting(f)
      BY <3>1 DEF Charged, Waiting, Closed
    <3>5. \A f \in Files : \A i \in Places(f) : LineKept(f, i) => LineKept(f, i)'
      BY <3>1, <3>3, <3>4 DEF LineKept
    <3>6. Kept'
      BY <3>1, <3>3, <3>5 DEF KeptInv, Kept, Files
    <3> QED
      BY <3>3, <3>6 DEF KeptInv
  <2>3. CASE Write \/ Rewrite \/ Touch
    BY <2>3, WriteKeeps
  <2>4. CASE StartRun \/ DeleteLogs \/ SnapshotLogs \/ SnapshotShell
    BY <2>4, BeforeKeeps
  <2>5. CASE EndScript
    <3>1. /\ UNCHANGED <<files, run, seen, daemons>> /\ pc = "script" /\ pc' = "logs"
          /\ todo' = LogFiles
      BY <2>5 DEF EndScript, disk
    <3>2. Numbered' /\ OwnLines'
      BY <3>1, OwnStays
    <3>3. \A f \in Files : Waiting(f)'
      BY <3>1 DEF Waiting, Files
    <3>4. Kept'
      BY <3>3 DEF Kept, LineKept, Files
    <3> QED
      BY <3>2, <3>4 DEF KeptInv
  <2>6. CASE Collect
    BY <2>6, CollectKeeps
  <2>7. CASE Summarize
    <3>1. /\ UNCHANGED <<files, run, seen, daemons, ended>> /\ pc = "shell" /\ pc' = "judged"
          /\ todo = {} /\ opened = Closed /\ trace'.lines = SourceLines
      BY <2>7 DEF Summarize, disk
    <3>2. /\ Numbered' /\ OwnLines'
          /\ \A f \in Files : /\ Places(f)' = Places(f)
                              /\ \A i \in Places(f) : LineAt(f, i)' = LineAt(f, i)
      BY <3>1, OwnStays
    <3>3. Charged \subseteq Charged' /\ \A f \in Files : ~Waiting(f)
      BY <3>1 DEF Charged, Waiting, SourceLines
    <3>4. \A f \in Files : \A i \in Places(f) : LineKept(f, i) => LineKept(f, i)'
      BY <3>1, <3>2, <3>3 DEF LineKept
    <3>5. Kept'
      BY <3>1, <3>2, <3>4 DEF KeptInv, Kept, Files
    <3> QED
      BY <3>2, <3>5 DEF KeptInv
  <2>8. CASE RecordRow
    <3>1. UNCHANGED <<files, run, daemons>> /\ pc' = "idle"
      BY <2>8 DEF RecordRow
    <3>2. Numbered'
      BY <3>1, Measures, NumberedStays DEF KeptInv
    <3> QED
      BY <3>1, <3>2 DEF KeptInv, OwnLines, Kept
  <2> QED
    BY <2>1, <2>2, <2>3, <2>4, <2>5, <2>6, <2>7, <2>8 DEF Next, Writers, Tester
<1> QED
  BY <1>1, <1>2, SortedInductive, PTL DEF Spec

\* What a script wrote into a file until it returned is in the trace of its system test,
\* but for blank lines and the lines of a log file within the length the snapshot saw: no
\* order in which the collector looks at the files, and nothing that is written meanwhile,
\* hides them.
THEOREM OutputKept == Spec => []OwnOutputKept
<1>1. Sorted /\ KeptInv => OwnOutputKept
  <2> SUFFICES ASSUME Sorted, KeptInv, pc = "judged", NEW f \in Files,
                      NEW l \in Range1(files[f].lines)
               PROVE  \/ l.by # run \/ l.at > ended \/ l.kind = "blank"
                      \/ l \in trace.lines
                      \/ f \in LogFiles /\ l.nth <= seen[f].size
    BY DEF OwnOutputKept
  <2>1. PICK i \in Places(f) : l = LineAt(f, i)
    BY DEF Range1, Places, LineAt
  <2>2. LineKept(f, i) /\ l.nth = i
    BY <2>1 DEF KeptInv, Kept, Numbered
  <2> QED
    BY <2>1, <2>2 DEF LineKept, Charged, Waiting
<1> QED
  BY <1>1, KeptInductive, SortedInductive, PTL
=============================================================================
