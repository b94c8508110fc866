----------------------- MODULE ValidatedRounds_proofs -----------------------
(***************************************************************************)
(* What the script of the validated rounds keeps, for any projects, any    *)
(* number of launches and attempts, and a kill between any two steps.      *)
(***************************************************************************)
EXTENDS ValidatedRounds, WellFoundedInduction, SequenceTheorems, TLAPS

InProject == {"prepare", "check", "fuzz", "mkdir", "copy", "row", "manifest", "write",
              "lastManifest", "lastWrite", "raise"}
Trying == {"fuzz", "mkdir", "copy", "row"}

\* A set of numbers has a highest one; the library has the lowest.
LEMMA HighestNumber ==
    ASSUME NEW M \in Nat, NEW D, D \subseteq 1..M
    PROVE  \E n \in 0..M : (n # 0 => n \in D) /\ \A m \in D : m <= n
<1> DEFINE T == {M - n : n \in D}
<1>1. CASE D = {}
  BY <1>1
<1>2. CASE D # {}
  <2>1. T \subseteq Nat /\ T # {}
    <3>1. \A n \in D : M - n \in Nat
      OBVIOUS
    <3> QED
      BY <3>1, <1>2
  <2>2. PICK x \in T : \A y \in T : ~ (<<y, x>> \in OpToRel(<, Nat))
    <3> HIDE DEF T
    <3> QED
      BY <2>1, NatLessThanWellFounded, WFMin
  <2>3. PICK n \in D : x = M - n
    OBVIOUS
  <2>4. \A m \in D : ~ (M - m < x)
    BY <2>1, <2>2 DEF OpToRel
  <2>5. \A m \in D : m <= n
    BY <2>3, <2>4
  <2> QED
    BY <2>5
<1> QED
  BY <1>1, <1>2

\* What LastAttempt chooses.
LEMMA LastAttemptIsLast ==
    ASSUME MaxAttempts \in Nat, NEW p
    PROVE  /\ LastAttempt(p) \in 0..MaxAttempts
           /\ \A m \in 1..MaxAttempts : dirs[p][m] # "absent" => m <= LastAttempt(p)
<1> DEFINE D == {n \in 1..MaxAttempts : dirs[p][n] # "absent"}
<1>1. PICK n \in 0..MaxAttempts : (n # 0 => n \in D) /\ \A m \in D : m <= n
  <2>1. D \subseteq 1..MaxAttempts
    OBVIOUS
  <2> HIDE DEF D
  <2> QED
    BY <2>1, HighestNumber
<1>2. (n # 0 => dirs[p][n] # "absent") /\ \A m \in 1..MaxAttempts : dirs[p][m] # "absent" => m <= n
  BY <1>1
<1> QED
  BY <1>2 DEF LastAttempt

-----------------------------------------------------------------------------
(* Types.                                                                  *)

\* The script knows its project where it uses it, and an attempt is only made for what
\* is still missing.
Control ==
    /\ pc \in PCs /\ launches \in 0..MaxLaunches /\ target \in Nat
    /\ at \in 0..(Len(Projects) + 1)
    /\ tries \in 0..Retries /\ attempt \in 0..MaxAttempts /\ accepted \in 0..MaxAccepted
    /\ pc \in InProject \cup {"open", "project"} => at >= 1
    /\ pc \in InProject => at <= Len(Projects)
    /\ pc = "prepare" => tries < Retries
    /\ pc \in Trying => attempt >= 1 /\ Len(selected) < target

LEMMA ControlInductive == Spec => []Control
<1>0. Len(Projects) \in Nat
  BY ProjectsAssumption
<1> USE CountsAssumption, <1>0
<1>1. Init => Control
  BY DEF Init, Control, PCs, InProject, Trying
<1>2. Control /\ [Next]_vars => Control'
  <2> SUFFICES ASSUME Control, [Next]_vars PROVE Control'
    OBVIOUS
  <2> USE DEF Control, PCs, InProject, Trying
  <2>1. CASE Launch
    BY <2>1 DEF Launch, progress, disk
  <2>2. CASE OpenManifest
    BY <2>2 DEF OpenManifest, disk
  <2>3. CASE StartProject
    <3>1. LastAttempt(Project) \in 0..MaxAttempts
      BY LastAttemptIsLast
    <3> QED
      BY <2>3, <3>1 DEF StartProject, disk
  <2>4. CASE RunPrepare
    BY <2>4 DEF RunPrepare, TryAgain, disk
  <2>5. CASE NextAttempt
    BY <2>5 DEF NextAttempt, disk
  <2>6. CASE Fuzz
    BY <2>6 DEF Fuzz, disk
  <2>7. CASE MakeDirectory
    BY <2>7 DEF MakeDirectory, progress
  <2>8. CASE CopyArtifacts
    BY <2>8 DEF CopyArtifacts, progress
  <2>9. CASE WriteRow
    BY <2>9 DEF WriteRow
  <2>10. CASE TruncateAfterAttempt
    BY <2>10 DEF TruncateAfterAttempt, Truncate
  <2>11. CASE TruncateAfterProject
    BY <2>11 DEF TruncateAfterProject, Truncate
  <2>12. CASE WriteAfterAttempt
    BY <2>12 DEF WriteAfterAttempt, WriteManifest, progress
  <2>13. CASE WriteAfterProject
    BY <2>13 DEF WriteAfterProject, WriteManifest, progress
  <2>14. CASE EndProject
    BY <2>14 DEF EndProject, progress, disk
  <2>15. CASE EndLaunch
    BY <2>15 DEF EndLaunch, progress, disk
  <2>16. CASE Raise
    BY <2>16 DEF Raise, progress, disk
  <2>17. CASE Crash
    BY <2>17 DEF Crash, disk
  <2>18. CASE UNCHANGED vars
    BY <2>18 DEF vars
  <2> HIDE DEF Control, PCs, InProject, Trying
  <2> QED
    BY <2>1, <2>2, <2>3, <2>4, <2>5, <2>6, <2>7, <2>8, <2>9, <2>10, <2>11, <2>12, <2>13,
       <2>14, <2>15, <2>16, <2>17, <2>18 DEF Next, Step, Attempt
<1> QED
  BY <1>1, <1>2, PTL DEF Spec

LEMMA ProjectKnown ==
    ASSUME Control, pc \in InProject
    PROVE  Project \in ProjectSet
BY ProjectsAssumption DEF Control, Project, ProjectSet

\* What the script has in memory and what is on disk.
AttemptRow == [attempt : 1..MaxAttempts, taken : Nat, sum : Nat]
Data ==
    /\ selected \in Seq(Rows) /\ memory \in RowLists /\ manifest \in RowLists
    /\ attempts \in [ProjectSet -> Seq(AttemptRow)]
    /\ dirs \in [ProjectSet -> [1..MaxAttempts -> {"absent", "partial", "complete"}]]
    /\ container \subseteq ProjectSet

\* What an attempt selects.
Selected == [k \in 1..Taken |-> [attempt |-> attempt, place |-> k]]

LEMMA SelectedTyped ==
    ASSUME Control, selected \in Seq(Rows), pc \in Trying
    PROVE  /\ Taken \in Nat /\ Taken <= MaxAccepted
           /\ Selected \in Seq(Rows) /\ Len(Selected) = Taken
           /\ attempt \in 1..MaxAttempts
<1>1. attempt \in 1..MaxAttempts /\ Remaining \in Nat /\ accepted \in 0..MaxAccepted
  BY CountsAssumption DEF Control, Remaining
<1>2. Taken \in Nat /\ Taken <= MaxAccepted
  BY <1>1, CountsAssumption DEF Taken
<1>3. \A k \in 1..Taken : [attempt |-> attempt, place |-> k] \in Rows
  BY <1>1, <1>2, CountsAssumption DEF Rows
<1> QED
  BY <1>1, <1>2, <1>3 DEF Selected

LEMMA DataInductive == Spec => []Data
<1>0. NoProjects \in RowLists /\ NoProjects \in [ProjectSet -> Seq(AttemptRow)]
  BY DEF NoProjects, RowLists
<1>1. Init => Data
  BY <1>0 DEF Init, Data
<1>2. Data /\ Control /\ [Next]_vars => Data'
  <2> SUFFICES ASSUME Data, Control, [Next]_vars PROVE Data'
    OBVIOUS
  <2> USE DEF Data, RowLists
  <2>1. CASE Launch
    BY <2>1 DEF Launch, progress, disk
  <2>2. CASE OpenManifest
    BY <2>2 DEF OpenManifest, disk
  <2>3. CASE StartProject
    <3>1. Project \in ProjectSet
      BY <2>3, ProjectsAssumption DEF StartProject, Control, Project, ProjectSet, InProject
    <3> QED
      BY <2>3, <3>1 DEF StartProject, RowsOf, disk
  <2>4. CASE RunPrepare \/ NextAttempt \/ Fuzz
    BY <2>4 DEF RunPrepare, NextAttempt, Fuzz, disk
  <2>5. CASE MakeDirectory \/ CopyArtifacts
    <3>1. Project \in ProjectSet /\ attempt \in 1..MaxAttempts
      BY <2>5, ProjectKnown, SelectedTyped DEF MakeDirectory, CopyArtifacts, InProject, Trying
    <3>2. \A s \in {"partial", "complete"} :
            [dirs EXCEPT ![Project][attempt] = s]
               \in [ProjectSet -> [1..MaxAttempts -> {"absent", "partial", "complete"}]]
      BY <3>1
    <3>3. dirs' \in [ProjectSet -> [1..MaxAttempts -> {"absent", "partial", "complete"}]]
      BY <2>5, <3>2 DEF MakeDirectory, CopyArtifacts
    <3> QED
      BY <2>5, <3>3 DEF MakeDirectory, CopyArtifacts, progress
  <2>6. CASE WriteRow
    <3>1. pc \in Trying /\ Project \in ProjectSet
      BY <2>6, ProjectKnown DEF WriteRow, Trying, InProject
    <3>2. Taken \in Nat /\ attempt \in 1..MaxAttempts /\ Selected \in Seq(Rows)
      BY <3>1, SelectedTyped
    <3>3. selected' \in Seq(Rows)
      BY <2>6, <3>2, ConcatProperties DEF WriteRow, Selected
    <3>4. [attempt |-> attempt, taken |-> Taken, sum |-> Len(selected) + Taken] \in AttemptRow
      BY <3>2 DEF AttemptRow
    <3>5. Append(attempts[Project],
                 [attempt |-> attempt, taken |-> Taken, sum |-> Len(selected) + Taken])
            \in Seq(AttemptRow)
      BY <3>1, <3>4, AppendProperties
    <3>6. attempts' \in [ProjectSet -> Seq(AttemptRow)]
      BY <2>6, <3>5 DEF WriteRow
    <3> QED
      BY <2>6, <3>3, <3>6 DEF WriteRow
  <2>7. CASE TruncateAfterAttempt \/ TruncateAfterProject
    BY <2>7 DEF TruncateAfterAttempt, TruncateAfterProject, Truncate
  <2>8. CASE WriteAfterAttempt \/ WriteAfterProject
    BY <2>8 DEF WriteManifest, WriteAfterAttempt, WriteAfterProject, progress
  <2>9. CASE EndProject \/ EndLaunch \/ Raise
    BY <2>9 DEF EndProject, EndLaunch, Raise, progress, disk
  <2>10. CASE Crash
    BY <2>10, <1>0 DEF Crash, disk
  <2>11. CASE UNCHANGED vars
    BY <2>11 DEF vars
  <2> HIDE DEF Data
  <2> QED
    BY <2>1, <2>2, <2>3, <2>4, <2>5, <2>6, <2>7, <2>8, <2>9, <2>10, <2>11
    DEF Next, Step, Attempt
<1> QED
  BY <1>1, <1>2, ControlInductive, PTL DEF Spec

TornTyped == torn \in BOOLEAN

LEMMA TornInductive == Spec => []TornTyped
<1>1. Init => TornTyped
  BY Zenon DEF Init, TornTyped
<1>2. TornTyped /\ [Next]_vars => TornTyped'
  <2> SUFFICES ASSUME TornTyped, [Next]_vars PROVE TornTyped'
    OBVIOUS
  <2>1. torn' \in {torn, TRUE, FALSE}
    BY DEF Next, Step, Attempt, Launch, OpenManifest, StartProject, RunPrepare, NextAttempt,
           Fuzz, MakeDirectory, CopyArtifacts, WriteRow, TruncateAfterAttempt,
           TruncateAfterProject, Truncate, WriteAfterAttempt, WriteAfterProject, WriteManifest,
           EndProject, EndLaunch, Raise, Crash, disk, vars
  <2> QED
    BY <2>1, Zenon DEF TornTyped
<1> QED
  BY <1>1, <1>2, PTL DEF Spec

\* The script of the validated rounds keeps its types: in particular prepare.sh is tried
\* at most Retries times and no more attempts are made than max-attempts.
THEOREM RoundsTyping == Spec => []TypeOK
<1>1. Control /\ Data /\ TornTyped => TypeOK
  <2> SUFFICES ASSUME Control, Data, TornTyped PROVE TypeOK
    OBVIOUS
  <2>1. /\ pc \in PCs /\ launches \in 0..MaxLaunches /\ target \in Nat
        /\ at \in 0..(Len(Projects) + 1)
        /\ tries \in 0..Retries /\ attempt \in 0..MaxAttempts /\ accepted \in 0..MaxAccepted
    BY Zenon DEF Control
  <2>2. /\ selected \in Seq(Rows) /\ memory \in RowLists /\ manifest \in RowLists
        /\ attempts \in [ProjectSet -> Seq([attempt : 1..MaxAttempts, taken : Nat, sum : Nat])]
        /\ dirs \in [ProjectSet -> [1..MaxAttempts -> {"absent", "partial", "complete"}]]
        /\ container \subseteq ProjectSet
    BY Zenon DEF Data, AttemptRow
  <2> QED
    BY Zenon, <2>1, <2>2 DEF TypeOK, TornTyped
<1> QED
  BY <1>1, ControlInductive, DataInductive, TornInductive, PTL

-----------------------------------------------------------------------------
(* The manifest only grows.                                                *)

Extends(longer, rows) ==
    Len(rows) <= Len(longer) /\ \A i \in DOMAIN rows : longer[i] = rows[i]

Unwritten == {"project", "prepare", "check", "fuzz", "mkdir", "copy", "row", "manifest",
              "lastManifest"}
Collecting == {"prepare", "check", "fuzz", "mkdir", "copy", "row", "manifest", "write",
               "lastManifest", "lastWrite"}

\* The manifest in memory is the one that could last be read, and between the truncation
\* and the writing it has what was selected since for the project.  Without the second
\* part a write could take rows away.
Kept ==
    /\ pc \in Unwritten => memory = manifest
    /\ pc \in {"write", "lastWrite"} => memory = [manifest EXCEPT ![Project] = selected]
    /\ pc \in Collecting => Extends(selected, manifest[Project])

LEMMA KeptInductive == Spec => []Kept
<1>1. Init => Kept
  BY DEF Init, Kept, Unwritten, Collecting
<1>2. Kept /\ Data /\ Control /\ [Next]_vars => Kept'
  <2> SUFFICES ASSUME Kept, Data, Control, [Next]_vars PROVE Kept'
    OBVIOUS
  <2> USE DEF Kept, Unwritten, Collecting
  <2>1. CASE Launch
    BY <2>1 DEF Launch
  <2>2. CASE OpenManifest
    BY <2>2 DEF OpenManifest, disk
  <2>3. CASE StartProject
    <3>1. pc' = "prepare" => selected' = manifest[Project]
      BY <2>3 DEF StartProject, RowsOf
    <3>2. Project' = Project /\ manifest' = manifest /\ memory' = memory
      BY <2>3 DEF StartProject, Project, disk
    <3>3. pc = "project" /\ pc' \in {"prepare", "exited"}
      BY <2>3 DEF StartProject
    <3> QED
      BY <3>1, <3>2, <3>3 DEF Extends
  <2>4. CASE RunPrepare \/ NextAttempt \/ Fuzz
    <3>1. /\ Project' = Project /\ manifest' = manifest /\ memory' = memory
          /\ selected' = selected
      BY <2>4 DEF RunPrepare, NextAttempt, Fuzz, Project, disk
    <3>2. /\ pc \in {"prepare", "check", "fuzz"}
          /\ pc' \in {"prepare", "check", "fuzz", "mkdir", "raise"}
      BY <2>4 DEF RunPrepare, NextAttempt, Fuzz
    <3> QED
      BY <3>1, <3>2
  <2>5. CASE MakeDirectory \/ CopyArtifacts
    <3>1. /\ Project' = Project /\ manifest' = manifest /\ memory' = memory
          /\ selected' = selected
      BY <2>5 DEF MakeDirectory, CopyArtifacts, Project, progress
    <3>2. pc \in {"mkdir", "copy"} /\ pc' \in {"copy", "row", "raise"}
      BY <2>5 DEF MakeDirectory, CopyArtifacts
    <3> QED
      BY <3>1, <3>2
  <2>6. CASE WriteRow
    <3>1. pc \in Trying /\ pc \in InProject
      BY <2>6 DEF WriteRow, Trying, InProject
    <3>2. Project \in ProjectSet /\ manifest[Project] \in Seq(Rows) /\ selected \in Seq(Rows)
      BY <3>1, ProjectKnown DEF Data, RowLists
    <3>3. Selected \in Seq(Rows) /\ selected' = selected \o Selected
      BY <2>6, <3>1, <3>2, SelectedTyped DEF WriteRow, Selected
    <3>4. Extends(selected', selected)
      BY <3>2, <3>3, ConcatProperties DEF Extends
    <3>5. selected' \in Seq(Rows)
      BY <3>2, <3>3, ConcatProperties
    <3>6. Extends(selected, manifest[Project])
      BY <2>6 DEF WriteRow
    <3>7. Extends(selected', manifest[Project])
      BY <3>2, <3>4, <3>5, <3>6 DEF Extends
    <3>8. Project' = Project /\ manifest' = manifest /\ memory' = memory
      BY <2>6 DEF WriteRow, Project
    <3> QED
      BY <2>6, <3>7, <3>8 DEF WriteRow
  <2>7. CASE TruncateAfterAttempt \/ TruncateAfterProject
    <3>1. Project' = Project /\ manifest' = manifest /\ selected' = selected
      BY <2>7 DEF TruncateAfterAttempt, TruncateAfterProject, Truncate, Project
    <3>2. memory' = [manifest EXCEPT ![Project] = selected]
      BY <2>7 DEF TruncateAfterAttempt, TruncateAfterProject, Truncate
    <3>3. pc \in {"manifest", "lastManifest"} /\ pc' \in {"write", "lastWrite"}
      BY <2>7 DEF TruncateAfterAttempt, TruncateAfterProject, Truncate
    <3> QED
      BY <3>1, <3>2, <3>3
  <2>8. CASE WriteAfterAttempt
    <3>1. Project \in ProjectSet
      BY <2>8, ProjectKnown DEF WriteAfterAttempt, InProject
    <3>2. manifest' = memory /\ memory' = memory /\ pc' = "check" /\ pc = "write"
          /\ selected' = selected /\ Project' = Project
      BY <2>8 DEF WriteAfterAttempt, WriteManifest, progress, Project
    <3>3. manifest'[Project'] = selected'
      BY <3>1, <3>2 DEF Data, RowLists
    <3> QED
      BY <3>2, <3>3 DEF Extends, Data
  <2>9. CASE WriteAfterProject
    BY <2>9 DEF WriteAfterProject, WriteManifest, progress
  <2>10. CASE EndProject
    <3>1. Project' = Project /\ manifest' = manifest /\ memory' = memory /\ selected' = selected
      BY <2>10 DEF EndProject, Project, disk, progress
    <3> QED
      BY <2>10, <3>1 DEF EndProject
  <2>11. CASE EndLaunch \/ Raise \/ Crash
    BY <2>11 DEF EndLaunch, Raise, Crash
  <2>12. CASE UNCHANGED vars
    BY <2>12 DEF vars, Project
  <2> HIDE DEF Kept
  <2> QED
    BY <2>1, <2>2, <2>3, <2>4, <2>5, <2>6, <2>7, <2>8, <2>9, <2>10, <2>11, <2>12
    DEF Next, Step, Attempt
<1> QED
  BY <1>1, <1>2, ControlInductive, DataInductive, PTL DEF Spec

\* update_manifest never writes less than the manifest held before, whatever launch it is
\* and wherever the earlier ones were killed.
THEOREM ManifestKept == Spec => SelectedKept
<1>1. ASSUME Kept, Data, Control, [Next]_vars
      PROVE  [\A p \in ProjectSet : /\ Len(manifest[p]) <= Len(manifest'[p])
                                    /\ \A i \in DOMAIN manifest[p] : manifest'[p][i] = manifest[p][i]]_vars
  <2>1. ASSUME pc \in {"write", "lastWrite"}, manifest' = memory, NEW p \in ProjectSet
        PROVE  Extends(manifest'[p], manifest[p])
    <3>1. Project \in ProjectSet /\ manifest[p] \in Seq(Rows)
      BY <1>1, <2>1, ProjectKnown DEF InProject, Data, RowLists
    <3>2. memory = [manifest EXCEPT ![Project] = selected]
      BY <1>1, <2>1 DEF Kept
    <3>3. manifest'[p] = IF p = Project THEN selected ELSE manifest[p]
      BY <1>1, <2>1, <3>1, <3>2 DEF Data, RowLists
    <3>4. Extends(selected, manifest[Project])
      BY <1>1, <2>1 DEF Kept, Collecting
    <3> QED
      BY <3>1, <3>3, <3>4 DEF Extends
  <2>2. \/ manifest' = manifest
        \/ pc \in {"write", "lastWrite"} /\ manifest' = memory
    BY <1>1 DEF Next, Step, Attempt, Launch, OpenManifest, StartProject, RunPrepare, NextAttempt,
           Fuzz, MakeDirectory, CopyArtifacts, WriteRow, TruncateAfterAttempt,
           TruncateAfterProject, Truncate, WriteAfterAttempt, WriteAfterProject, WriteManifest,
           EndProject, EndLaunch, Raise, Crash, disk, vars
  <2>3. \A p \in ProjectSet : manifest[p] \in Seq(Rows)
    BY <1>1 DEF Data, RowLists
  <2> QED
    BY <2>1, <2>2, <2>3 DEF Extends
<1> QED
  BY <1>1, ControlInductive, DataInductive, KeptInductive, PTL DEF Spec, SelectedKept

-----------------------------------------------------------------------------
(* The manifest is backed by what was copied.                              *)

Rising(rows) == \A r, s \in DOMAIN rows : r < s => rows[r].attempt < rows[s].attempt
Complete(p) == \A r \in DOMAIN attempts[p] : dirs[p][attempts[p][r].attempt] = "complete"

\* Attempts are numbered by their directories, not by the rows of attempts.tsv: while an
\* attempt is made no directory has a higher number, and no row has its own.
Numbered ==
    /\ \A p \in ProjectSet : Rising(attempts[p]) /\ Complete(p)
    /\ pc \in Collecting =>
         \A n \in 1..MaxAttempts : dirs[Project][n] # "absent" => n <= attempt
    /\ pc \in {"fuzz", "mkdir"} => dirs[Project][attempt] = "absent"
    /\ pc = "copy" => dirs[Project][attempt] = "partial"
    /\ pc = "row" => dirs[Project][attempt] = "complete"
    /\ pc \in {"copy", "row"} =>
         \A r \in DOMAIN attempts[Project] : attempts[Project][r].attempt < attempt

LEMMA RowNumbers ==
    ASSUME Data, NEW p \in ProjectSet, NEW r \in DOMAIN attempts[p]
    PROVE  attempts[p][r].attempt \in 1..MaxAttempts
<1>1. attempts[p] \in Seq(AttemptRow)
  BY DEF Data
<1>2. attempts[p][r] \in AttemptRow
  BY <1>1
<1> QED
  BY <1>2 DEF AttemptRow

LEMMA NumberedInductive == Spec => []Numbered
<1>1. Init => Numbered
  <2> SUFFICES ASSUME Init PROVE Numbered
    OBVIOUS
  <2>1. \A p \in ProjectSet : attempts[p] = <<>>
    BY DEF Init, NoProjects
  <2> QED
    BY <2>1 DEF Init, Numbered, Collecting, Rising, Complete
<1>2. Numbered /\ Data /\ Control /\ [Next]_vars => Numbered'
  <2> SUFFICES ASSUME Numbered, Data, Control, [Next]_vars PROVE Numbered'
    OBVIOUS
  <2>0. ASSUME UNCHANGED <<dirs, attempts, attempt, Project>>,
               \/ pc' \notin Collecting
               \/ pc \in Collecting /\ pc' \notin {"fuzz", "mkdir", "copy", "row"}
        PROVE  Numbered'
    BY <2>0 DEF Numbered, Collecting, Rising, Complete
  <2>1. CASE Launch
    BY <2>1 DEF Launch, disk, progress, Numbered, Collecting, Rising, Complete
  <2>2. CASE OpenManifest
    BY <2>0, <2>2 DEF OpenManifest, disk, Project, Collecting
  <2>3. CASE StartProject
    <3>1. \A m \in 1..MaxAttempts : dirs[Project][m] # "absent" => m <= LastAttempt(Project)
      BY LastAttemptIsLast, CountsAssumption
    <3>2. UNCHANGED <<dirs, attempts, Project>> /\ attempt' = LastAttempt(Project)
      BY <2>3 DEF StartProject, disk, Project
    <3>3. pc' \in {"prepare", "exited"}
      BY <2>3 DEF StartProject
    <3> QED
      BY <3>1, <3>2, <3>3 DEF Numbered, Collecting, Rising, Complete
  <2>4. CASE RunPrepare
    BY <2>0, <2>4 DEF RunPrepare, disk, Project, Collecting
  <2>5. CASE NextAttempt
    <3>1. UNCHANGED <<dirs, attempts, Project>> /\ pc = "check"
      BY <2>5 DEF NextAttempt, disk, Project
    <3>2. CASE pc' = "raise"
      BY <3>1, <3>2 DEF Numbered, Collecting, Rising, Complete
    <3>3. CASE attempt' = attempt + 1 /\ attempt < MaxAttempts /\ pc' = "fuzz"
      <4>1. Project \in ProjectSet /\ attempt \in Nat /\ attempt + 1 \in 1..MaxAttempts
        BY <3>1, <3>3, ProjectKnown, CountsAssumption DEF Control, InProject
      <4>2. \A n \in 1..MaxAttempts : dirs[Project][n] # "absent" => n <= attempt
        BY <3>1 DEF Numbered, Collecting
      <4>3. dirs[Project][attempt + 1] = "absent"
        BY <4>1, <4>2
      <4>4. \A n \in 1..MaxAttempts : dirs[Project][n] # "absent" => n <= attempt + 1
        BY <4>1, <4>2
      <4> QED
        BY <3>1, <3>3, <4>3, <4>4 DEF Numbered, Rising, Complete
    <3> QED
      BY <2>5, <3>2, <3>3 DEF NextAttempt
  <2>6. CASE Fuzz
    <3>1. UNCHANGED <<dirs, attempts, attempt, Project>> /\ pc = "fuzz" /\ pc' \in {"mkdir", "raise"}
      BY <2>6 DEF Fuzz, disk, Project
    <3> QED
      BY <3>1 DEF Numbered, Collecting, Rising, Complete
  <2>7. CASE MakeDirectory
    <3>1. pc \in Trying /\ Project \in ProjectSet /\ attempt \in 1..MaxAttempts
      BY <2>7, ProjectKnown, SelectedTyped DEF MakeDirectory, InProject, Trying, Data
    <3>2. UNCHANGED <<attempts, attempt, Project>> /\ pc = "mkdir" /\ pc' = "copy"
      BY <2>7 DEF MakeDirectory, progress, Project
    <3>3. dirs[Project][attempt] = "absent"
      BY <3>2 DEF Numbered
    <3>4. \A p \in ProjectSet, n \in 1..MaxAttempts :
             dirs'[p][n] = IF p = Project /\ n = attempt THEN "partial" ELSE dirs[p][n]
      BY <2>7, <3>1 DEF MakeDirectory, Data
    <3>5. \A p \in ProjectSet : \A r \in DOMAIN attempts[p] : attempts[p][r].attempt \in 1..MaxAttempts
      BY RowNumbers
    <3>6. \A p \in ProjectSet : Complete(p)'
      <4>1. ASSUME NEW p \in ProjectSet, NEW r \in DOMAIN attempts[p]
            PROVE  dirs'[p][attempts[p][r].attempt] = "complete"
        BY <3>3, <3>4, <3>5, <4>1 DEF Numbered, Complete
      <4> QED
        BY <3>2, <4>1 DEF Complete
    <3>7. \A n \in 1..MaxAttempts : dirs[Project][n] # "absent" => n <= attempt
      BY <3>2 DEF Numbered, Collecting
    <3>8. \A n \in 1..MaxAttempts : dirs'[Project][n] # "absent" => n <= attempt
      BY <3>1, <3>4, <3>7
    <3>9. \A r \in DOMAIN attempts[Project] : attempts[Project][r].attempt < attempt
      <4> SUFFICES ASSUME NEW r \in DOMAIN attempts[Project]
                   PROVE  attempts[Project][r].attempt < attempt
        OBVIOUS
      <4>1. dirs[Project][attempts[Project][r].attempt] = "complete"
        BY <3>1 DEF Numbered, Complete
      <4>2. attempts[Project][r].attempt \in 1..MaxAttempts
        BY <3>1, <3>5
      <4>3. attempts[Project][r].attempt <= attempt /\ attempts[Project][r].attempt # attempt
        BY <3>3, <3>7, <4>1, <4>2
      <4> QED
        BY <3>1, <4>2, <4>3
    <3>10. dirs'[Project][attempt] = "partial"
      BY <3>1, <3>4
    <3> QED
      BY <3>2, <3>6, <3>8, <3>9, <3>10 DEF Numbered, Rising
  <2>8. CASE CopyArtifacts
    <3>1. pc \in Trying /\ Project \in ProjectSet /\ attempt \in 1..MaxAttempts
      BY <2>8, ProjectKnown, SelectedTyped DEF CopyArtifacts, InProject, Trying, Data
    <3>2. UNCHANGED <<attempts, attempt, Project>> /\ pc = "copy"
      BY <2>8 DEF CopyArtifacts, progress, Project
    <3>3. CASE pc' = "raise" /\ dirs' = dirs
      BY <3>2, <3>3 DEF Numbered, Collecting, Rising, Complete
    <3>4. CASE pc' = "row" /\ dirs' = [dirs EXCEPT ![Project][attempt] = "complete"]
      <4>1. \A p \in ProjectSet, n \in 1..MaxAttempts :
               dirs'[p][n] = IF p = Project /\ n = attempt THEN "complete" ELSE dirs[p][n]
        BY <3>1, <3>4 DEF Data
      <4>2. \A p \in ProjectSet : \A r \in DOMAIN attempts[p] : attempts[p][r].attempt \in 1..MaxAttempts
        BY RowNumbers
      <4>3. \A p \in ProjectSet : Complete(p)'
        BY <3>2, <4>1, <4>2 DEF Numbered, Complete
      <4>4. \A n \in 1..MaxAttempts : dirs[Project][n] # "absent" => n <= attempt
        BY <3>2 DEF Numbered, Collecting
      <4>5. \A n \in 1..MaxAttempts : dirs'[Project][n] # "absent" => n <= attempt
        BY <3>1, <4>1, <4>4
      <4>6. \A r \in DOMAIN attempts[Project] : attempts[Project][r].attempt < attempt
        BY <3>2 DEF Numbered
      <4>7. dirs'[Project][attempt] = "complete"
        BY <3>1, <4>1
      <4> QED
        BY <3>2, <3>4, <4>3, <4>5, <4>6, <4>7 DEF Numbered, Rising
    <3> QED
      BY <2>8, <3>3, <3>4 DEF CopyArtifacts
  <2>9. CASE WriteRow
    <3> DEFINE new == [attempt |-> attempt, taken |-> Taken, sum |-> Len(selected) + Taken]
    <3>1. pc \in Trying /\ Project \in ProjectSet
      BY <2>9, ProjectKnown DEF WriteRow, Trying, InProject
    <3>2. new \in AttemptRow
      BY <3>1, SelectedTyped DEF AttemptRow, Data
    <3>3. UNCHANGED <<dirs, attempt, Project>> /\ pc = "row" /\ pc' = "manifest"
      BY <2>9 DEF WriteRow, Project
    <3>4. attempts[Project] \in Seq(AttemptRow) /\ new.attempt = attempt
      BY <3>1 DEF Data
    <3>5. \A p \in ProjectSet :
             attempts'[p] = IF p = Project THEN Append(attempts[Project], new) ELSE attempts[p]
      BY <2>9 DEF WriteRow, Data
    <3> HIDE DEF new
    <3>6. \A r \in DOMAIN attempts[Project] : attempts[Project][r].attempt < attempt
      BY <3>3 DEF Numbered
    <3>7. Rising(attempts[Project]) /\ Complete(Project) /\ dirs[Project][attempt] = "complete"
      BY <3>1, <3>3 DEF Numbered
    <3>8. /\ DOMAIN Append(attempts[Project], new) = 1..(Len(attempts[Project]) + 1)
          /\ DOMAIN attempts[Project] = 1..Len(attempts[Project])
          /\ Len(attempts[Project]) \in Nat
          /\ \A i \in 1..Len(attempts[Project]) :
                Append(attempts[Project], new)[i] = attempts[Project][i]
          /\ Append(attempts[Project], new)[Len(attempts[Project]) + 1] = new
      BY <3>2, <3>4, AppendProperties
    <3>9. Rising(Append(attempts[Project], new))
      <4> SUFFICES ASSUME NEW r \in 1..(Len(attempts[Project]) + 1),
                          NEW s \in 1..(Len(attempts[Project]) + 1), r < s
                   PROVE  Append(attempts[Project], new)[r].attempt
                             < Append(attempts[Project], new)[s].attempt
        BY <3>8 DEF Rising
      <4>1. r \in 1..Len(attempts[Project])
        BY <3>8
      <4>2. CASE s \in 1..Len(attempts[Project])
        BY <3>7, <3>8, <4>1, <4>2 DEF Rising
      <4>3. CASE s = Len(attempts[Project]) + 1
        BY <3>4, <3>6, <3>8, <4>1, <4>3
      <4> QED
        BY <3>8, <4>2, <4>3
    <3>10. \A r \in DOMAIN Append(attempts[Project], new) :
              dirs[Project][Append(attempts[Project], new)[r].attempt] = "complete"
      <4> SUFFICES ASSUME NEW r \in 1..(Len(attempts[Project]) + 1)
                   PROVE  dirs[Project][Append(attempts[Project], new)[r].attempt] = "complete"
        BY <3>8
      <4>1. CASE r \in 1..Len(attempts[Project])
        BY <3>7, <3>8, <4>1 DEF Complete
      <4>2. CASE r = Len(attempts[Project]) + 1
        BY <3>4, <3>7, <3>8, <4>2
      <4> QED
        BY <3>8, <4>1, <4>2
    <3>11. \A p \in ProjectSet : (Rising(attempts[p]) /\ Complete(p))'
      BY <3>3, <3>5, <3>9, <3>10 DEF Numbered, Complete
    <3>12. \A n \in 1..MaxAttempts : dirs[Project][n] # "absent" => n <= attempt
      BY <3>3 DEF Numbered, Collecting
    <3> QED
      BY <3>3, <3>11, <3>12 DEF Numbered
  <2>10. CASE TruncateAfterAttempt \/ TruncateAfterProject
    BY <2>0, <2>10 DEF TruncateAfterAttempt, TruncateAfterProject, Truncate, Project, Collecting
  <2>11. CASE WriteAfterAttempt
    BY <2>0, <2>11 DEF WriteAfterAttempt, WriteManifest, progress, Project, Collecting
  <2>12. CASE WriteAfterProject
    BY <2>12 DEF WriteAfterProject, WriteManifest, progress, Numbered, Collecting, Rising, Complete
  <2>13. CASE EndProject
    BY <2>0, <2>13 DEF EndProject, disk, progress, Project, Collecting
  <2>14. CASE EndLaunch
    BY <2>0, <2>14 DEF EndLaunch, disk, progress, Project, Collecting
  <2>15. CASE Raise
    BY <2>0, <2>15 DEF Raise, disk, progress, Project, Collecting
  <2>16. CASE Crash
    BY <2>16 DEF Crash, disk, Numbered, Collecting, Rising, Complete
  <2>17. CASE UNCHANGED vars
    BY <2>17 DEF vars, Project, Numbered, Collecting, Rising, Complete
  <2> QED
    BY <2>1, <2>2, <2>3, <2>4, <2>5, <2>6, <2>7, <2>8, <2>9, <2>10, <2>11, <2>12, <2>13,
       <2>14, <2>15, <2>16, <2>17 DEF Next, Step, Attempt
<1> QED
  BY <1>1, <1>2, ControlInductive, DataInductive, PTL DEF Spec

\* A row of the manifest can be looked up.
Backed(p, row) ==
    /\ dirs[p][row.attempt] = "complete"
    /\ \E r \in DOMAIN attempts[p] :
         attempts[p][r].attempt = row.attempt /\ row.place <= attempts[p][r].taken
AllBacked(p, rows) == \A i \in DOMAIN rows : Backed(p, rows[i])
Distinct(rows) == \A i, j \in DOMAIN rows : rows[i] = rows[j] => i = j

\* What is selected, in memory too, is backed: the row of attempts.tsv is written before
\* the manifest, and the directory before the row.
Listed ==
    /\ \A p \in ProjectSet : AllBacked(p, manifest[p]) /\ Distinct(manifest[p])
    /\ pc \in Collecting => AllBacked(Project, selected) /\ Distinct(selected)

\* A step that takes no directory and no row away takes no backing away.
BackingStays ==
    \A p \in ProjectSet, row \in Rows : Backed(p, row) => Backed(p, row)'

LEMMA BackingKept ==
    ASSUME Numbered, Data, Control, [Next]_vars
    PROVE  BackingStays
<1> SUFFICES ASSUME NEW p \in ProjectSet, NEW row \in Rows, Backed(p, row)
             PROVE  Backed(p, row)'
  BY DEF BackingStays
<1>0. row.attempt \in 1..MaxAttempts
  BY DEF Rows
<1>1. CASE MakeDirectory \/ CopyArtifacts
  <2>1. pc \in Trying /\ Project \in ProjectSet /\ attempt \in 1..MaxAttempts
    BY <1>1, ProjectKnown, SelectedTyped DEF MakeDirectory, CopyArtifacts, InProject, Trying, Data
  <2>2. dirs[Project][attempt] # "complete"
    BY <1>1 DEF Numbered, MakeDirectory, CopyArtifacts
  <2>3. ~ (p = Project /\ row.attempt = attempt)
    BY <2>2 DEF Backed
  <2>4. \/ dirs' = dirs
        \/ dirs' = [dirs EXCEPT ![Project][attempt] = "partial"]
        \/ dirs' = [dirs EXCEPT ![Project][attempt] = "complete"]
    BY <1>1 DEF MakeDirectory, CopyArtifacts
  <2>5. attempts' = attempts
    BY <1>1 DEF MakeDirectory, CopyArtifacts
  <2>6. dirs'[p][row.attempt] = dirs[p][row.attempt]
    <3>1. CASE dirs' = dirs
      BY <3>1
    <3>2. CASE dirs' = [dirs EXCEPT ![Project][attempt] = "partial"]
      BY <1>0, <2>1, <2>3, <3>2 DEF Data
    <3>3. CASE dirs' = [dirs EXCEPT ![Project][attempt] = "complete"]
      BY <1>0, <2>1, <2>3, <3>3 DEF Data
    <3> QED
      BY <2>4, <3>1, <3>2, <3>3
  <2> QED
    BY <2>5, <2>6 DEF Backed
<1>2. CASE WriteRow
  <2> DEFINE new == [attempt |-> attempt, taken |-> Taken, sum |-> Len(selected) + Taken]
  <2>1. pc \in Trying /\ Project \in ProjectSet
    BY <1>2, ProjectKnown DEF WriteRow, Trying, InProject
  <2>2. new \in AttemptRow
    BY <2>1, SelectedTyped DEF AttemptRow, Data
  <2>3. attempts[Project] \in Seq(AttemptRow)
    BY <2>1 DEF Data
  <2>4. attempts'[p] = IF p = Project THEN Append(attempts[Project], new) ELSE attempts[p]
    BY <1>2, <2>1 DEF WriteRow, Data
  <2> HIDE DEF new
  <2>5. PICK r \in DOMAIN attempts[p] :
           attempts[p][r].attempt = row.attempt /\ row.place <= attempts[p][r].taken
    BY DEF Backed
  <2>6. r \in DOMAIN attempts'[p] /\ attempts'[p][r] = attempts[p][r]
    BY <2>2, <2>3, <2>4, AppendProperties
  <2>7. dirs' = dirs
    BY <1>2 DEF WriteRow
  <2> QED
    BY <2>5, <2>6, <2>7 DEF Backed
<1>3. CASE UNCHANGED <<dirs, attempts>>
  BY <1>3 DEF Backed
<1>4. MakeDirectory \/ CopyArtifacts \/ WriteRow \/ UNCHANGED <<dirs, attempts>>
  BY DEF Next, Step, Attempt, Launch, OpenManifest, StartProject, RunPrepare, NextAttempt,
         Fuzz, TruncateAfterAttempt, TruncateAfterProject, Truncate, WriteAfterAttempt,
         WriteAfterProject, WriteManifest, EndProject, EndLaunch, Raise, Crash, disk, vars
<1> QED
  BY <1>1, <1>2, <1>3, <1>4

LEMMA ListedInductive == Spec => []Listed
<1>1. Init => Listed
  <2> SUFFICES ASSUME Init PROVE Listed
    OBVIOUS
  <2>1. \A p \in ProjectSet : manifest[p] = <<>>
    BY DEF Init, NoProjects
  <2> QED
    BY <2>1 DEF Init, Listed, Collecting, AllBacked, Distinct
<1>2. Listed /\ Kept /\ Numbered /\ Data /\ Control /\ [Next]_vars => Listed'
  <2> SUFFICES ASSUME Listed, Kept, Numbered, Data, Control, [Next]_vars PROVE Listed'
    OBVIOUS
  <2>0. BackingStays
    BY BackingKept
  <2>1. \A p \in ProjectSet :
          \/ AllBacked(p, manifest[p])' /\ Distinct(manifest[p])'
          \/ manifest' # manifest
    <3> SUFFICES ASSUME NEW p \in ProjectSet, manifest' = manifest
                 PROVE  AllBacked(p, manifest[p])' /\ Distinct(manifest[p])'
      OBVIOUS
    <3>1. AllBacked(p, manifest[p]) /\ Distinct(manifest[p]) /\ manifest[p] \in Seq(Rows)
      BY DEF Listed, Data, RowLists
    <3>2. \A i \in DOMAIN manifest[p] : manifest[p][i] \in Rows
      BY <3>1
    <3> QED
      BY <2>0, <3>1, <3>2 DEF BackingStays, AllBacked, Distinct
  <2>2. ASSUME pc \in Collecting, selected' = selected, Project' = Project
        PROVE  AllBacked(Project, selected)' /\ Distinct(selected)'
    <3>1. AllBacked(Project, selected) /\ Distinct(selected) /\ Project \in ProjectSet
      BY <2>2, ProjectKnown DEF Listed, Collecting, InProject
    <3>2. \A i \in DOMAIN selected : selected[i] \in Rows
      BY DEF Data
    <3> QED
      BY <2>0, <2>2, <3>1, <3>2 DEF BackingStays, AllBacked, Distinct
  <2>3. CASE pc' \notin Collecting /\ manifest' = manifest
    BY <2>1, <2>3 DEF Listed
  <2>4. CASE StartProject
    <3>1. Project \in ProjectSet /\ manifest' = manifest /\ Project' = Project
      BY <2>4, ProjectsAssumption DEF StartProject, disk, Control, Project, ProjectSet, InProject
    <3>2. selected' = manifest'[Project']
      BY <2>4, <3>1 DEF StartProject, RowsOf, Kept, Unwritten
    <3> QED
      BY <2>1, <3>1, <3>2 DEF Listed
  <2>5. CASE /\ pc \in Collecting /\ manifest' = manifest
             /\ selected' = selected /\ Project' = Project
    BY <2>1, <2>2, <2>5 DEF Listed
  <2>6. CASE WriteRow
    <3>1. pc \in Trying /\ pc \in Collecting /\ pc = "row" /\ Project \in ProjectSet
      BY <2>6, ProjectKnown DEF WriteRow, Trying, InProject, Collecting
    <3>2. /\ Selected \in Seq(Rows) /\ Len(Selected) = Taken /\ Taken \in Nat
          /\ attempt \in 1..MaxAttempts
          /\ \A k \in 1..Taken : Selected[k] = [attempt |-> attempt, place |-> k]
      BY <3>1, SelectedTyped DEF Data, Selected
    <3>3. selected \in Seq(Rows) /\ selected' = selected \o Selected /\ Project' = Project
      BY <2>6 DEF WriteRow, Selected, Project, Data
    <3>4. /\ DOMAIN selected' = 1..(Len(selected) + Taken) /\ Len(selected) \in Nat
          /\ DOMAIN selected = 1..Len(selected)
      BY <3>2, <3>3, ConcatProperties
    <3>5. \A i \in DOMAIN selected' : i <= Len(selected) =>
             i \in DOMAIN selected /\ selected'[i] = selected[i]
      BY <3>2, <3>3, <3>4, ConcatProperties
    <3>6. \A i \in DOMAIN selected' : ~ (i <= Len(selected)) =>
             i - Len(selected) \in 1..Taken /\ selected'[i] = Selected[i - Len(selected)]
      BY <3>2, <3>3, <3>4, ConcatProperties
    <3>7. \A i \in DOMAIN selected' : ~ (i <= Len(selected)) =>
             /\ selected'[i].attempt = attempt /\ selected'[i].place = i - Len(selected)
             /\ i - Len(selected) <= Taken
      <4> SUFFICES ASSUME NEW i \in DOMAIN selected', ~ (i <= Len(selected))
                   PROVE  /\ selected'[i].attempt = attempt
                          /\ selected'[i].place = i - Len(selected)
                          /\ i - Len(selected) <= Taken
        OBVIOUS
      <4>1. PICK k \in 1..Taken : k = i - Len(selected)
        BY <3>6
      <4>2. selected'[i] = [attempt |-> attempt, place |-> k]
        BY <3>2, <3>6, <4>1
      <4>3. k <= Taken
        BY <3>2
      <4> QED
        BY <4>1, <4>2, <4>3
    <3> DEFINE Stands(row) == /\ dirs'[Project][row.attempt] = "complete"
                              /\ \E r \in DOMAIN attempts'[Project] :
                                   /\ attempts'[Project][r].attempt = row.attempt
                                   /\ row.place <= attempts'[Project][r].taken
    <3>8. \A i \in DOMAIN selected : Backed(Project, selected[i]) /\ selected[i] \in Rows
      BY <3>1, <3>3 DEF Listed, AllBacked
    <3>9. \A row \in Rows : Backed(Project, row) => Stands(row)
      BY <2>0, <3>1, <3>3 DEF BackingStays, Backed
    <3>10. PICK r \in DOMAIN attempts'[Project] :
              attempts'[Project][r].attempt = attempt /\ attempts'[Project][r].taken = Taken
      <4> DEFINE new == [attempt |-> attempt, taken |-> Taken, sum |-> Len(selected) + Taken]
      <4>1. new \in AttemptRow /\ attempts[Project] \in Seq(AttemptRow)
        <5>1. Taken \in Nat /\ attempt \in 1..MaxAttempts /\ Len(selected) \in Nat
          BY <3>2, <3>4
        <5>2. new \in AttemptRow
          BY <5>1 DEF AttemptRow
        <5>3. attempts[Project] \in Seq(AttemptRow)
          BY <3>1 DEF Data
        <5> QED
          BY <5>2, <5>3
      <4>2. attempts'[Project] = Append(attempts[Project], new)
        BY <2>6, <3>1 DEF WriteRow, Data
      <4>3. new.attempt = attempt /\ new.taken = Taken
        OBVIOUS
      <4> HIDE DEF new
      <4>4. PICK r \in DOMAIN attempts'[Project] : attempts'[Project][r] = new
        BY <4>1, <4>2, AppendProperties
      <4> QED
        BY <4>3, <4>4
    <3>11. dirs'[Project][attempt] = "complete"
      BY <2>6, <3>1 DEF WriteRow, Numbered
    <3>12. \A i \in DOMAIN selected' : Stands(selected'[i])
      <4> SUFFICES ASSUME NEW i \in DOMAIN selected' PROVE Stands(selected'[i])
        OBVIOUS
      <4>1. CASE i <= Len(selected)
        <5>1. i \in DOMAIN selected /\ selected'[i] = selected[i]
          BY <3>5, <4>1
        <5>2. Stands(selected[i])
          BY <3>8, <3>9, <5>1
        <5> QED
          BY <5>1, <5>2
      <4>2. CASE ~ (i <= Len(selected))
        <5>1. selected'[i].attempt = attempt /\ selected'[i].place <= Taken
          BY <3>7, <4>2
        <5> QED
          BY <3>10, <3>11, <5>1
      <4> QED
        BY <4>1, <4>2
    <3>13. AllBacked(Project, selected)'
      BY <3>3, <3>12 DEF AllBacked, Backed
    <3>14. \A i \in DOMAIN selected : selected[i].attempt < attempt /\ selected[i].attempt \in Nat
      <4> SUFFICES ASSUME NEW i \in DOMAIN selected
                   PROVE  selected[i].attempt < attempt /\ selected[i].attempt \in Nat
        OBVIOUS
      <4>1. PICK s \in DOMAIN attempts[Project] : attempts[Project][s].attempt = selected[i].attempt
        BY <3>8 DEF Backed
      <4>2. attempts[Project][s].attempt < attempt
        BY <3>1 DEF Numbered
      <4>3. attempts[Project][s].attempt \in 1..MaxAttempts
        BY <3>1, RowNumbers
      <4> QED
        BY <4>1, <4>2, <4>3
    <3>15. Distinct(selected)'
      <4> SUFFICES ASSUME NEW i \in DOMAIN selected', NEW j \in DOMAIN selected',
                          selected'[i] = selected'[j]
                   PROVE  i = j
        BY DEF Distinct
      <4>0. i \in Nat /\ j \in Nat /\ attempt \in Nat
        BY <3>2, <3>4
      <4>1. CASE i <= Len(selected) /\ j <= Len(selected)
        BY <3>1, <3>5, <4>1 DEF Listed, Distinct
      <4>2. CASE i <= Len(selected) /\ ~ (j <= Len(selected))
        <5>1. selected'[i].attempt < attempt /\ selected'[i].attempt \in Nat
          BY <3>5, <3>14, <4>2
        <5>2. selected'[j].attempt = attempt
          BY <3>7, <4>2
        <5> QED
          BY <4>0, <5>1, <5>2
      <4>3. CASE ~ (i <= Len(selected)) /\ j <= Len(selected)
        <5>1. selected'[j].attempt < attempt /\ selected'[j].attempt \in Nat
          BY <3>5, <3>14, <4>3
        <5>2. selected'[i].attempt = attempt
          BY <3>7, <4>3
        <5> QED
          BY <4>0, <5>1, <5>2
      <4>4. CASE ~ (i <= Len(selected)) /\ ~ (j <= Len(selected))
        <5>1. i - Len(selected) = j - Len(selected)
          BY <3>7, <4>4
        <5> QED
          BY <3>4, <4>0, <5>1
      <4> QED
        BY <4>1, <4>2, <4>3, <4>4
    <3>16. manifest' = manifest
      BY <2>6 DEF WriteRow
    <3> QED
      BY <2>1, <3>13, <3>15, <3>16 DEF Listed
  <2>7. CASE WriteAfterAttempt \/ WriteAfterProject
    <3>1. /\ manifest' = memory /\ selected' = selected
          /\ pc \in {"write", "lastWrite"} /\ pc \in Collecting /\ pc \in InProject
      BY <2>7 DEF WriteAfterAttempt, WriteAfterProject, WriteManifest, progress, Collecting, InProject
    <3>2. UNCHANGED <<dirs, attempts>>
      BY <2>7 DEF WriteAfterAttempt, WriteAfterProject, WriteManifest
    <3>3. Project \in ProjectSet
      BY <3>1, ProjectKnown
    <3>4. \A p \in ProjectSet : manifest'[p] = IF p = Project THEN selected ELSE manifest[p]
      BY <3>1, <3>3 DEF Kept, Data, RowLists
    <3>5. \A p \in ProjectSet : AllBacked(p, manifest'[p]) /\ Distinct(manifest'[p])
      BY <3>1, <3>4 DEF Listed
    <3>6. \A p \in ProjectSet : AllBacked(p, manifest[p])' /\ Distinct(manifest[p])'
      BY <3>2, <3>5 DEF AllBacked, Backed, Distinct
    <3>7. CASE WriteAfterAttempt
      <4>1. Project' = Project
        BY <3>7 DEF WriteAfterAttempt, Project
      <4> QED
        BY <2>2, <3>1, <3>6, <4>1 DEF Listed
    <3>8. CASE WriteAfterProject
      BY <3>6, <3>8 DEF Listed, WriteAfterProject, WriteManifest, Collecting
    <3> QED
      BY <2>7, <3>7, <3>8
  <2>8. CASE Launch
    BY <2>3, <2>8 DEF Launch, disk, Collecting
  <2>9. CASE OpenManifest
    BY <2>3, <2>9 DEF OpenManifest, disk, Collecting
  <2>10. CASE RunPrepare
    BY <2>5, <2>10 DEF RunPrepare, disk, Collecting, Project
  <2>11. CASE NextAttempt
    BY <2>5, <2>11 DEF NextAttempt, disk, Collecting, Project
  <2>12. CASE Fuzz
    BY <2>5, <2>12 DEF Fuzz, disk, Collecting, Project
  <2>13. CASE MakeDirectory
    BY <2>5, <2>13 DEF MakeDirectory, progress, Collecting, Project
  <2>14. CASE CopyArtifacts
    BY <2>5, <2>14 DEF CopyArtifacts, progress, Collecting, Project
  <2>15. CASE TruncateAfterAttempt \/ TruncateAfterProject
    BY <2>5, <2>15 DEF TruncateAfterAttempt, TruncateAfterProject, Truncate, Collecting, Project
  <2>16. CASE EndProject
    BY <2>5, <2>16 DEF EndProject, progress, disk, Collecting, Project
  <2>17. CASE EndLaunch \/ Raise
    BY <2>3, <2>17 DEF EndLaunch, Raise, disk, Collecting
  <2>18. CASE Crash
    BY <2>3, <2>18 DEF Crash, disk, Collecting
  <2>19. CASE UNCHANGED vars
    BY <2>3, <2>5, <2>19 DEF vars, Project
  <2> QED
    BY <2>4, <2>6, <2>7, <2>8, <2>9, <2>10, <2>11, <2>12, <2>13, <2>14, <2>15, <2>16, <2>17,
       <2>18, <2>19 DEF Next, Step, Attempt
<1> QED
  BY <1>1, <1>2, ControlInductive, DataInductive, KeptInductive, NumberedInductive, PTL DEF Spec

\* Whatever is in accepted_manifest.json can be looked up, in a directory that was copied
\* to its end and in attempts.tsv, and no attempt is numbered like another, wherever the
\* launches of the script were killed.
THEOREM ManifestBacked == Spec => []SelectedBacked
<1>1. Listed /\ Numbered => SelectedBacked
  BY DEF Listed, Numbered, AllBacked, Backed, Distinct, Rising, SelectedBacked
<1> QED
  BY <1>1, ListedInductive, NumberedInductive, PTL
=============================================================================
