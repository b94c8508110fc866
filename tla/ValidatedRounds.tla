--------------------------- MODULE ValidatedRounds ---------------------------
(***************************************************************************)
(* run_validated_fuzz_rounds.py: for every project a container, in it one  *)
(* campaign of a single loop after the other, and of each the test cases   *)
(* that passed the unit gate and were system tested, until enough of them  *)
(* are selected.  The script keeps its progress in three places: a         *)
(* directory per attempt, attempts.tsv, and accepted_manifest.json, which  *)
(* is truncated and written as a whole.  A launch with the same output     *)
(* directory goes on from there, also after the script was killed.         *)
(*                                                                         *)
(* Of an accepted test case only its attempt and its place there are kept. *)
(* One script at a time writes into the output directory.                  *)
(***************************************************************************)
EXTENDS Naturals, Sequences, FiniteSets

CONSTANTS
    Projects,    \* args.projects, in order and each once
    Targets,     \* what target-accepted may be; a later launch may ask for another
    MaxAttempts, \* max-attempts
    Retries,     \* retries of run_prepare, 3
    MaxAccepted, \* accepted test cases of one attempt (bound)
    MaxLaunches  \* launches of the script (bound)

ProjectSet == {Projects[i] : i \in DOMAIN Projects}

ASSUME ProjectsAssumption ==
    /\ Projects \in Seq(STRING)
    /\ \A i, j \in DOMAIN Projects : Projects[i] = Projects[j] => i = j
ASSUME CountsAssumption ==
    /\ Targets \subseteq Nat /\ MaxAttempts \in Nat /\ Retries \in Nat \ {0}
    /\ MaxAccepted \in Nat /\ MaxLaunches \in Nat

VARIABLES
    pc,        \* where the script is
    launches,  \* how often it was launched
    target,    \* args.target_accepted of this launch
    at,        \* the project, by its place
    tries,     \* attempts to prepare
    attempt,   \* the number of the attempt
    accepted,  \* the accepted test cases of the attempt
    selected,  \* selected_rows
    memory,    \* manifest["projects"], as the script holds it
    manifest,  \* accepted_manifest.json: what it held when it could last be read
    torn,      \* whether the file is cut off now, and cannot be read
    attempts,  \* attempts.tsv of every project
    dirs,      \* the attempt directories of every project and what is in them
    container  \* the containers that run

vars == <<pc, launches, target, at, tries, attempt, accepted, selected, memory, manifest,
          torn, attempts, dirs, container>>
disk == <<manifest, torn, attempts, dirs>>
progress == <<tries, attempt, accepted, selected, memory>>

Rows == [attempt : 1..MaxAttempts, place : 1..MaxAccepted]
NoProjects == [p \in ProjectSet |-> <<>>]
Project == Projects[at]

Init ==
    /\ pc = "off" /\ launches = 0 /\ target = 0 /\ at = 0
    /\ tries = 0 /\ attempt = 0 /\ accepted = 0 /\ selected = <<>> /\ memory = NoProjects
    /\ manifest = NoProjects /\ torn = FALSE
    /\ attempts = NoProjects
    /\ dirs = [p \in ProjectSet |-> [a \in 1..MaxAttempts |-> "absent"]]
    /\ container = {}

-----------------------------------------------------------------------------
(* The start of main, and of a project.                                    *)

Launch ==
    /\ pc \in {"off", "exited", "done"} /\ launches < MaxLaunches
    /\ launches' = launches + 1 /\ target' \in Targets
    /\ at' = 1
    /\ pc' = "open"
    /\ UNCHANGED <<progress, disk, container>>

\* A manifest that was cut off ends the launch: json.loads raises.
OpenManifest ==
    /\ pc = "open"
    /\ IF torn THEN pc' = "exited" /\ UNCHANGED memory
       ELSE pc' = "project" /\ memory' = manifest
    /\ UNCHANGED <<launches, target, at, tries, attempt, accepted, selected, disk, container>>

\* Mutant: the rows of an earlier launch are not looked for.
NoRows(project) == <<>>

RowsOf(project) == memory[project]

\* Mutant: the attempts are counted on from the ones the manifest has rows of.
LastSelected(project) ==
    IF memory[project] = <<>> THEN 0 ELSE memory[project][Len(memory[project])].attempt

\* The highest number of a directory, be the attempt complete or not.
LastAttempt(project) ==
    CHOOSE n \in 0..MaxAttempts :
        /\ n # 0 => dirs[project][n] # "absent"
        /\ \A m \in 1..MaxAttempts : dirs[project][m] # "absent" => m <= n

\* docker rm -f, then docker run.
StartProject ==
    /\ pc = "project" /\ at <= Len(Projects)
    /\ selected' = RowsOf(Project) /\ attempt' = LastAttempt(Project)
    /\ tries' = 0
    /\ \/ pc' = "prepare" /\ container' = container \cup {Project}
       \/ pc' = "exited" /\ container' = container \ {Project}
    /\ UNCHANGED <<launches, target, at, accepted, memory, disk>>

\* Mutant: one try too many.
OneTryMore == tries + 1 <= Retries

TryAgain == tries + 1 < Retries

\* run_prepare
RunPrepare ==
    /\ pc = "prepare"
    /\ \/ pc' = "check"
       \/ pc' = IF TryAgain THEN "prepare" ELSE "raise"
    /\ tries' = tries + 1
    /\ UNCHANGED <<launches, target, at, attempt, accepted, selected, memory, disk, container>>

-----------------------------------------------------------------------------
(* An attempt.                                                             *)

NextAttempt ==
    /\ pc = "check" /\ Len(selected) < target
    /\ IF attempt < MaxAttempts THEN pc' = "fuzz" /\ attempt' = attempt + 1
       ELSE pc' = "raise" /\ UNCHANGED attempt
    /\ UNCHANGED <<launches, target, at, tries, accepted, selected, memory, disk, container>>

\* The campaign may fail, and so may latest_run_info.
Fuzz ==
    /\ pc = "fuzz"
    /\ \/ pc' = "mkdir" /\ accepted' \in 0..MaxAccepted
       \/ pc' = "raise" /\ UNCHANGED accepted
    /\ UNCHANGED <<launches, target, at, tries, attempt, selected, memory, disk, container>>

MakeDirectory ==
    /\ pc = "mkdir"
    /\ dirs' = [dirs EXCEPT ![Project][attempt] = "partial"]
    /\ pc' = "copy"
    /\ UNCHANGED <<launches, target, at, progress, manifest, torn, attempts, container>>

\* copy_attempt_artifacts
CopyArtifacts ==
    /\ pc = "copy"
    /\ \/ pc' = "row" /\ dirs' = [dirs EXCEPT ![Project][attempt] = "complete"]
       \/ pc' = "raise" /\ UNCHANGED dirs
    /\ UNCHANGED <<launches, target, at, progress, manifest, torn, attempts, container>>

Remaining == target - Len(selected)
Taken == IF accepted < Remaining THEN accepted ELSE Remaining

\* The selection, which is only in memory, and write_attempt_row.
WriteRow ==
    /\ pc = "row"
    /\ selected' = selected \o [k \in 1..Taken |-> [attempt |-> attempt, place |-> k]]
    /\ attempts' = [attempts EXCEPT ![Project] =
         Append(@, [attempt |-> attempt, taken |-> Taken, sum |-> Len(selected) + Taken])]
    /\ pc' = "manifest"
    /\ UNCHANGED <<launches, target, at, tries, attempt, accepted, memory, manifest, torn,
                   dirs, container>>

\* update_manifest: write_text empties the file before it writes.
Truncate(next) ==
    /\ memory' = [memory EXCEPT ![Project] = selected]
    /\ torn' = TRUE
    /\ pc' = next
    /\ UNCHANGED <<launches, target, at, tries, attempt, accepted, selected, manifest,
                   attempts, dirs, container>>

WriteManifest(next) ==
    /\ manifest' = memory /\ torn' = FALSE
    /\ pc' = next
    /\ UNCHANGED <<launches, target, progress, attempts, dirs, container>>

TruncateAfterAttempt == pc = "manifest" /\ Truncate("write")
WriteAfterAttempt == pc = "write" /\ WriteManifest("check") /\ UNCHANGED at

-----------------------------------------------------------------------------
(* The end of a project.                                                   *)

\* Enough are selected; the container goes, and the manifest is written once more.
EndProject ==
    /\ pc = "check" /\ Len(selected) >= target
    /\ container' = container \ {Project}
    /\ pc' = "lastManifest"
    /\ UNCHANGED <<launches, target, at, progress, disk>>

TruncateAfterProject == pc = "lastManifest" /\ Truncate("lastWrite")
WriteAfterProject == pc = "lastWrite" /\ WriteManifest("project") /\ at' = at + 1

EndLaunch ==
    /\ pc = "project" /\ at > Len(Projects)
    /\ pc' = "done"
    /\ UNCHANGED <<launches, target, at, progress, disk, container>>

\* The finally block, and the exception goes on.
Raise ==
    /\ pc = "raise"
    /\ container' = container \ {Project}
    /\ pc' = "exited"
    /\ UNCHANGED <<launches, target, at, progress, disk>>

\* The script is killed: what it had in memory is gone, its container runs on.
Crash ==
    /\ pc \notin {"off", "exited", "done"}
    /\ pc' = "off"
    /\ tries' = 0 /\ attempt' = 0 /\ accepted' = 0 /\ selected' = <<>> /\ memory' = NoProjects
    /\ UNCHANGED <<launches, target, at, disk, container>>

-----------------------------------------------------------------------------
Attempt == \/ NextAttempt \/ Fuzz \/ MakeDirectory \/ CopyArtifacts \/ WriteRow
           \/ TruncateAfterAttempt \/ WriteAfterAttempt
Step == \/ OpenManifest \/ StartProject \/ RunPrepare \/ Attempt
        \/ EndProject \/ TruncateAfterProject \/ WriteAfterProject \/ EndLaunch \/ Raise
Next == Launch \/ Step \/ Crash

Spec == Init /\ [][Next]_vars

-----------------------------------------------------------------------------
(* Properties.                                                             *)

PCs == {"off", "open", "project", "prepare", "check", "fuzz", "mkdir", "copy", "row",
        "manifest", "write", "lastManifest", "lastWrite", "raise", "exited", "done"}

RowLists == [ProjectSet -> Seq(Rows)]

\* The variables have their types; the file is cut off only from its truncation on.
TypeOK ==
    /\ pc \in PCs /\ launches \in 0..MaxLaunches /\ target \in Nat
    /\ at \in 0..(Len(Projects) + 1)
    /\ tries \in 0..Retries /\ attempt \in 0..MaxAttempts /\ accepted \in 0..MaxAccepted
    /\ selected \in Seq(Rows) /\ memory \in RowLists
    /\ manifest \in RowLists /\ torn \in BOOLEAN
    /\ attempts \in [ProjectSet -> Seq([attempt : 1..MaxAttempts, taken : Nat, sum : Nat])]
    /\ dirs \in [ProjectSet -> [1..MaxAttempts -> {"absent", "partial", "complete"}]]
    /\ container \subseteq ProjectSet

\* A test case in the manifest can be looked up: the artifacts of its attempt were copied to
\* the end and no later attempt, of this launch or another, has taken their directory; the
\* attempt has its row in attempts.tsv, and the test case is selected once.
SelectedBacked ==
    \A p \in ProjectSet :
        /\ \A i \in DOMAIN manifest[p] :
            /\ dirs[p][manifest[p][i].attempt] = "complete"
            /\ \E r \in DOMAIN attempts[p] :
                /\ attempts[p][r].attempt = manifest[p][i].attempt
                /\ manifest[p][i].place <= attempts[p][r].taken
        /\ \A i, j \in DOMAIN manifest[p] : manifest[p][i] = manifest[p][j] => i = j
        /\ \A r, s \in DOMAIN attempts[p] :
            r < s => attempts[p][r].attempt < attempts[p][s].attempt

\* What the manifest has once held it holds again whenever it is written anew, for every
\* project, in whatever launch: it may become unreadable, but it is never readable with less.
SelectedKept ==
    [][\A p \in ProjectSet :
          /\ Len(manifest[p]) <= Len(manifest'[p])
          /\ \A i \in DOMAIN manifest[p] : manifest'[p][i] = manifest[p][i]]_vars
=============================================================================
