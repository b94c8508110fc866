------------------------------ MODULE Campaign ------------------------------
(***************************************************************************)
(* What a campaign promises to those who read its records, whatever its    *)
(* settings, its mutator and its gate, and whenever it is interrupted: a   *)
(* system run enters the books of known and of accepted parameters once,   *)
(* one after the other, then the log takes over what is new name by name,  *)
(* and nothing else happens before it has all of it; a seed is kept only   *)
(* of the good run that was logged last, and once; a stop leaves no more   *)
(* than Budget test cases.  An end may come between any two of these       *)
(* writes and leaves the books, the log and the seeds as it finds them.    *)
(***************************************************************************)
EXTENDS Integers, Sequences

CONSTANT Budget   \* the test cases that may start after a stop was asked for

VARIABLES
    phase,    \* what the campaign is at
    stopped,  \* a stop was asked for
    left,     \* what is left of the budget
    known,    \* the parameters some system run exercised
    accepted, \* those an accepted run exercised
    logged,   \* those the event log names as discovered
    run,      \* the system run being worked on: its names, whether it was good, and
              \* whether it is the bootstrap run
    seeds     \* for each seed that was kept, the names of its run

vars == <<phase, stopped, left, known, accepted, logged, run, seeds>>
books == <<known, accepted, logged>>

NoRun == [names |-> {}, ok |-> FALSE, boot |-> FALSE]

Init ==
    /\ phase = "start" /\ stopped = FALSE /\ left = Budget
    /\ known = {} /\ accepted = {} /\ logged = {}
    /\ run = NoRun /\ seeds = <<>>

SkipBoot ==
    /\ phase = "start"
    /\ phase' = "between"
    /\ UNCHANGED <<stopped, left, books, run, seeds>>

\* The time is up: what has begun is brought to its end.
Stop ==
    /\ phase = "between"
    /\ stopped' = TRUE
    /\ UNCHANGED <<phase, left, books, run, seeds>>

Begin ==
    /\ phase = "between"
    /\ phase' = "begun"
    /\ stopped => left > 0
    /\ left' = left - (IF stopped THEN 1 ELSE 0)
    /\ UNCHANGED <<stopped, books, run, seeds>>

\* A test case that gets no system run leaves no trace.
Reject ==
    /\ phase = "begun"
    /\ phase' = "between"
    /\ UNCHANGED <<stopped, left, books, run, seeds>>

\* The system run, the first of all being the bootstrap run: what it exercised is known.
Test ==
    /\ phase \in {"start", "begun"}
    /\ phase' = "tested"
    /\ run'.boot = (phase = "start")
    /\ known' = known \cup run'.names
    /\ UNCHANGED <<stopped, left, accepted, logged, seeds>>

\* The bootstrap run counts as accepted, however it ended.
Accept ==
    /\ phase = "tested"
    /\ phase' = "accepted"
    /\ accepted' = accepted \cup (IF run.ok \/ run.boot THEN run.names ELSE {})
    /\ UNCHANGED <<stopped, left, known, logged, run, seeds>>

\* One more name goes to the log.
Log ==
    /\ phase = "accepted"
    /\ \E n \in known \ logged : logged' = logged \cup {n}
    /\ UNCHANGED <<phase, stopped, left, known, accepted, run, seeds>>

\* The run is over once the log has all that is known; a good run of a test case may
\* leave a seed.
Conclude ==
    /\ phase = "accepted" /\ logged = known
    /\ phase' = "between"
    /\ seeds' = seeds \/ (run.ok /\ ~run.boot /\ seeds' = Append(seeds, run.names))
    /\ run' = NoRun
    /\ UNCHANGED <<stopped, left, books>>

\* The shutdown, at any time.
End ==
    /\ phase # "over"
    /\ phase' = "over"
    /\ stopped' = TRUE
    /\ run' = NoRun
    /\ UNCHANGED <<left, books, seeds>>

Next == SkipBoot \/ Stop \/ Begin \/ Reject \/ Test \/ Accept \/ Log \/ Conclude \/ End

Spec == Init /\ [][Next]_vars
=============================================================================
