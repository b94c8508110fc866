-------------------------- MODULE ExerciseTracking --------------------------
(***************************************************************************)
(* The bookkeeping of exercised configuration parameters.                  *)
(*                                                                         *)
(* The fuzzer keeps the same two-level record twice: which parameters any  *)
(* system run has exercised, and which were exercised by a run that was    *)
(* accepted (it succeeded, or it was the bootstrap run).  One record of    *)
(* this shape is ExerciseGuidanceState (parameters read or set), another   *)
(* is ProvenanceTrackingState (parameters whose value was used).  Only the *)
(* first one steers the choice of the parameters to fuzz.                  *)
(*                                                                         *)
(* The module declares no variable: FuzzCampaign holds the two records.    *)
(***************************************************************************)
\* The record right after reset_runtime_state.  The names of the bootstrap run and the
\* two counts of runs that exercised something only go to the summary and are left out.
EmptyTracking == [global |-> {}, accepted |-> {}]

TrackingOf(Params) == [global : SUBSET Params, accepted : SUBSET Params]

\* Mutant: a failed run adds its names to the accepted set, and a good one none.
AcceptedAdditionInverted(names, isAccepted) == IF isAccepted THEN {} ELSE names

\* The names a run adds to the accepted set: a run that was not accepted adds none.
AcceptedAddition(names, isAccepted) == IF isAccepted THEN names ELSE {}

\* record_system_run updates its two sets one after the other.
RecordGlobal(t, names) == [t EXCEPT !.global = @ \cup names]

RecordAccepted(t, names, isAccepted) ==
    [t EXCEPT !.accepted = @ \cup AcceptedAddition(names, isAccepted)]

\* get_project_candidate_params: the accepted names once there are any, and only
\* before that everything that was ever exercised.
CandidateParams(t) == IF t.accepted # {} THEN t.accepted ELSE t.global

\* The exploiting branch of choose_candidate_names: what the seed's own last run
\* exercised, else what the project exercised, else everything.
Exploited(t, available, local) ==
    LET inProject == available \cap CandidateParams(t)
    IN  IF available \cap local # {} THEN available \cap local
        ELSE IF inProject # {} THEN inProject
        ELSE available

\* choose_candidate_names: the sets it may return.  The unexplored names come out
\* with probability exploreRatio, so both outcomes are possible whenever there is
\* an unexplored name.
Candidates(guided, t, available, local) ==
    LET unexplored == available \ CandidateParams(t)
    IN  IF ~guided THEN {available}
        ELSE {Exploited(t, available, local)}
             \cup (IF unexplored = {} THEN {} ELSE {unexplored})
=============================================================================
