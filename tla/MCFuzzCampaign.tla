--------------------------- MODULE MCFuzzCampaign ---------------------------
(***************************************************************************)
(* Instances of FuzzCampaign for TLC, and the properties of a campaign.    *)
(***************************************************************************)
EXTENDS FuzzCampaign

CONSTANTS p1, p2

\* p2 depends on p1 and only p1 has unit tests; the test script reports nothing, one
\* name, or both.
MCRelated == [n \in {p1, p2} |-> IF n = p2 THEN {p1} ELSE {}]
MCReports ==
    {[exercised |-> {}, used |-> {}], [exercised |-> {p1}, used |-> {}],
     [exercised |-> {p1, p2}, used |-> {p1}]}

MCOutcomes ==
    {[status |-> "ok", type |-> 0], [status |-> "failed", type |-> 1],
     [status |-> "failed", type |-> 2], [status |-> "failed", type |-> 3],
     [status |-> "killed", type |-> 2]}

Conf(skipUnit, requirePass, guided, isolated, endless, mutator) ==
    [skipUnit |-> skipUnit, requirePass |-> requirePass, guided |-> guided,
     isolated |-> isolated, endless |-> endless, mutator |-> mutator]

\* The container scripts' guided campaign; the same with failing test cases let
\* through, until the time is up; and the baseline without unit tests.
MCSettings ==
    {Conf(FALSE, TRUE, TRUE, FALSE, FALSE, "SmartMutator"),
     Conf(FALSE, FALSE, TRUE, FALSE, TRUE, "SmartMutator"),
     Conf(TRUE, FALSE, FALSE, TRUE, FALSE, "SingleMutator")}

\* The guided campaign of the container scripts alone.
MCSmartSettings == {Conf(FALSE, TRUE, TRUE, FALSE, FALSE, "SmartMutator")}

\* A longer campaign with fewer outcomes per run.
MCFewReports == {[exercised |-> {p1}, used |-> {}], [exercised |-> {p2}, used |-> {}]}
MCFewOutcomes == {[status |-> "ok", type |-> 0], [status |-> "failed", type |-> 3]}
MCLongSettings == {Conf(FALSE, FALSE, TRUE, FALSE, TRUE, "SingleMutator")}
=============================================================================
