------------------------------- MODULE Stages -------------------------------
(***************************************************************************)
(* The stages of a spec and the pure rules that say which stage may follow *)
(* which: internal/storage/spec_domain.go and stage_validation.go.         *)
(***************************************************************************)
EXTENDS Integers, Sequences

\* The authoring funnel, in order.
authoringStages == <<"spark", "shape", "specify", "decompose", "approved">>

AuthoringStageSet == {"spark", "shape", "specify", "decompose", "approved"}

\* Every stage a spec row can hold.
SpecStage ==
    AuthoringStageSet \cup
        {"in_progress", "review", "done", "superseded", "abandoned"}

\* Position of a stage in the funnel, counted from 1; 0 when it is not one.
stageIndex(st) ==
    IF \E i \in 1..5 : authoringStages[i] = st
    THEN CHOOSE i \in 1..5 : authoringStages[i] = st
    ELSE 0

\* Superseded and abandoned specs are closed to lifecycle operations.
FullyTerminalStages == {"superseded", "abandoned"}

\* A spec is amended only from the stages around execution.
AmendEligible == {"approved", "in_progress", "review"}

\* The stages an amended spec may be sent back to.
ReEntryStages == {"spark", "shape", "specify", "decompose"}

\* Mutant: the stage name that migration 005 removed is written again.
PrecedingAuthStageAmended(st) == "amended"

\* The stage before st in the funnel: where an amend lands, so that the
\* authoring command for st is the next one accepted.
PrecedingAuthStage(st) ==
    IF stageIndex(st) <= 1 THEN st ELSE authoringStages[stageIndex(st) - 1]

\* The structural check of a transition: one step forward, or any step back.
ValidateTransition(from, to) ==
    /\ from \in AuthoringStageSet
    /\ to \in AuthoringStageSet
    /\ \/ stageIndex(to) = stageIndex(from) + 1
       \/ stageIndex(to) < stageIndex(from)
=============================================================================
