---------------------------- MODULE StagesProofs ----------------------------
(***************************************************************************)
(* Facts about the funnel's rules that the proofs about specs rest on.     *)
(***************************************************************************)
EXTENDS Stages, TLAPS

\* The sets of stages lie inside each other as the code's maps do.
LEMMA StageFacts ==
    /\ \A i \in 1..5 : authoringStages[i] \in AuthoringStageSet
    /\ AuthoringStageSet \subseteq SpecStage
    /\ ReEntryStages \subseteq AuthoringStageSet
<1>1. \A i \in 1..5 : authoringStages[i] \in AuthoringStageSet
  BY DEF authoringStages, AuthoringStageSet
<1> QED BY <1>1 DEF AuthoringStageSet, SpecStage, ReEntryStages

\* stageIndex answers for any string, 0 outside the funnel.
LEMMA StageIndexType ==
    ASSUME NEW st PROVE stageIndex(st) \in 0..5
BY DEF stageIndex

\* An amend lands on a stage a spec can hold.
LEMMA PrecedingType ==
    ASSUME NEW st \in ReEntryStages PROVE PrecedingAuthStage(st) \in SpecStage
<1>1. stageIndex(st) \in 0..5
  BY StageIndexType
<1>2. CASE stageIndex(st) <= 1
  BY <1>2, StageFacts DEF PrecedingAuthStage
<1>3. CASE ~(stageIndex(st) <= 1)
  <2>1. stageIndex(st) - 1 \in 1..5
    BY <1>1, <1>3
  <2> QED BY <1>3, <2>1, StageFacts DEF PrecedingAuthStage
<1> QED BY <1>2, <1>3

\* The five positions of the funnel; every other stage is outside it.
LEMMA StageIndexValues ==
    /\ stageIndex("spark") = 1 /\ stageIndex("shape") = 2
    /\ stageIndex("specify") = 3 /\ stageIndex("decompose") = 4
    /\ stageIndex("approved") = 5
    /\ \A st \in SpecStage \ AuthoringStageSet : stageIndex(st) = 0
<1>1. \A i \in 1..5 :
        /\ authoringStages[i] = "spark" <=> i = 1
        /\ authoringStages[i] = "shape" <=> i = 2
        /\ authoringStages[i] = "specify" <=> i = 3
        /\ authoringStages[i] = "decompose" <=> i = 4
        /\ authoringStages[i] = "approved" <=> i = 5
  BY DEF authoringStages
<1>2. ASSUME NEW st, NEW n \in 1..5, \A i \in 1..5 : authoringStages[i] = st <=> i = n
      PROVE  stageIndex(st) = n
  BY <1>2 DEF stageIndex
<1>3. ASSUME NEW st \in SpecStage \ AuthoringStageSet PROVE stageIndex(st) = 0
  BY StageFacts DEF stageIndex
<1>4. stageIndex("spark") = 1
  BY <1>1, <1>2
<1>5. stageIndex("shape") = 2
  BY <1>1, <1>2
<1>6. stageIndex("specify") = 3
  BY <1>1, <1>2
<1>7. stageIndex("decompose") = 4
  BY <1>1, <1>2
<1>8. stageIndex("approved") = 5
  BY <1>1, <1>2
<1> QED BY <1>3, <1>4, <1>5, <1>6, <1>7, <1>8

\* An amend lands inside the funnel.
LEMMA PrecedingAuthoring ==
    ASSUME NEW st \in ReEntryStages PROVE PrecedingAuthStage(st) \in AuthoringStageSet
<1>1. stageIndex(st) \in 0..5
  BY StageIndexType
<1>2. CASE stageIndex(st) <= 1
  BY <1>2, StageFacts DEF PrecedingAuthStage
<1>3. CASE ~(stageIndex(st) <= 1)
  <2>1. stageIndex(st) - 1 \in 1..5
    BY <1>1, <1>3
  <2> QED BY <1>3, <2>1, StageFacts DEF PrecedingAuthStage
<1> QED BY <1>2, <1>3
=============================================================================
