------------------------- MODULE ClaimLeaseProofs --------------------------
(***************************************************************************)
(* Proofs about ClaimLease, for every set of specs, agents and requests    *)
(* and every choice of lease durations.                                    *)
(***************************************************************************)
EXTENDS ClaimLease, StagesProofs

\* A request that runs names a spec; one that writes claims names an agent.
RequestOK ==
    \A r \in Requests :
        /\ req[r].pc \notin Replied => req[r].spec \in Specs
        /\ req[r].op = "claim" => req[r].agent \in Agents

\* A requested lease duration, the default included, is a number.
LEMMA LeaseType == ASSUME NEW d \in Durations PROVE LeaseOf(d) \in Int
BY TimeAssumption DEF LeaseOf

\* The record of a request that has been answered.
LEMMA ReplyType ==
    ASSUME NEW status \in Replied
    PROVE  /\ Reply(status) \in Request
           /\ Reply(status).pc \in Replied
           /\ Reply(status).op = "none"
BY DEF Reply, Request, Replied, Ops, Steps, SpecStage, AuthoringStageSet
-----------------------------------------------------------------------------
\* The initial states are well typed.
LEMMA InitType == Init => TypeOK /\ RequestOK
<1> SUFFICES ASSUME Init PROVE TypeOK /\ RequestOK
  OBVIOUS
<1>1. stage \in [Specs -> SpecStage]
  BY InitStagesAssumption, StageFacts DEF Init
<1>2. version \in [Specs -> Nat]
  BY StageIndexType DEF Init
<1>3. log \in [Specs -> Seq(Entry)]
  <2>1. ASSUME NEW s \in Specs PROVE InitLog(stage[s]) \in Seq(Entry)
    <3> DEFINE n == stageIndex(stage[s])
    <3>1. n \in Nat /\ n \in 0..5
      BY StageIndexType
    <3>2. \A i \in 1..n : [version |-> i, stage |-> authoringStages[i]] \in Entry
      BY <3>1, StageFacts DEF Entry
    <3>3. InitLog(stage[s]) \in [1..n -> Entry]
      BY <3>2 DEF InitLog
    <3> QED BY <3>1, <3>3
  <2> QED BY <2>1 DEF Init
<1>4. claims \in [Specs -> Claim] /\ edges \in [Specs -> SUBSET Agents]
  BY DEF Init, NoClaim, Claim
<1>5. req \in [Requests -> Request] /\ RequestOK
  BY ReplyType DEF Init, RequestOK, Replied
<1> QED BY <1>1, <1>2, <1>3, <1>4, <1>5 DEF Init, TypeOK

\* What the helpers that update req do to its type.
LEMMA StartType ==
    ASSUME TypeOK, RequestOK,
           NEW r \in Requests, NEW op \in Ops, NEW pc \in Steps, NEW s \in Specs,
           NEW a \in Agents \cup {None}, NEW now \in Int, NEW exp \in Int,
           NEW ver \in Nat, NEW to \in SpecStage,
           op = "claim" => a \in Agents,
           Start(r, op, pc, s, a, now, exp, ver, to)
    PROVE  req' \in [Requests -> Request] /\ RequestOK'
BY DEF TypeOK, RequestOK, Request, Start

\* Answering a request keeps the types of every request.
LEMMA FinishType ==
    ASSUME TypeOK, RequestOK, NEW r \in Requests, NEW status \in Replied,
           Finish(r, status)
    PROVE  req' \in [Requests -> Request] /\ RequestOK'
BY ReplyType DEF TypeOK, RequestOK, Finish

\* Putting a well-formed request in a slot keeps the types of every request.
LEMMA RequestWriteType ==
    ASSUME TypeOK, RequestOK, NEW r \in Requests, NEW q \in Request,
           q.spec \in Specs, q.op = "claim" => q.agent \in Agents,
           req' = [req EXCEPT ![r] = q]
    PROVE  req' \in [Requests -> Request] /\ RequestOK'
BY DEF TypeOK, RequestOK

\* Moving a request to another step keeps what it names.
LEMMA GotoType ==
    ASSUME TypeOK, RequestOK, NEW r \in Requests, NEW pc \in Steps,
           req[r].pc \notin Replied, Goto(r, pc)
    PROVE  req' \in [Requests -> Request] /\ RequestOK'
BY DEF TypeOK, RequestOK, Request, Goto

\* The commit of a lifecycle or completion request keeps the types of the
\* spec's row.
LEMMA CommitType ==
    ASSUME TypeOK, RequestOK, NEW r \in Requests, req[r].pc \notin Replied,
           Commit(r)
    PROVE  /\ req' \in [Requests -> Request] /\ RequestOK'
           /\ stage' \in [Specs -> SpecStage] /\ version' \in [Specs -> Nat]
           /\ log' \in [Specs -> Seq(Entry)]
           /\ lock' \in [Specs -> Requests \cup {None}]
<1> DEFINE s == req[r].spec
<1>1. s \in Specs /\ req[r].ver \in Nat /\ req[r].to \in SpecStage
  BY DEF TypeOK, RequestOK, Request
<1>2. req' \in [Requests -> Request] /\ RequestOK'
  BY FinishType DEF Commit, Replied
<1>3. CASE req[r].op = "unclaim"
  BY <1>2, <1>3 DEF Commit, specVars, TypeOK
<1>4. CASE req[r].op # "unclaim"
  <2> DEFINE v == IF req[r].op = "complete" THEN req[r].ver + 1 ELSE version[s] + 1
             e == [version |-> v, stage |-> req[r].to]
  <2>1. e \in Entry
    BY <1>1 DEF TypeOK, Entry
  <2>2. log' = [log EXCEPT ![s] = Append(log[s], e)]
    BY <1>4 DEF Commit
  <2>3. Append(log[s], e) \in Seq(Entry)
    BY <1>1, <2>1 DEF TypeOK
  <2>4. log' \in [Specs -> Seq(Entry)]
    BY <1>1, <2>2, <2>3 DEF TypeOK
  <2>5. stage' \in [Specs -> SpecStage]
    BY <1>1, <1>4 DEF Commit, TypeOK
  <2>7. version' \in [Specs -> Nat]
    <3>1. version' = [version EXCEPT ![s] = version[s] + 1]
      BY <1>4 DEF Commit
    <3> QED BY <1>1, <3>1 DEF TypeOK
  <2>6. lock' \in [Specs -> Requests \cup {None}]
    BY <1>1, <1>4 DEF Commit, TypeOK
  <2> QED BY <1>2, <2>4, <2>5, <2>6, <2>7
<1> QED BY <1>3, <1>4

\* A step writes at most one claim row and one spec's edges.
LEMMA RowType ==
    ASSUME TypeOK, NEW s \in Specs,
           \/ claims' = claims
           \/ \E c \in Claim : claims' = [claims EXCEPT ![s] = c]
    PROVE  claims' \in [Specs -> Claim]
BY DEF TypeOK

\* Any set of agents may become a spec's edges.
LEMMA EdgesType ==
    ASSUME TypeOK, NEW s \in Specs,
           \/ edges' = edges
           \/ \E A \in SUBSET Agents : edges' = [edges EXCEPT ![s] = A]
    PROVE  edges' \in [Specs -> SUBSET Agents]
BY DEF TypeOK
-----------------------------------------------------------------------------
\* Every step of a request or of the sweeper keeps the state typed.
LEMMA NextType ==
    ASSUME TypeOK, RequestOK, [Next]_vars PROVE TypeOK' /\ RequestOK'
<1> USE DEF Replied
<1>a. clock \in Int /\ \A d \in Durations : clock + LeaseOf(d) \in Int
  BY LeaseType DEF TypeOK
<1>1. CASE UNCHANGED vars
  BY <1>1 DEF vars, TypeOK, RequestOK, Request
<1>2. ASSUME NEW r \in Requests, ClaimSpec(r) PROVE TypeOK' /\ RequestOK'
  <2>1. PICK s \in Specs, a \in Agents, d \in Durations :
          Start(r, "claim", "prune", s, a, clock, clock + LeaseOf(d), 0, "spark")
    BY <1>2 DEF ClaimSpec
  <2>2. req' \in [Requests -> Request] /\ RequestOK'
    BY <1>a, <2>1, StartType DEF Ops, Steps, SpecStage, AuthoringStageSet
  <2> QED BY <1>2, <2>2 DEF ClaimSpec, TypeOK, specVars
<1>3. ASSUME NEW r \in Requests, Heartbeat(r) PROVE TypeOK' /\ RequestOK'
  <2>1. PICK s \in Specs, a \in Agents, d \in Durations :
          Start(r, "heartbeat", "beat", s, a, clock, clock + LeaseOf(d), 0, "spark")
    BY <1>3 DEF Heartbeat
  <2>2. req' \in [Requests -> Request] /\ RequestOK'
    BY <1>a, <2>1, StartType DEF Ops, Steps, SpecStage, AuthoringStageSet
  <2> QED BY <1>3, <2>2 DEF Heartbeat, TypeOK, specVars
<1>4. ASSUME NEW r \in Requests, UnclaimSpec(r) PROVE TypeOK' /\ RequestOK'
  <2>1. req' \in [Requests -> Request] /\ RequestOK'
    <3>1. PICK s \in Specs, a \in Agents :
            \/ Start(r, "unclaim", "release", s, a, 0, 0, 0, "spark")
            \/ Finish(r, "err")
      BY <1>4 DEF UnclaimSpec
    <3> QED BY <3>1, StartType, FinishType DEF Ops, Steps, SpecStage, AuthoringStageSet
  <2> QED BY <1>4, <2>1 DEF UnclaimSpec, TypeOK, specVars
<1>5. ASSUME NEW r \in Requests, LifecycleAmendSpec(r) PROVE TypeOK' /\ RequestOK'
  <2>1. PICK s \in Specs, st \in ReEntryStages :
          Start(r, "amend", "guard", s, None, 0, 0, version[s], PrecedingAuthStage(st))
    BY <1>5 DEF LifecycleAmendSpec
  <2>2. version[s] \in Nat /\ PrecedingAuthStage(st) \in SpecStage
    BY PrecedingType DEF TypeOK
  <2>3. req' \in [Requests -> Request] /\ RequestOK'
    BY <2>1, <2>2, StartType DEF Ops, Steps
  <2> QED BY <1>5, <2>3 DEF LifecycleAmendSpec, TypeOK, specVars
<1>6. ASSUME NEW r \in Requests, LifecycleAbandonSpec(r) PROVE TypeOK' /\ RequestOK'
  <2>1. req' \in [Requests -> Request] /\ RequestOK'
    <3>1. PICK s \in Specs :
            \/ Start(r, "abandon", "guard", s, None, 0, 0, version[s], "abandoned")
            \/ Finish(r, "err")
      BY <1>6 DEF LifecycleAbandonSpec
    <3>2. version[s] \in Nat /\ "abandoned" \in SpecStage
      BY DEF TypeOK, SpecStage
    <3> QED BY <3>1, <3>2, StartType, FinishType DEF Ops, Steps
  <2> QED BY <1>6, <2>1 DEF LifecycleAbandonSpec, TypeOK, specVars
<1>7. ASSUME NEW r \in Requests, RecordCompletion(r) PROVE TypeOK' /\ RequestOK'
  <2>1. req' \in [Requests -> Request] /\ RequestOK'
    <3>1. PICK s \in Specs, a \in Agents :
            \/ Start(r, "complete", "read", s, a, 0, 0, 0, "done")
            \/ Finish(r, "err")
      BY <1>7 DEF RecordCompletion
    <3>2. "done" \in SpecStage
      BY DEF SpecStage
    <3> QED BY <3>1, <3>2, StartType, FinishType DEF Ops, Steps
  <2> QED BY <1>7, <2>1 DEF RecordCompletion, TypeOK, specVars
<1>8. ASSUME NEW r \in Requests, ClaimPrune(r) PROVE TypeOK' /\ RequestOK'
  <2>1. req' \in [Requests -> Request] /\ RequestOK'
    BY <1>8, FinishType, GotoType DEF ClaimPrune, At, Steps
  <2>2. req[r].spec \in Specs /\ req[r].agent \in Agents /\ req[r].exp \in Int
    BY <1>8 DEF ClaimPrune, At, RequestOK, TypeOK, Request
  <2>3. claims' \in [Specs -> Claim] /\ edges' \in [Specs -> SUBSET Agents]
    <3> DEFINE s == req[r].spec
               c == [agent |-> req[r].agent, expires |-> req[r].exp]
    <3>1. c \in Claim /\ {req[r].agent} \in SUBSET Agents
      BY <2>2 DEF Claim
    <3>2. edges[s] \cap {claims[s].agent} \in SUBSET Agents
      BY <2>2 DEF TypeOK
    <3>3. claims' = claims \/ claims' = [claims EXCEPT ![s] = c]
      BY <1>8 DEF ClaimPrune
    <3>4. \/ edges' = [edges EXCEPT ![s] = {req[r].agent}]
          \/ edges' = [edges EXCEPT ![s] = edges[s] \cap {claims[s].agent}]
      BY <1>8 DEF ClaimPrune
    <3> QED BY <2>2, <3>1, <3>2, <3>3, <3>4, RowType, EdgesType
  <2> QED BY <1>8, <2>1, <2>3 DEF ClaimPrune, TypeOK, specVars
<1>9. ASSUME NEW r \in Requests, ClaimCheck(r) PROVE TypeOK' /\ RequestOK'
  <2>1. req' \in [Requests -> Request] /\ RequestOK'
    BY <1>9, FinishType, GotoType DEF ClaimCheck, At, Steps
  <2> QED BY <1>9, <2>1 DEF ClaimCheck, TypeOK, specVars
<1>10. ASSUME NEW r \in Requests, ClaimRefresh(r) PROVE TypeOK' /\ RequestOK'
  <2>1. req' \in [Requests -> Request] /\ RequestOK'
    BY <1>10, FinishType DEF ClaimRefresh
  <2>2. req[r].spec \in Specs /\ req[r].exp \in Int
    BY <1>10 DEF ClaimRefresh, At, RequestOK, TypeOK, Request
  <2>3. claims' \in [Specs -> Claim]
    <3> DEFINE s == req[r].spec
               c == [claims[s] EXCEPT !.expires = req[r].exp]
    <3>1. c \in Claim
      BY <2>2 DEF TypeOK, Claim
    <3>2. claims' = claims \/ claims' = [claims EXCEPT ![s] = c]
      BY <1>10 DEF ClaimRefresh
    <3> QED BY <2>2, <3>1, <3>2, RowType
  <2> QED BY <1>10, <2>1, <2>3 DEF ClaimRefresh, TypeOK, specVars
<1>11. ASSUME NEW r \in Requests, ClaimInsert(r) PROVE TypeOK' /\ RequestOK'
  <2>1. req' \in [Requests -> Request] /\ RequestOK'
    BY <1>11, FinishType DEF ClaimInsert
  <2>2. req[r].spec \in Specs /\ req[r].agent \in Agents /\ req[r].exp \in Int
    BY <1>11 DEF ClaimInsert, At, RequestOK, TypeOK, Request
  <2>3. claims' \in [Specs -> Claim] /\ edges' \in [Specs -> SUBSET Agents]
    <3> DEFINE s == req[r].spec
               c == [agent |-> req[r].agent, expires |-> req[r].exp]
    <3>1. c \in Claim /\ edges[s] \cup {req[r].agent} \in SUBSET Agents
      BY <2>2 DEF Claim, TypeOK
    <3>2. claims' = claims \/ claims' = [claims EXCEPT ![s] = c]
      BY <1>11 DEF ClaimInsert
    <3>3. \/ edges' = edges
          \/ edges' = [edges EXCEPT ![s] = edges[s] \cup {req[r].agent}]
      BY <1>11 DEF ClaimInsert
    <3> QED BY <2>2, <3>1, <3>2, <3>3, RowType, EdgesType
  <2> QED BY <1>11, <2>1, <2>3 DEF ClaimInsert, TypeOK, specVars
<1>12. ASSUME NEW r \in Requests, HeartbeatUpdate(r) PROVE TypeOK' /\ RequestOK'
  <2>1. req' \in [Requests -> Request] /\ RequestOK'
    BY <1>12, FinishType DEF HeartbeatUpdate
  <2>2. req[r].spec \in Specs /\ req[r].exp \in Int
    BY <1>12 DEF HeartbeatUpdate, At, RequestOK, TypeOK, Request
  <2>3. claims' \in [Specs -> Claim]
    <3> DEFINE s == req[r].spec
               c == [claims[s] EXCEPT !.expires = req[r].exp]
    <3>1. c \in Claim
      BY <2>2 DEF TypeOK, Claim
    <3>2. claims' = claims \/ claims' = [claims EXCEPT ![s] = c]
      BY <1>12 DEF HeartbeatUpdate
    <3> QED BY <2>2, <3>1, <3>2, RowType
  <2> QED BY <1>12, <2>1, <2>3 DEF HeartbeatUpdate, TypeOK, specVars
<1>13. ASSUME NEW r \in Requests, ReleaseClaim(r) PROVE TypeOK' /\ RequestOK'
  <2>1. req[r].pc \notin Replied /\ req[r].spec \in Specs
    BY <1>13 DEF ReleaseClaim, RequestOK
  <2>2. claims' \in [Specs -> Claim] /\ edges' \in [Specs -> SUBSET Agents]
    <3> DEFINE s == req[r].spec
    <3>1. NoClaim \in Claim /\ edges[s] \ {req[r].agent} \in SUBSET Agents
      BY <2>1 DEF Claim, NoClaim, TypeOK
    <3>2. claims' = claims \/ claims' = [claims EXCEPT ![s] = NoClaim]
      BY <1>13 DEF ReleaseClaim
    <3>3. \/ edges' = edges
          \/ edges' = [edges EXCEPT ![s] = edges[s] \ {req[r].agent}]
      BY <1>13 DEF ReleaseClaim
    <3> QED BY <2>1, <3>1, <3>2, <3>3, RowType, EdgesType
  <2>3. CASE Commit(r)
    BY <1>13, <2>1, <2>2, <2>3, CommitType DEF ReleaseClaim, TypeOK
  <2>4. CASE Goto(r, "edge") /\ UNCHANGED specVars
    BY <1>13, <2>1, <2>2, <2>4, GotoType DEF ReleaseClaim, TypeOK, specVars, Steps
  <2> QED BY <1>13, <2>3, <2>4 DEF ReleaseClaim, specVars
<1>14. ASSUME NEW r \in Requests, ReleaseEdge(r) PROVE TypeOK' /\ RequestOK'
  <2>1. req[r].pc \notin Replied /\ req[r].spec \in Specs
    BY <1>14 DEF ReleaseEdge, RequestOK
  <2>2. edges' \in [Specs -> SUBSET Agents]
    BY <1>14, <2>1 DEF ReleaseEdge, TypeOK
  <2> QED BY <1>14, <2>1, <2>2, CommitType DEF ReleaseEdge, TypeOK
<1>15. ASSUME NEW r \in Requests, GuardedUpdate(r) PROVE TypeOK' /\ RequestOK'
  <2>1. req' \in [Requests -> Request] /\ RequestOK'
    BY <1>15, FinishType, GotoType DEF GuardedUpdate, Steps
  <2>2. lock' \in [Specs -> Requests \cup {None}]
    BY <1>15 DEF GuardedUpdate, TypeOK
  <2> QED BY <1>15, <2>1, <2>2 DEF GuardedUpdate, TypeOK
<1>16. ASSUME NEW r \in Requests, SeekClaim(r) PROVE TypeOK' /\ RequestOK'
  <2>1. req[r].pc \notin Replied /\ req[r].spec \in Specs
    BY <1>16 DEF SeekClaim, RequestOK
  <2>2. CASE Commit(r)
    BY <1>16, <2>1, <2>2, CommitType DEF SeekClaim, TypeOK
  <2>3. CASE /\ Held(req[r].spec)
             /\ req' = [req EXCEPT ![r] =
                          [@ EXCEPT !.pc = "release",
                                    !.agent = claims[req[r].spec].agent]]
             /\ UNCHANGED specVars
    <3>1. claims[req[r].spec].agent \in Agents
      BY <2>1, <2>3 DEF TypeOK, Claim, Held
    <3> DEFINE q == [req[r] EXCEPT !.pc = "release",
                                   !.agent = claims[req[r].spec].agent]
    <3>2. req[r] \in Request
      BY DEF TypeOK
    <3>3. q \in Request
      BY <3>1, <3>2 DEF Request, Steps
    <3>4. q.spec = req[r].spec /\ q.agent \in Agents
      BY <3>1, <3>2 DEF Request
    <3>5. req' = [req EXCEPT ![r] = q]
      BY <2>3
    <3>6. req' \in [Requests -> Request] /\ RequestOK'
      BY <2>1, <3>3, <3>4, <3>5, RequestWriteType
    <3> QED BY <1>16, <2>3, <3>6 DEF SeekClaim, TypeOK, specVars
  <2> QED BY <1>16, <2>2, <2>3 DEF SeekClaim
<1>17. ASSUME NEW r \in Requests, CompletionRead(r) PROVE TypeOK' /\ RequestOK'
  <2> DEFINE q == [req[r] EXCEPT !.pc = "update", !.ver = version[req[r].spec]]
  <2>1. version[req[r].spec] \in Nat
    BY <1>17 DEF CompletionRead, At, RequestOK, TypeOK
  <2>2. req[r] \in Request
    BY DEF TypeOK
  <2>3. q \in Request
    BY <2>1, <2>2 DEF Request, Steps
  <2>4. q.spec = req[r].spec /\ q.op = "complete"
    BY <1>17, <2>2 DEF Request, CompletionRead, At
  <2>5. req[r].spec \in Specs
    BY <1>17 DEF CompletionRead, At, RequestOK
  <2>6. req' = [req EXCEPT ![r] = q]
    BY <1>17 DEF CompletionRead
  <2>7. req' \in [Requests -> Request] /\ RequestOK'
    BY <2>3, <2>4, <2>5, <2>6, RequestWriteType
  <2> QED BY <1>17, <2>7 DEF CompletionRead, TypeOK, specVars
<1>18. ASSUME NEW r \in Requests, CompletionUpdate(r) PROVE TypeOK' /\ RequestOK'
  <2>1. req' \in [Requests -> Request] /\ RequestOK'
    BY <1>18, GotoType DEF CompletionUpdate, At, Steps
  <2> QED BY <1>18, <2>1 DEF CompletionUpdate, TypeOK
<1>19. ASSUME NEW r \in Requests, Rollback(r) PROVE TypeOK' /\ RequestOK'
  <2>1. req' \in [Requests -> Request] /\ RequestOK'
    BY <1>19, FinishType DEF Rollback
  <2> QED BY <1>19, <2>1 DEF Rollback, TypeOK
<1>20. ASSUME NEW s \in Specs, TransitionStage(s) PROVE TypeOK' /\ RequestOK'
  <2>1. PICK to \in SpecStage :
          /\ stage' = [stage EXCEPT ![s] = to]
          /\ version' = [version EXCEPT ![s] = @ + 1]
          /\ log' = [log EXCEPT ![s] =
                       Append(@, [version |-> version[s] + 1, stage |-> to])]
    BY <1>20 DEF TransitionStage
  <2> DEFINE e == [version |-> version[s] + 1, stage |-> to]
  <2>2. e \in Entry
    BY DEF TypeOK, Entry
  <2>3. Append(log[s], e) \in Seq(Entry)
    BY <2>2 DEF TypeOK
  <2>4. log' \in [Specs -> Seq(Entry)]
    BY <2>1, <2>3 DEF TypeOK
  <2> QED BY <1>20, <2>1, <2>4 DEF TransitionStage, TypeOK, RequestOK
<1>21. CASE ReleaseExpiredClaims
  <2>1. claims' \in [Specs -> Claim] /\ edges' \in [Specs -> SUBSET Agents]
    BY <1>21 DEF ReleaseExpiredClaims, TypeOK, Claim, NoClaim
  <2> QED BY <1>21, <2>1 DEF ReleaseExpiredClaims, TypeOK, specVars, RequestOK
<1>22. CASE Tick
  BY <1>22 DEF Tick, TypeOK, specVars, RequestOK
<1> QED
  BY <1>1, <1>2, <1>3, <1>4, <1>5, <1>6, <1>7, <1>8, <1>9, <1>10, <1>11, <1>12,
     <1>13, <1>14, <1>15, <1>16, <1>17, <1>18, <1>19, <1>20, <1>21, <1>22
  DEF Next, Arrive, Proceed

\* The store's rows and the running requests keep their types: in every
\* behaviour of the claim and lifecycle operations.
THEOREM TypeCorrect == Spec => []TypeOK
<1>1. Init => TypeOK /\ RequestOK
  BY InitType
<1>2. TypeOK /\ RequestOK /\ [Next]_vars => (TypeOK /\ RequestOK)'
  BY NextType
<1> QED BY <1>1, <1>2, PTL DEF Spec
-----------------------------------------------------------------------------
\* Every step keeps the CLAIMED_BY edges of a spec on the agent its claim names.
LEMMA NextNoDangling ==
    ASSUME TypeOK, RequestOK, NoDanglingEdge, [Next]_vars
    PROVE  NoDanglingEdge'
<1>1. CASE UNCHANGED <<claims, edges>>
  BY <1>1 DEF NoDanglingEdge
<1>2. ASSUME NEW r \in Requests, ClaimPrune(r) PROVE NoDanglingEdge'
  <2> DEFINE s == req[r].spec
  <2>1. s \in Specs
    BY <1>2 DEF ClaimPrune, At, RequestOK, Replied
  <2>2. CASE /\ claims' = [claims EXCEPT ![s] = [agent |-> req[r].agent,
                                               expires |-> req[r].exp]]
             /\ edges' = [edges EXCEPT ![s] = {req[r].agent}]
    BY <2>1, <2>2 DEF NoDanglingEdge, TypeOK
  <2>3. CASE claims' = claims /\ edges' = [edges EXCEPT ![s] = @ \cap {claims[s].agent}]
    BY <2>1, <2>3 DEF NoDanglingEdge, TypeOK
  <2> QED BY <1>2, <2>2, <2>3 DEF ClaimPrune
<1>3. ASSUME NEW r \in Requests, ClaimRefresh(r) \/ HeartbeatUpdate(r)
      PROVE  NoDanglingEdge'
  <2> DEFINE s == req[r].spec
  <2>1. s \in Specs
    BY <1>3 DEF ClaimRefresh, HeartbeatUpdate, At, RequestOK, Replied
  <2>2. \/ UNCHANGED <<claims, edges>>
        \/ /\ claims' = [claims EXCEPT ![s] = [claims[s] EXCEPT !.expires = req[r].exp]]
           /\ edges' = edges
    BY <1>3 DEF ClaimRefresh, HeartbeatUpdate
  <2>3. ASSUME NEW x \in Specs PROVE claims'[x].agent = claims[x].agent
    <3>1. claims[s] \in Claim /\ claims \in [Specs -> Claim]
      BY <2>1 DEF TypeOK
    <3>2. [claims[s] EXCEPT !.expires = req[r].exp].agent = claims[s].agent
      BY <3>1 DEF Claim
    <3> QED BY <2>1, <2>2, <3>1, <3>2
  <2> QED BY <2>2, <2>3 DEF NoDanglingEdge
<1>4. ASSUME NEW r \in Requests, ClaimInsert(r) PROVE NoDanglingEdge'
  <2> DEFINE s == req[r].spec
  <2>1. s \in Specs
    BY <1>4 DEF ClaimInsert, At, RequestOK, Replied
  <2>2. CASE Held(s)
    BY <1>1, <1>4, <2>2 DEF ClaimInsert
  <2>3. CASE ~Held(s)
    \* No edge can be left: None is not an agent.
    <3>1. edges[s] = {}
      BY <2>1, <2>3, NoneAssumption DEF NoDanglingEdge, TypeOK, Held
    <3>2. claims' = [claims EXCEPT ![s] = [agent |-> req[r].agent, expires |-> req[r].exp]]
      BY <1>4, <2>3 DEF ClaimInsert
    <3>3. edges' = [edges EXCEPT ![s] = edges[s] \cup {req[r].agent}]
      BY <1>4, <2>3 DEF ClaimInsert
    <3> QED BY <2>1, <3>1, <3>2, <3>3 DEF NoDanglingEdge, TypeOK
  <2> QED BY <2>2, <2>3
<1>5. ASSUME NEW r \in Requests, ReleaseClaim(r) \/ ReleaseEdge(r)
      PROVE  NoDanglingEdge'
  <2> DEFINE s == req[r].spec  a == req[r].agent
  <2>1. s \in Specs
    BY <1>5 DEF ReleaseClaim, ReleaseEdge, RequestOK, Replied
  <2>2. CASE UNCHANGED <<claims, edges>>
    BY <1>1, <2>2
  <2>3. CASE /\ claims[s].agent = a
             /\ claims' = [claims EXCEPT ![s] = NoClaim]
             /\ edges' = [edges EXCEPT ![s] = @ \ {a}]
    <3>1. edges'[s] = {}
      BY <2>1, <2>3 DEF NoDanglingEdge, TypeOK
    <3>2. \A x \in Specs \ {s} : claims'[x] = claims[x] /\ edges'[x] = edges[x]
      BY <2>1, <2>3 DEF TypeOK
    <3> QED BY <3>1, <3>2 DEF NoDanglingEdge
  <2>4. CASE claims' = claims /\ edges' = [edges EXCEPT ![s] = @ \ {a}]
    BY <2>1, <2>4 DEF NoDanglingEdge, TypeOK
  <2> QED BY <1>5, <2>2, <2>3, <2>4 DEF ReleaseClaim, ReleaseEdge
<1>6. CASE ReleaseExpiredClaims
  <2> DEFINE gone == {s \in Swept : Expired(s)}
  <2>1. \A s \in Specs \cap gone : edges'[s] = {}
    BY <1>6 DEF ReleaseExpiredClaims, NoDanglingEdge, TypeOK
  <2>2. \A s \in Specs \ gone : claims'[s] = claims[s] /\ edges'[s] = edges[s]
    BY <1>6 DEF ReleaseExpiredClaims
  <2> QED BY <2>1, <2>2 DEF NoDanglingEdge
<1>7. ASSUME NEW r \in Requests, Arrive(r) PROVE UNCHANGED <<claims, edges>>
  BY <1>7 DEF Arrive, ClaimSpec, Heartbeat, UnclaimSpec, LifecycleAmendSpec,
              LifecycleAbandonSpec, RecordCompletion
<1>8. ASSUME NEW r \in Requests,
             \/ ClaimCheck(r) \/ GuardedUpdate(r) \/ SeekClaim(r)
             \/ CompletionRead(r) \/ CompletionUpdate(r) \/ Rollback(r)
      PROVE  UNCHANGED <<claims, edges>>
  BY <1>8 DEF ClaimCheck, GuardedUpdate, SeekClaim, CompletionRead,
              CompletionUpdate, Rollback
<1>9. ASSUME NEW s \in Specs, TransitionStage(s) PROVE UNCHANGED <<claims, edges>>
  BY <1>9 DEF TransitionStage
<1>10. CASE Tick
  BY <1>1, <1>10 DEF Tick
<1>11. CASE UNCHANGED vars
  BY <1>1, <1>11 DEF vars
<1> QED
  BY <1>1, <1>2, <1>3, <1>4, <1>5, <1>6, <1>7, <1>8, <1>9, <1>10, <1>11
  DEF Next, Proceed

\* Amend, abandon, completion, unclaim, take-over and the sweeper never leave
\* a CLAIMED_BY edge without the claim row it stands for, however their
\* statements interleave.
THEOREM EdgesFollowClaims == Spec => []NoDanglingEdge
<1> DEFINE Inv == TypeOK /\ RequestOK /\ NoDanglingEdge
<1>1. Init => Inv
  <2>1. Init => NoDanglingEdge
    BY DEF Init, NoDanglingEdge
  <2> QED BY <2>1, InitType
<1>2. Inv /\ [Next]_vars => Inv'
  BY NextType, NextNoDangling
<1> QED BY <1>1, <1>2, PTL DEF Spec
-----------------------------------------------------------------------------
(***************************************************************************)
(* The row lock of a spec.  Locking(q): the transaction of request q is    *)
(* past its UPDATE of the spec row.  Formed(q): the step a request is at   *)
(* fits its operation.  Owned(r): what request r may rely on because its   *)
(* transaction holds the row, or because versions only grow.               *)
(***************************************************************************)
Locking(q) ==
    \/ q.op \in {"amend", "abandon"} /\ q.pc \notin Replied \cup {"guard"}
    \/ q.op = "complete" /\ q.pc \in {"release", "edge"}

Formed(q) ==
    /\ q.op = "none" <=> q.pc \in Replied
    /\ q.op = "none" => q.spec = None /\ q.agent = None /\ q.exp = 0
    /\ q.pc \in {"guard", "seek"} => q.op \in {"amend", "abandon"}
    /\ q.pc \in {"release", "edge"} => q.op \in {"unclaim", "amend", "abandon", "complete"}
    /\ q.op \in {"abandon", "complete"} => q.to \notin ReEntryStages

RequestsFormed == \A r \in Requests : Formed(req[r])

\* A claim decides with a time that has been: the clock never goes back.
ClaimsInPast == \A r \in Requests : req[r].op = "claim" => req[r].now <= clock

OwnedAs(q, r) ==
    /\ Locking(q) => lock[q.spec] = r
    /\ Locking(q) /\ q.op # "complete" => version[q.spec] = q.ver
    /\ Locking(q) /\ q.op = "amend" => stage[q.spec] \in AmendEligible
    /\ q.op = "complete" /\ q.pc \in {"update", "release", "edge"}
          => q.ver <= version[q.spec]

RowsOwned == \A r \in Requests : OwnedAs(req[r], r)

IInv ==
    /\ TypeOK /\ RequestOK
    /\ RequestsFormed /\ ClaimsInPast /\ RowsOwned
    /\ LogNotAhead

\* Writing one request's record keeps the others formed and in the past.
LEMMA RequestWriteForm ==
    ASSUME TypeOK, RequestsFormed, ClaimsInPast, clock' = clock,
           NEW r \in Requests, NEW q \in Request, req' = [req EXCEPT ![r] = q],
           Formed(q), q.op = "claim" => q.now <= clock
    PROVE  RequestsFormed' /\ ClaimsInPast'
<1>1. \A x \in Requests : req'[x] = IF x = r THEN q ELSE req[x]
  BY DEF TypeOK
<1> QED BY <1>1 DEF RequestsFormed, ClaimsInPast

\* A request that goes on to another step of its operation stays formed.
LEMMA GotoForm ==
    ASSUME TypeOK, RequestsFormed, ClaimsInPast, clock' = clock,
           NEW r \in Requests, NEW pc \in Steps \ Replied, req[r].op # "none",
           pc \in {"guard", "seek"} => req[r].op \in {"amend", "abandon"},
           pc \in {"release", "edge"} =>
               req[r].op \in {"unclaim", "amend", "abandon", "complete"},
           Goto(r, pc)
    PROVE  RequestsFormed' /\ ClaimsInPast'
<1> DEFINE q == [req[r] EXCEPT !.pc = pc]
<1>1. req[r] \in Request
  BY DEF TypeOK
<1>2. q \in Request /\ q.pc = pc /\ q.op = req[r].op /\ q.now = req[r].now
      /\ q.to = req[r].to
  BY <1>1 DEF Request
<1>3. Formed(q)
  BY <1>2 DEF Formed, RequestsFormed
<1>4. q.op = "claim" => q.now <= clock
  BY <1>2 DEF ClaimsInPast
<1> QED BY <1>2, <1>3, <1>4, RequestWriteForm DEF Goto

\* An answered request is formed.
LEMMA FinishForm ==
    ASSUME TypeOK, RequestsFormed, ClaimsInPast, clock' = clock,
           NEW r \in Requests, NEW status \in Replied, Finish(r, status)
    PROVE  RequestsFormed' /\ ClaimsInPast'
<1>1. Reply(status) \in Request /\ Formed(Reply(status)) /\ Reply(status).op # "claim"
  BY ReplyType DEF Reply, Formed, Replied
<1> QED BY <1>1, RequestWriteForm DEF Finish

\* A new request is formed when its operation begins at that step.
LEMMA StartForm ==
    ASSUME TypeOK, RequestsFormed, ClaimsInPast, clock' = clock,
           NEW r \in Requests, NEW op \in Ops \ {"none"}, NEW pc \in Steps \ Replied,
           NEW s \in Specs, NEW a \in Agents \cup {None}, NEW now \in Int,
           NEW exp \in Int, NEW ver \in Nat, NEW to \in SpecStage,
           pc \in {"guard", "seek"} => op \in {"amend", "abandon"},
           pc \in {"release", "edge"} => op \in {"unclaim", "amend", "abandon", "complete"},
           op \in {"abandon", "complete"} => to \notin ReEntryStages,
           op = "claim" => now <= clock,
           Start(r, op, pc, s, a, now, exp, ver, to)
    PROVE  RequestsFormed' /\ ClaimsInPast'
<1> DEFINE q == [op |-> op, pc |-> pc, spec |-> s, agent |-> a,
                 now |-> now, exp |-> exp, ver |-> ver, to |-> to]
<1>1. q \in Request
  BY DEF Request
<1>2. Formed(q)
  BY DEF Formed
<1> QED BY <1>1, <1>2, RequestWriteForm DEF Start

\* Every step leaves every request at a step of its own operation.
LEMMA NextForm ==
    ASSUME TypeOK, RequestOK, RequestsFormed, ClaimsInPast, [Next]_vars
    PROVE  RequestsFormed' /\ ClaimsInPast'
<1> DEFINE Goal == RequestsFormed' /\ ClaimsInPast'
<1> USE DEF Replied
<1>a. clock \in Int /\ \A d \in Durations : clock + LeaseOf(d) \in Int
  BY LeaseType DEF TypeOK
<1>b. "spark" \in SpecStage /\ "abandoned" \in SpecStage \ ReEntryStages
      /\ "done" \in SpecStage \ ReEntryStages
  BY DEF SpecStage, ReEntryStages, AuthoringStageSet
<1>c. ASSUME req' = req, clock' \in Nat, clock <= clock' PROVE Goal
  BY <1>c DEF RequestsFormed, ClaimsInPast, TypeOK, Request
<1>d. \A r \in Requests : req[r].now \in Int
  BY DEF TypeOK, Request
<1>1. CASE UNCHANGED vars \/ ReleaseExpiredClaims \/ \E s \in Specs : TransitionStage(s)
  <2>1. req' = req /\ clock' = clock
    BY <1>1 DEF vars, ReleaseExpiredClaims, TransitionStage
  <2> QED BY <1>c, <2>1 DEF TypeOK
<1>2. CASE Tick
  BY <1>c, <1>2 DEF Tick, TypeOK
<1>3. ASSUME NEW r \in Requests, ClaimSpec(r) PROVE Goal
  <2>1. PICK s \in Specs, a \in Agents, d \in Durations :
          Start(r, "claim", "prune", s, a, clock, clock + LeaseOf(d), 0, "spark")
    BY <1>3 DEF ClaimSpec
  <2> QED BY <1>3, <1>a, <1>b, <2>1, StartForm DEF ClaimSpec, Ops, Steps
<1>4. ASSUME NEW r \in Requests, Heartbeat(r) PROVE Goal
  <2>1. PICK s \in Specs, a \in Agents, d \in Durations :
          Start(r, "heartbeat", "beat", s, a, clock, clock + LeaseOf(d), 0, "spark")
    BY <1>4 DEF Heartbeat
  <2> QED BY <1>4, <1>a, <1>b, <2>1, StartForm DEF Heartbeat, Ops, Steps
<1>5. ASSUME NEW r \in Requests, UnclaimSpec(r) PROVE Goal
  <2>1. PICK s \in Specs, a \in Agents :
          \/ Start(r, "unclaim", "release", s, a, 0, 0, 0, "spark")
          \/ Finish(r, "err")
    BY <1>5 DEF UnclaimSpec
  <2> QED BY <1>5, <1>b, <2>1, StartForm, FinishForm DEF UnclaimSpec, Ops, Steps
<1>6. ASSUME NEW r \in Requests, LifecycleAmendSpec(r) PROVE Goal
  <2>1. PICK s \in Specs, st \in ReEntryStages :
          Start(r, "amend", "guard", s, None, 0, 0, version[s], PrecedingAuthStage(st))
    BY <1>6 DEF LifecycleAmendSpec
  <2>2. version[s] \in Nat /\ PrecedingAuthStage(st) \in SpecStage
    BY PrecedingType DEF TypeOK
  <2> QED BY <1>6, <2>1, <2>2, StartForm DEF LifecycleAmendSpec, Ops, Steps
<1>7. ASSUME NEW r \in Requests, LifecycleAbandonSpec(r) PROVE Goal
  <2>1. PICK s \in Specs :
          \/ Start(r, "abandon", "guard", s, None, 0, 0, version[s], "abandoned")
          \/ Finish(r, "err")
    BY <1>7 DEF LifecycleAbandonSpec
  <2>2. version[s] \in Nat
    BY DEF TypeOK
  <2> QED BY <1>7, <1>b, <2>1, <2>2, StartForm, FinishForm
       DEF LifecycleAbandonSpec, Ops, Steps
<1>8. ASSUME NEW r \in Requests, RecordCompletion(r) PROVE Goal
  <2>1. PICK s \in Specs, a \in Agents :
          \/ Start(r, "complete", "read", s, a, 0, 0, 0, "done")
          \/ Finish(r, "err")
    BY <1>8 DEF RecordCompletion
  <2> QED BY <1>8, <1>b, <2>1, StartForm, FinishForm DEF RecordCompletion, Ops, Steps
<1>9. ASSUME NEW r \in Requests, ClaimPrune(r) PROVE Goal
  BY <1>9, FinishForm, GotoForm DEF ClaimPrune, At, Steps
<1>10. ASSUME NEW r \in Requests, ClaimCheck(r) PROVE Goal
  BY <1>10, FinishForm, GotoForm DEF ClaimCheck, At, Steps
<1>11. ASSUME NEW r \in Requests,
              ClaimRefresh(r) \/ ClaimInsert(r) \/ HeartbeatUpdate(r) \/ Rollback(r)
       PROVE  Goal
  <2>1. clock' = clock /\ (Finish(r, "ok") \/ Finish(r, "err"))
    BY <1>11 DEF ClaimRefresh, ClaimInsert, HeartbeatUpdate, Rollback
  <2> QED BY <2>1, FinishForm
<1>12. ASSUME NEW r \in Requests, ReleaseClaim(r) \/ ReleaseEdge(r) PROVE Goal
  <2>1. clock' = clock /\ (Finish(r, "ok") \/ Goto(r, "edge"))
    BY <1>12 DEF ReleaseClaim, ReleaseEdge, Commit
  <2>2. req[r].op \in {"unclaim", "amend", "abandon", "complete"}
    BY <1>12 DEF ReleaseClaim, ReleaseEdge, RequestsFormed, Formed
  <2> QED BY <2>1, <2>2, FinishForm, GotoForm DEF Steps
<1>13. ASSUME NEW r \in Requests, GuardedUpdate(r) PROVE Goal
  <2>1. clock' = clock /\ (Finish(r, "err") \/ Goto(r, "seek"))
    BY <1>13 DEF GuardedUpdate
  <2>2. req[r].op \in {"amend", "abandon"}
    BY <1>13 DEF GuardedUpdate, RequestsFormed, Formed
  <2> QED BY <2>1, <2>2, FinishForm, GotoForm DEF Steps
<1>14. ASSUME NEW r \in Requests, SeekClaim(r) PROVE Goal
  <2> DEFINE q == [req[r] EXCEPT !.pc = "release", !.agent = claims[req[r].spec].agent]
  <2>1. clock' = clock /\ (Finish(r, "ok") \/ req' = [req EXCEPT ![r] = q])
    BY <1>14 DEF SeekClaim, Commit
  <2>2. req[r].op \in {"amend", "abandon"} /\ req[r].spec \in Specs
    BY <1>14 DEF SeekClaim, RequestsFormed, Formed, RequestOK
  <2>3. req[r] \in Request /\ claims[req[r].spec].agent \in Agents \cup {None}
    BY <2>2 DEF TypeOK, Claim
  <2>4. q \in Request /\ q.op = req[r].op /\ q.pc = "release" /\ q.to = req[r].to
    BY <2>3 DEF Request, Steps
  <2>5. Formed(q)
    BY <2>2, <2>4 DEF Formed, RequestsFormed
  <2> QED BY <2>1, <2>2, <2>4, <2>5, FinishForm, RequestWriteForm
<1>15. ASSUME NEW r \in Requests, CompletionRead(r) PROVE Goal
  <2> DEFINE q == [req[r] EXCEPT !.pc = "update", !.ver = version[req[r].spec]]
  <2>1. clock' = clock /\ req' = [req EXCEPT ![r] = q]
    BY <1>15 DEF CompletionRead
  <2>2. req[r].op = "complete" /\ req[r].spec \in Specs
    BY <1>15 DEF CompletionRead, At, RequestOK
  <2>3. req[r] \in Request /\ version[req[r].spec] \in Nat
    BY <2>2 DEF TypeOK
  <2>4. q \in Request /\ q.op = req[r].op /\ q.pc = "update" /\ q.to = req[r].to
    BY <2>3 DEF Request, Steps
  <2>5. Formed(q)
    BY <2>2, <2>4 DEF Formed, RequestsFormed
  <2> QED BY <2>1, <2>2, <2>4, <2>5, RequestWriteForm
<1>16. ASSUME NEW r \in Requests, CompletionUpdate(r) PROVE Goal
  BY <1>16, GotoForm DEF CompletionUpdate, At, Steps
<1> QED
  BY <1>1, <1>2, <1>3, <1>4, <1>5, <1>6, <1>7, <1>8, <1>9, <1>10, <1>11, <1>12,
     <1>13, <1>14, <1>15, <1>16
  DEF Next, Arrive, Proceed

\* A request that neither locks a row nor has read a version relies on
\* nothing; writing such a record, while the rows stay, keeps what the
\* others rely on.
LEMMA RequestWriteOwned ==
    ASSUME TypeOK, RowsOwned, UNCHANGED <<stage, version, lock>>,
           NEW r \in Requests, NEW q \in Request, req' = [req EXCEPT ![r] = q],
           OwnedAs(q, r)
    PROVE  RowsOwned'
<1>1. \A x \in Requests : req'[x] = IF x = r THEN q ELSE req[x]
  BY DEF TypeOK
<1>2. \A x \in Requests : \A p : OwnedAs(p, x)' <=> OwnedAs(p, x)
  BY DEF OwnedAs, Locking
<1>3. ASSUME NEW x \in Requests PROVE OwnedAs(req'[x], x)
  BY <1>1 DEF RowsOwned
<1> QED BY <1>3 DEF RowsOwned, OwnedAs, Locking

\* A record that is outside the locking part of its operation may be written.
LEMMA PlainOwned ==
    ASSUME TypeOK, RowsOwned, UNCHANGED <<stage, version, lock>>,
           NEW r \in Requests, NEW q \in Request, req' = [req EXCEPT ![r] = q],
           \/ q.op \notin {"amend", "abandon", "complete"}
           \/ q.op \in {"amend", "abandon"} /\ q.pc = "guard"
           \/ q.op = "complete" /\ q.pc = "read"
    PROVE  RowsOwned'
<1>1. OwnedAs(q, r)
  BY DEF OwnedAs, Locking
<1> QED BY <1>1, RequestWriteOwned

\* An answered request relies on nothing.
LEMMA FinishOwned ==
    ASSUME TypeOK, RowsOwned, UNCHANGED <<stage, version, lock>>,
           NEW r \in Requests, NEW status \in Replied, Finish(r, status)
    PROVE  RowsOwned'
<1>1. Reply(status) \in Request /\ Reply(status).op = "none"
  BY ReplyType
<1> QED BY <1>1, PlainOwned DEF Finish

\* A request that goes on while its transaction holds the row still holds it.
LEMMA GotoOwned ==
    ASSUME TypeOK, RowsOwned, UNCHANGED <<stage, version, lock>>,
           NEW r \in Requests, NEW pc \in Steps, Goto(r, pc),
           \/ req[r].op \notin {"amend", "abandon", "complete"}
           \/ Locking(req[r]) /\ pc = "edge"
    PROVE  RowsOwned'
<1> DEFINE q == [req[r] EXCEPT !.pc = pc]
<1>1. req[r] \in Request
  BY DEF TypeOK
<1>2. /\ q \in Request /\ q.pc = pc /\ q.op = req[r].op /\ q.spec = req[r].spec
      /\ q.ver = req[r].ver
  BY <1>1 DEF Request
<1>3. OwnedAs(req[r], r)
  BY DEF RowsOwned
<1>4. OwnedAs(q, r)
  BY <1>2, <1>3 DEF OwnedAs, Locking, Replied
<1> QED BY <1>2, <1>4, RequestWriteOwned DEF Goto

\* What a commit writes: nothing for an unclaim; otherwise the transaction
\* holds the row, which it alone may write, and its entry is not ahead.
LEMMA CommitEffect ==
    ASSUME TypeOK, RequestOK, RequestsFormed, RowsOwned, NEW r \in Requests,
           req[r].pc \in {"seek", "release", "edge"}, Commit(r)
    PROVE  \/ UNCHANGED <<stage, version, log, lock>>
           \/ /\ lock[req[r].spec] = r /\ req[r].spec \in Specs
              /\ stage' = [stage EXCEPT ![req[r].spec] = req[r].to]
              /\ req[r].to \in ReEntryStages => stage[req[r].spec] \in AmendEligible
              /\ version' = [version EXCEPT ![req[r].spec] = version[req[r].spec] + 1]
              /\ lock' = [lock EXCEPT ![req[r].spec] = None]
              /\ \E v \in Nat :
                    /\ v <= version[req[r].spec] + 1
                    /\ log' = [log EXCEPT ![req[r].spec] =
                         Append(log[req[r].spec], [version |-> v, stage |-> req[r].to])]
<1> DEFINE s == req[r].spec
<1>1. s \in Specs /\ req[r].ver \in Nat /\ req[r].op \in {"unclaim", "amend", "abandon", "complete"}
  BY DEF RequestOK, TypeOK, Request, RequestsFormed, Formed, Replied
<1>2. CASE req[r].op = "unclaim"
  BY <1>2 DEF Commit, specVars
<1>3. CASE req[r].op # "unclaim"
  <2>1. OwnedAs(req[r], r) /\ Locking(req[r])
    BY <1>1, <1>3 DEF RowsOwned, Locking, Replied, RequestsFormed, Formed
  <2>2. lock[s] = r /\ (req[r].op = "complete" => req[r].ver <= version[s])
        /\ (req[r].op = "amend" => stage[s] \in AmendEligible)
    BY <2>1, <1>1 DEF OwnedAs, Locking
  <2>3. req[r].to \in ReEntryStages => stage[s] \in AmendEligible
    BY <1>1, <1>3, <2>2 DEF RequestsFormed, Formed
  <2> DEFINE v == IF req[r].op = "complete" THEN req[r].ver + 1 ELSE version[s] + 1
  <2>4. version[s] \in Nat
    BY <1>1 DEF TypeOK
  <2>5. v \in Nat /\ v <= version[s] + 1
    BY <1>1, <2>2, <2>4
  <2>6. /\ stage' = [stage EXCEPT ![s] = req[r].to]
        /\ version' = [version EXCEPT ![s] = version[s] + 1]
        /\ log' = [log EXCEPT ![s] = Append(log[s], [version |-> v, stage |-> req[r].to])]
        /\ lock' = [lock EXCEPT ![s] = None]
    BY <1>3 DEF Commit
  <2> HIDE DEF v
  <2> QED BY <1>1, <2>2, <2>3, <2>5, <2>6
<1> QED BY <1>2, <1>3

\* Every step keeps the row with the transaction that updated it, at the
\* version that transaction decided on.
LEMMA NextOwned ==
    ASSUME TypeOK, RequestOK, RequestsFormed, RowsOwned, [Next]_vars,
           TypeOK', RequestsFormed'
    PROVE  RowsOwned'
<1> DEFINE Rows == UNCHANGED <<stage, version, lock>>
<1>a. \A r \in Requests : r # None
  BY NoneAssumption
<1>b. \A r \in Requests : req[r] \in Request /\ req'[r] \in Request
  BY DEF TypeOK
<1>1. CASE UNCHANGED vars \/ ReleaseExpiredClaims \/ Tick
  <2>1. req' = req /\ Rows
    BY <1>1 DEF vars, ReleaseExpiredClaims, Tick, specVars
  <2> QED BY <2>1 DEF RowsOwned, OwnedAs, Locking
<1>2. ASSUME NEW r \in Requests, Arrive(r) PROVE RowsOwned'
  <2>1. Rows
    BY <1>2 DEF Arrive, ClaimSpec, Heartbeat, UnclaimSpec, LifecycleAmendSpec,
                LifecycleAbandonSpec, RecordCompletion, specVars
  <2>2. \/ Finish(r, "err")
        \/ \E op, pc, s, a, now, exp, ver, to :
             /\ \/ op \notin {"amend", "abandon", "complete"}
                \/ op \in {"amend", "abandon"} /\ pc = "guard"
                \/ op = "complete" /\ pc = "read"
             /\ Start(r, op, pc, s, a, now, exp, ver, to)
    BY <1>2 DEF Arrive, ClaimSpec, Heartbeat, UnclaimSpec, LifecycleAmendSpec,
                LifecycleAbandonSpec, RecordCompletion
  <2>3. CASE Finish(r, "err")
    BY <2>1, <2>3, FinishOwned DEF Replied
  <2>4. ASSUME NEW op, NEW pc, NEW s, NEW a, NEW now, NEW exp, NEW ver, NEW to,
               \/ op \notin {"amend", "abandon", "complete"}
               \/ op \in {"amend", "abandon"} /\ pc = "guard"
               \/ op = "complete" /\ pc = "read",
               Start(r, op, pc, s, a, now, exp, ver, to)
        PROVE  RowsOwned'
    <3> DEFINE q == [op |-> op, pc |-> pc, spec |-> s, agent |-> a,
                     now |-> now, exp |-> exp, ver |-> ver, to |-> to]
    <3>1. req' = [req EXCEPT ![r] = q]
      BY <2>4 DEF Start
    <3>2. q \in Request
      BY <1>b, <3>1 DEF TypeOK
    <3> QED BY <2>1, <2>4, <3>1, <3>2, PlainOwned
  <2> QED BY <2>2, <2>3, <2>4
<1>3. ASSUME NEW r \in Requests, ClaimPrune(r) \/ ClaimCheck(r) PROVE RowsOwned'
  <2>1. /\ Rows /\ req[r].op = "claim"
        /\ \/ Finish(r, "ok") \/ Finish(r, "err")
           \/ Goto(r, "check") \/ Goto(r, "insert") \/ Goto(r, "refresh")
    BY <1>3 DEF ClaimPrune, ClaimCheck, At, specVars
  <2> QED BY <2>1, FinishOwned, GotoOwned DEF Steps, Replied
<1>4. ASSUME NEW r \in Requests, ClaimRefresh(r) \/ ClaimInsert(r) \/ HeartbeatUpdate(r)
      PROVE  RowsOwned'
  <2>1. Rows /\ (Finish(r, "ok") \/ Finish(r, "err"))
    BY <1>4 DEF ClaimRefresh, ClaimInsert, HeartbeatUpdate, specVars
  <2> QED BY <2>1, FinishOwned DEF Replied
<1>5. ASSUME NEW r \in Requests, Commit(r), req[r].pc \in {"seek", "release", "edge"}
      PROVE  RowsOwned'
  <2> DEFINE s == req[r].spec
  <2>0. Finish(r, "ok")
    BY <1>5 DEF Commit
  <2>1. CASE Rows
    BY <2>0, <2>1, FinishOwned DEF Replied
  <2>2. CASE /\ lock[s] = r /\ s \in Specs
             /\ stage' = [stage EXCEPT ![s] = req[r].to]
             /\ version' = [version EXCEPT ![s] = version[s] + 1]
             /\ lock' = [lock EXCEPT ![s] = None]
    <3>1. ASSUME NEW x \in Requests, x # r PROVE OwnedAs(req[x], x)'
      <4>1. req'[x] = req[x] /\ OwnedAs(req[x], x)
        BY <2>0, <3>1 DEF Finish, TypeOK, RowsOwned
      <4>2. Locking(req[x]) => req[x].spec # s
        BY <2>2, <3>1, <4>1 DEF OwnedAs
      <4>3. \A t \in Specs \ {s} : stage'[t] = stage[t] /\ version'[t] = version[t]
                                   /\ lock'[t] = lock[t]
        BY <2>2 DEF TypeOK
      <4>4. req[x].pc \notin Replied => req[x].spec \in Specs
        BY DEF RequestOK
      <4>5. Locking(req[x]) => req[x].pc \notin Replied
        BY DEF Locking, Replied
      <4>6. \A t \in Specs : version[t] <= version'[t] /\ version[t] \in Nat /\ version'[t] \in Nat
        BY <2>2 DEF TypeOK
      <4>7. req[x].ver \in Nat
        BY <1>b DEF Request
      <4>8. /\ Locking(req[x]) => lock'[req[x].spec] = x
            /\ Locking(req[x]) /\ req[x].op # "complete" => version'[req[x].spec] = req[x].ver
            /\ Locking(req[x]) /\ req[x].op = "amend" => stage'[req[x].spec] \in AmendEligible
        BY <4>1, <4>2, <4>3, <4>4, <4>5 DEF OwnedAs
      <4>9. req[x].op = "complete" /\ req[x].pc \in {"update", "release", "edge"}
              => req[x].ver <= version'[req[x].spec]
        BY <4>1, <4>4, <4>6, <4>7 DEF OwnedAs, Replied
      <4> QED BY <4>1, <4>8, <4>9 DEF OwnedAs, Locking
    <3>2. OwnedAs(req[r], r)'
      <4>1. req'[r].op = "none"
        BY <2>0, ReplyType DEF Finish, TypeOK, Replied
      <4> QED BY <4>1 DEF OwnedAs, Locking
    <3> QED BY <3>1, <3>2 DEF RowsOwned
  <2> QED BY <1>5, <2>1, <2>2, CommitEffect
<1>6. ASSUME NEW r \in Requests, ReleaseClaim(r) PROVE RowsOwned'
  <2>1. CASE Commit(r)
    BY <1>5, <1>6, <2>1 DEF ReleaseClaim
  <2>2. CASE Rows /\ Goto(r, "edge")
    <3>1. req[r].op \in {"unclaim", "amend", "abandon", "complete"} /\ req[r].pc = "release"
      BY <1>6 DEF ReleaseClaim, RequestsFormed, Formed
    <3>2. req[r].op = "unclaim" \/ Locking(req[r])
      BY <3>1 DEF Locking, Replied
    <3> QED BY <2>2, <3>2, GotoOwned DEF Steps
  <2> QED BY <1>6, <2>1, <2>2 DEF ReleaseClaim, specVars
<1>7. ASSUME NEW r \in Requests, ReleaseEdge(r) PROVE RowsOwned'
  BY <1>5, <1>7 DEF ReleaseEdge
<1>8. ASSUME NEW r \in Requests, SeekClaim(r) PROVE RowsOwned'
  <2>1. CASE Commit(r)
    BY <1>5, <1>8, <2>1 DEF SeekClaim
  <2> DEFINE q == [req[r] EXCEPT !.pc = "release", !.agent = claims[req[r].spec].agent]
  <2>2. CASE Rows /\ req' = [req EXCEPT ![r] = q]
    <3>1. q \in Request
      BY <1>b, <2>2 DEF TypeOK
    <3>2. /\ q.pc = "release" /\ q.op = req[r].op /\ q.spec = req[r].spec
          /\ q.ver = req[r].ver
      BY <1>b DEF Request
    <3>3. req[r].op \in {"amend", "abandon"} /\ Locking(req[r])
      BY <1>8 DEF SeekClaim, RequestsFormed, Formed, Locking, Replied
    <3>4. OwnedAs(q, r)
      BY <3>2, <3>3 DEF OwnedAs, Locking, Replied, RowsOwned
    <3> QED BY <2>2, <3>1, <3>4, RequestWriteOwned
  <2> QED BY <1>8, <2>1, <2>2 DEF SeekClaim, specVars
<1>9. ASSUME NEW r \in Requests, CompletionRead(r) PROVE RowsOwned'
  <2> DEFINE q == [req[r] EXCEPT !.pc = "update", !.ver = version[req[r].spec]]
  <2>1. Rows /\ req' = [req EXCEPT ![r] = q] /\ req[r].op = "complete"
    BY <1>9 DEF CompletionRead, At, specVars
  <2>2. q \in Request
    BY <1>b, <2>1 DEF TypeOK
  <2>3. /\ q.pc = "update" /\ q.op = req[r].op /\ q.spec = req[r].spec
        /\ q.ver = version[req[r].spec] /\ q.ver \in Nat
    BY <1>b, <2>2 DEF Request
  <2>4. OwnedAs(q, r)
    BY <2>1, <2>3 DEF OwnedAs, Locking
  <2> QED BY <2>1, <2>2, <2>4, RequestWriteOwned
<1>10. ASSUME NEW r \in Requests, NEW q \in Request, req' = [req EXCEPT ![r] = q],
              UNCHANGED <<stage, version>>, lock[q.spec] = None, q.spec \in Specs,
              lock' = [lock EXCEPT ![q.spec] = r],
              q.op # "complete" => version[q.spec] = q.ver,
              q.op = "amend" => stage[q.spec] \in AmendEligible,
              q.op = "complete" => q.ver <= version[q.spec]
       PROVE  RowsOwned'
  <2>1. ASSUME NEW x \in Requests, x # r PROVE OwnedAs(req[x], x)'
    <3>1. req'[x] = req[x] /\ OwnedAs(req[x], x)
      BY <1>10, <2>1 DEF TypeOK, RowsOwned
    <3>2. Locking(req[x]) => lock'[req[x].spec] = lock[req[x].spec]
      BY <1>10, <1>a, <2>1, <3>1 DEF OwnedAs, TypeOK
    <3> QED BY <1>10, <3>1, <3>2 DEF OwnedAs, Locking
  <2>2. req'[r] = q /\ lock'[q.spec] = r
    BY <1>10 DEF TypeOK
  <2>3. OwnedAs(req[r], r)'
    BY <1>10, <2>2 DEF OwnedAs
  <2> QED BY <2>1, <2>3 DEF RowsOwned
<1>11. ASSUME NEW r \in Requests, GuardedUpdate(r) PROVE RowsOwned'
  <2>1. CASE GuardHolds(r)
    <3> DEFINE q == [req[r] EXCEPT !.pc = "seek"]
    <3>1. /\ req' = [req EXCEPT ![r] = q] /\ UNCHANGED <<stage, version>>
          /\ lock[req[r].spec] = None /\ lock' = [lock EXCEPT ![req[r].spec] = r]
      BY <1>11, <2>1 DEF GuardedUpdate, Goto
    <3>2. q \in Request /\ q.spec = req[r].spec /\ q.ver = req[r].ver /\ q.op = req[r].op
      BY <1>b DEF Request, Steps
    <3>3. req[r].spec \in Specs /\ q.op \in {"amend", "abandon"}
      BY <1>11, <3>2 DEF GuardedUpdate, RequestsFormed, Formed, RequestOK, Replied
    <3> HIDE DEF q
    <3> QED BY <1>10, <2>1, <3>1, <3>2, <3>3 DEF GuardHolds
  <2>2. CASE ~GuardHolds(r)
    BY <1>11, <2>2, FinishOwned DEF GuardedUpdate, Replied
  <2> QED BY <2>1, <2>2
<1>12. ASSUME NEW r \in Requests, CompletionUpdate(r) PROVE RowsOwned'
  <2> DEFINE q == [req[r] EXCEPT !.pc = "release"]
  <2>1. /\ req' = [req EXCEPT ![r] = q] /\ UNCHANGED <<stage, version>>
        /\ lock[req[r].spec] = None /\ lock' = [lock EXCEPT ![req[r].spec] = r]
        /\ req[r].op = "complete" /\ req[r].pc = "update"
    BY <1>12 DEF CompletionUpdate, Goto, At
  <2>2. q \in Request /\ q.spec = req[r].spec /\ q.ver = req[r].ver /\ q.op = req[r].op
    BY <1>b DEF Request, Steps
  <2>3. req[r].spec \in Specs /\ req[r].ver <= version[req[r].spec]
    BY <2>1 DEF RequestOK, RowsOwned, OwnedAs, Replied
  <2> HIDE DEF q
  <2> QED BY <1>10, <2>1, <2>2, <2>3
<1>13. ASSUME NEW r \in Requests, Rollback(r) PROVE RowsOwned'
  <2>1. ASSUME NEW x \in Requests, x # r PROVE OwnedAs(req[x], x)'
    <3>1. req'[x] = req[x] /\ OwnedAs(req[x], x)
      BY <1>13, <2>1 DEF Rollback, Finish, TypeOK, RowsOwned
    <3>2. Locking(req[x]) => req[x].spec \in Specs
      BY DEF Locking, RequestOK, Replied
    <3>3. Locking(req[x]) => lock'[req[x].spec] = x
      BY <1>13, <2>1, <3>1, <3>2 DEF Rollback, OwnedAs
    <3>4. stage' = stage /\ version' = version
      BY <1>13 DEF Rollback
    <3> QED BY <3>1, <3>3, <3>4 DEF OwnedAs, Locking
  <2>2. req'[r].op = "none"
    BY <1>13, ReplyType DEF Rollback, Finish, TypeOK, Replied
  <2>3. OwnedAs(req[r], r)'
    BY <2>2 DEF OwnedAs, Locking
  <2> QED BY <2>1, <2>3 DEF RowsOwned
<1>14. ASSUME NEW s \in Specs, TransitionStage(s) PROVE RowsOwned'
  <2>1. /\ lock[s] = None /\ lock' = lock /\ req' = req
        /\ \A t \in Specs \ {s} : stage'[t] = stage[t] /\ version'[t] = version[t]
        /\ version'[s] = version[s] + 1
    BY <1>14 DEF TransitionStage, TypeOK
  <2>2. ASSUME NEW x \in Requests PROVE OwnedAs(req[x], x)'
    <3>1. OwnedAs(req[x], x) /\ x # None
      BY <1>a DEF RowsOwned
    <3>2. req[x].pc \notin Replied => req[x].spec \in Specs
      BY DEF RequestOK
    <3>3. Locking(req[x]) => req[x].spec \in Specs \ {s}
      BY <2>1, <3>1, <3>2 DEF OwnedAs, Locking, Replied
    <3>4. \A t \in Specs : version[t] <= version'[t] /\ version[t] \in Nat /\ version'[t] \in Nat
      <4>1. version \in [Specs -> Nat] /\ version' \in [Specs -> Nat]
        BY DEF TypeOK
      <4>2. \A t \in Specs : version'[t] = version[t] \/ version'[t] = version[t] + 1
        BY <2>1
      <4> QED BY <4>1, <4>2
    <3>5. req[x].ver \in Nat
      BY <1>b DEF Request
    <3>6. req[x].op = "complete" /\ req[x].pc \in {"update", "release", "edge"}
            => req[x].ver <= version'[req[x].spec]
      BY <3>1, <3>2, <3>4, <3>5 DEF OwnedAs, Replied
    <3> QED BY <2>1, <3>1, <3>3, <3>6 DEF OwnedAs, Locking
  <2> QED BY <2>2 DEF RowsOwned
<1> QED
  BY <1>1, <1>2, <1>3, <1>4, <1>6, <1>7, <1>8, <1>9, <1>11, <1>12, <1>13, <1>14
  DEF Next, Proceed

\* Every step keeps the changelog behind its spec.
LEMMA NextLog ==
    ASSUME TypeOK, RequestOK, RequestsFormed, RowsOwned, LogNotAhead, [Next]_vars,
           TypeOK'
    PROVE  LogNotAhead'
<1>1. ASSUME UNCHANGED <<version, log>> PROVE LogNotAhead'
  BY <1>1 DEF LogNotAhead
<1>2. ASSUME NEW s \in Specs, NEW v \in Nat, NEW to, v <= version[s] + 1,
             version' = [version EXCEPT ![s] = version[s] + 1],
             log' = [log EXCEPT ![s] = Append(log[s], [version |-> v, stage |-> to])]
      PROVE  LogNotAhead'
  <2> SUFFICES ASSUME NEW t \in Specs, NEW i \in 1..Len(log'[t])
               PROVE  log'[t][i].version <= version'[t]
    BY DEF LogNotAhead
  <2>1. CASE t # s
    BY <1>2, <2>1 DEF LogNotAhead, TypeOK
  <2>2. CASE t = s
    <3> DEFINE e == [version |-> v, stage |-> to]
    <3>1. log'[s] = Append(log[s], e) /\ version'[s] = version[s] + 1
      BY <1>2 DEF TypeOK
    <3>2. log[s] \in Seq(Entry) /\ version[s] \in Nat
      BY DEF TypeOK
    <3>3. CASE i \in 1..Len(log[s])
      <4>1. log'[s][i] = log[s][i] /\ log[s][i].version <= version[s]
        BY <3>1, <3>2, <3>3 DEF LogNotAhead
      <4>2. log[s][i].version \in Nat
        <5>1. log[s][i] \in Entry
          BY <3>2, <3>3
        <5> QED BY <5>1 DEF Entry
      <4> QED BY <2>2, <3>1, <3>2, <4>1, <4>2
    <3>4. CASE i \notin 1..Len(log[s])
      <4>1. log'[s][i] = e
        BY <2>2, <3>1, <3>2, <3>4
      <4> QED BY <1>2, <2>2, <3>1, <4>1
    <3> QED BY <3>3, <3>4
  <2> QED BY <2>1, <2>2
<1>3. ASSUME NEW r \in Requests, Commit(r), req[r].pc \in {"seek", "release", "edge"}
      PROVE  LogNotAhead'
  <2>1. CASE UNCHANGED <<stage, version, log, lock>>
    BY <1>1, <2>1
  <2>2. CASE /\ req[r].spec \in Specs
             /\ version' = [version EXCEPT ![req[r].spec] = version[req[r].spec] + 1]
             /\ \E v \in Nat :
                   /\ v <= version[req[r].spec] + 1
                   /\ log' = [log EXCEPT ![req[r].spec] =
                        Append(log[req[r].spec], [version |-> v, stage |-> req[r].to])]
    BY <1>2, <2>2
  <2> QED BY <1>3, <2>1, <2>2, CommitEffect
<1>4. ASSUME NEW s \in Specs, TransitionStage(s) PROVE LogNotAhead'
  <2>1. version[s] + 1 \in Nat /\ version[s] + 1 <= version[s] + 1
    BY DEF TypeOK
  <2>2. PICK to \in SpecStage :
          /\ version' = [version EXCEPT ![s] = version[s] + 1]
          /\ log' = [log EXCEPT ![s] =
                       Append(log[s], [version |-> version[s] + 1, stage |-> to])]
    BY <1>4 DEF TransitionStage
  <2> QED BY <1>2, <2>1, <2>2
<1>5. ASSUME NEW r \in Requests, Arrive(r) \/ Rollback(r) PROVE UNCHANGED <<version, log>>
  BY <1>5 DEF Arrive, ClaimSpec, Heartbeat, UnclaimSpec, LifecycleAmendSpec, Rollback,
              LifecycleAbandonSpec, RecordCompletion, specVars
<1>6. ASSUME NEW r \in Requests, Proceed(r)
      PROVE  \/ UNCHANGED <<version, log>>
             \/ Commit(r) /\ req[r].pc \in {"seek", "release", "edge"}
  BY <1>6 DEF Proceed, ClaimPrune, ClaimCheck, ClaimRefresh, ClaimInsert,
              HeartbeatUpdate, ReleaseClaim, ReleaseEdge, GuardedUpdate, SeekClaim,
              CompletionRead, CompletionUpdate, specVars
<1>7. CASE UNCHANGED vars \/ ReleaseExpiredClaims \/ Tick
  BY <1>1, <1>7 DEF vars, ReleaseExpiredClaims, Tick, specVars
<1> QED BY <1>1, <1>3, <1>4, <1>5, <1>6, <1>7 DEF Next

\* The inductive invariant holds at first, ...
LEMMA InitInv == Init => IInv
<1> SUFFICES ASSUME Init PROVE IInv
  OBVIOUS
<1>1. TypeOK /\ RequestOK
  BY InitType
<1>2. ASSUME NEW r \in Requests PROVE req[r] = Reply("idle")
  BY DEF Init
<1>3. RequestsFormed /\ ClaimsInPast /\ RowsOwned
  <2>1. Formed(Reply("idle")) /\ Reply("idle").op = "none"
    BY DEF Formed, Reply, Replied
  <2> QED BY <1>2, <2>1 DEF RequestsFormed, ClaimsInPast, RowsOwned, OwnedAs, Locking
<1>4. LogNotAhead
  <2> SUFFICES ASSUME NEW s \in Specs, NEW i \in 1..Len(log[s])
               PROVE  log[s][i].version <= version[s]
    BY DEF LogNotAhead
  <2> DEFINE n == stageIndex(stage[s])
  <2>1. n \in 0..5
    BY StageIndexType
  <2>2. log[s] = [k \in 1..n |-> [version |-> k, stage |-> authoringStages[k]]]
    BY DEF Init, InitLog
  <2>3. version[s] = n
    BY DEF Init
  <2>4. Len(log[s]) = n
    <3>1. log[s] \in Seq(Entry) /\ DOMAIN log[s] = 1..n
      BY <1>1, <2>2 DEF TypeOK
    <3>2. n \in Nat
      BY <2>1
    <3> HIDE DEF n
    <3> QED BY <3>1, <3>2
  <2> HIDE DEF n
  <2> QED BY <2>1, <2>2, <2>3, <2>4
<1> QED BY <1>1, <1>3, <1>4 DEF IInv

\* ... and every step keeps it.
LEMMA NextInv == IInv /\ [Next]_vars => IInv'
<1> SUFFICES ASSUME IInv, [Next]_vars PROVE IInv'
  OBVIOUS
<1>1. TypeOK' /\ RequestOK'
  BY NextType DEF IInv
<1>2. RequestsFormed' /\ ClaimsInPast'
  BY NextForm DEF IInv
<1>3. RowsOwned'
  BY <1>1, <1>2, NextOwned DEF IInv
<1>4. LogNotAhead'
  BY <1>1, NextLog DEF IInv
<1> QED BY <1>1, <1>2, <1>3, <1>4 DEF IInv

\* The invariant of all the theorems below.
LEMMA InvHolds == Spec => []IInv
BY InitInv, NextInv, PTL DEF Spec

\* An amend or abandon whose guarded UPDATE matched holds the row until it
\* commits, at the version and stage the guard saw: LifecycleAmendSpec and
\* LifecycleAbandonSpec never apply a decision to a row that moved.
THEOREM GuardedWritesCurrent == Spec => []GuardedWriteCurrent
<1>1. IInv => GuardedWriteCurrent
  BY DEF IInv, GuardedWriteCurrent, RowsOwned, OwnedAs, Locking
<1> QED BY <1>1, InvHolds, PTL

\* The changelog never records a version the spec has not reached, although
\* RecordCompletion numbers its entry from a read before the row was locked.
THEOREM ChangelogBehindRow == Spec => []LogNotAhead
<1>1. IInv => LogNotAhead
  BY DEF IInv
<1> QED BY <1>1, InvHolds, PTL
-----------------------------------------------------------------------------
\* What a step does to the stage of a spec.
Rewinds(s) == stage'[s] # stage[s] /\ stage'[s] \in ReEntryStages
MayRewind(s) ==
    \/ stage[s] \in AmendEligible
    \/ /\ stage[s] \in AuthoringStageSet
       /\ stageIndex(stage'[s]) = stageIndex(stage[s]) + 1

\* Only the commit of an amend and authoring's next stage lead to a stage
\* that an amend may re-enter.
LEMMA RewindStep ==
    ASSUME IInv, [Next]_vars, NEW s \in Specs, Rewinds(s) PROVE MayRewind(s)
<1>1. CASE UNCHANGED stage
  BY <1>1 DEF Rewinds
<1>2. ASSUME NEW r \in Requests, Commit(r), req[r].pc \in {"seek", "release", "edge"}
      PROVE  MayRewind(s)
  <2>1. CASE UNCHANGED <<stage, version, log, lock>>
    BY <1>1, <2>1
  <2>2. CASE /\ req[r].spec \in Specs
             /\ stage' = [stage EXCEPT ![req[r].spec] = req[r].to]
             /\ req[r].to \in ReEntryStages => stage[req[r].spec] \in AmendEligible
    BY <2>2 DEF IInv, TypeOK, Rewinds, MayRewind
  <2> QED BY <1>2, <2>1, <2>2, CommitEffect DEF IInv
<1>3. ASSUME NEW t \in Specs, TransitionStage(t) PROVE MayRewind(s)
  <2>1. PICK to \in SpecStage : /\ ValidateTransition(stage[t], to)
                                /\ stageIndex(to) > stageIndex(stage[t])
                                /\ stage' = [stage EXCEPT ![t] = to]
    BY <1>3 DEF TransitionStage
  <2>2. stageIndex(to) \in 0..5 /\ stageIndex(stage[t]) \in 0..5
    BY StageIndexType
  <2>3. stage[t] \in AuthoringStageSet /\ stageIndex(to) = stageIndex(stage[t]) + 1
    BY <2>1, <2>2 DEF ValidateTransition
  <2>4. s = t /\ stage'[s] = to
    BY <2>1 DEF Rewinds, IInv, TypeOK
  <2> QED BY <2>3, <2>4 DEF MayRewind
<1>4. ASSUME NEW r \in Requests, Arrive(r) \/ Rollback(r) PROVE UNCHANGED stage
  BY <1>4 DEF Arrive, ClaimSpec, Heartbeat, UnclaimSpec, LifecycleAmendSpec, Rollback,
              LifecycleAbandonSpec, RecordCompletion, specVars
<1>5. ASSUME NEW r \in Requests, Proceed(r)
      PROVE  \/ UNCHANGED stage
             \/ Commit(r) /\ req[r].pc \in {"seek", "release", "edge"}
  BY <1>5 DEF Proceed, ClaimPrune, ClaimCheck, ClaimRefresh, ClaimInsert,
              HeartbeatUpdate, ReleaseClaim, ReleaseEdge, GuardedUpdate, SeekClaim,
              CompletionRead, CompletionUpdate, specVars
<1>6. CASE UNCHANGED vars \/ ReleaseExpiredClaims \/ Tick
  BY <1>1, <1>6 DEF vars, ReleaseExpiredClaims, Tick, specVars
<1> QED BY <1>1, <1>2, <1>3, <1>4, <1>5, <1>6 DEF Next

\* No interleaving of amend, completion, abandon and authoring moves a
\* finished, closed or unapproved spec back in the funnel.
THEOREM RewindsAreAmends == Spec => RewindsOnlyAmendable
<1>1. IInv /\ [Next]_vars => \A s \in Specs : Rewinds(s) => MayRewind(s)
  BY RewindStep
<1>2. (\A s \in Specs : Rewinds(s) => MayRewind(s)) =>
        [\A s \in Specs :
           /\ stage'[s] # stage[s]
           /\ stage'[s] \in ReEntryStages
           => \/ stage[s] \in AmendEligible
              \/ /\ stage[s] \in AuthoringStageSet
                 /\ stageIndex(stage'[s]) = stageIndex(stage[s]) + 1]_vars
  BY DEF Rewinds, MayRewind
<1> QED BY <1>1, <1>2, InvHolds, PTL DEF Spec, RewindsOnlyAmendable
-----------------------------------------------------------------------------
(***************************************************************************)
(* The refinement of Lease, under the mapping of ClaimLease.  Every step   *)
(* of a request is Submit, Serve or a stuttering step of the abstract      *)
(* specification; a sweep is Sweep and the clock is Pass.                  *)
(***************************************************************************)

\* What writing one request, or one claim row, does to the mapped state.
LEMMA ServedWrite ==
    ASSUME TypeOK, NEW r \in Requests, NEW q, req' = [req EXCEPT ![r] = q]
    PROVE  served' = [served EXCEPT ![r] = CallOf(q)]
BY DEF served, TypeOK, CallOf

\* The holder and the lease of one spec change with its row.
LEMMA LeaseWrite ==
    ASSUME TypeOK, NEW s \in Specs, NEW c, claims' = [claims EXCEPT ![s] = c]
    PROVE  /\ heldBy' = [heldBy EXCEPT ![s] = c.agent]
           /\ heldUntil' = [heldUntil EXCEPT ![s] = c.expires]
BY DEF heldBy, heldUntil, TypeOK

\* A request is mapped to a call while it runs and to no call once answered.
LEMMA CallWhileRunning ==
    ASSUME TypeOK, RequestOK, RequestsFormed, NEW r \in Requests
    PROVE  /\ served[r] = AbstractLease!NoCall <=> Free(r)
           /\ ~Free(r) => served[r].op = req[r].op /\ served[r].spec = req[r].spec
           /\ req[r].op \notin {"amend", "abandon"} => served[r].agent = req[r].agent
           /\ served[r].end = req[r].exp
           /\ req[r].pc = "refresh" => served[r].found = req[r].agent
<1>1. served[r] = CallOf(req[r])
  BY DEF served
<1>2. Formed(req[r])
  BY DEF RequestsFormed
<1> QED BY <1>1, <1>2 DEF Formed, Free, CallOf, AbstractLease!NoCall, Replied

\* Answering a request answers its call; going on leaves the call alone.
LEMMA FinishAnswers ==
    ASSUME TypeOK, NEW r \in Requests, NEW status \in Replied, Finish(r, status)
    PROVE  served' = [served EXCEPT ![r] = AbstractLease!NoCall]
<1>1. CallOf(Reply(status)) = AbstractLease!NoCall
  BY DEF CallOf, Reply, AbstractLease!NoCall
<1> QED BY <1>1, ServedWrite DEF Finish

\* Going on to another step is no change of the call, but for the step in
\* which a claim finds its agent's row.
LEMMA GotoKeepsCall ==
    ASSUME TypeOK, NEW r \in Requests, NEW pc, Goto(r, pc),
           pc # "refresh", req[r].pc # "refresh"
    PROVE  served' = served
<1> DEFINE q == [req[r] EXCEPT !.pc = pc]
<1>1. req[r] \in Request
  BY DEF TypeOK
<1>2. /\ q.op = req[r].op /\ q.spec = req[r].spec /\ q.agent = req[r].agent
      /\ q.exp = req[r].exp /\ q.pc = pc
  BY <1>1 DEF Request
<1>3. CallOf(q) = CallOf(req[r])
  BY <1>2 DEF CallOf
<1>4. served' = [served EXCEPT ![r] = CallOf(q)]
  BY ServedWrite DEF Goto
<1> QED BY <1>3, <1>4 DEF served

\* Writing a claim row passes the lease to the agent the row names, to end when
\* the row says.
LEMMA RowBecomes ==
    ASSUME TypeOK, NEW s \in Specs, NEW c, claims' = [claims EXCEPT ![s] = c]
    PROVE  AbstractLease!Become(s, c.agent, c.expires)
BY LeaseWrite DEF AbstractLease!Become

\* A step of a running request that has one of the effects its call may have.
LEMMA ServeStep ==
    ASSUME TypeOK, RequestOK, RequestsFormed, NEW r \in Requests, ~Free(r),
           clock' = clock,
           served' = served \/ served' = [served EXCEPT ![r] = AbstractLease!NoCall],
           AbstractLease!Effect(served[r])
    PROVE  AbstractLease!Next
<1>1. served[r] # AbstractLease!NoCall
  BY CallWhileRunning
<1>2. AbstractLease!Serve(r)
  BY <1>1 DEF AbstractLease!Serve, AbstractLease!Answer
<1> QED BY <1>2 DEF AbstractLease!Next

\* A step that touches no claim row serves its call with no effect.
LEMMA PlainServe ==
    ASSUME TypeOK, RequestOK, RequestsFormed, NEW r \in Requests, ~Free(r),
           clock' = clock, claims' = claims,
           served' = served \/ served' = [served EXCEPT ![r] = AbstractLease!NoCall]
    PROVE  AbstractLease!Next
<1>1. heldBy' = heldBy /\ heldUntil' = heldUntil
  BY DEF heldBy, heldUntil
<1>2. AbstractLease!Effect(served[r])
  BY <1>1 DEF AbstractLease!Effect
<1> QED BY <1>2, ServeStep

\* Every step maps to a step of Lease or leaves the mapped state alone.
LEMMA NextRefines ==
    ASSUME IInv, IInv', [Next]_vars
    PROVE  [AbstractLease!Next]_AbstractLease!leaseVars
<1> DEFINE Same == UNCHANGED <<clock, heldBy, heldUntil, served>>
<1> SUFFICES AbstractLease!Next \/ Same
  BY DEF AbstractLease!leaseVars
<1>0. TypeOK /\ RequestOK /\ RequestsFormed
  BY DEF IInv
<1>a. ASSUME NEW r \in Requests, NEW op \in AbstractLease!Ops, NEW s \in Specs,
             NEW a \in Agents \cup {None}, NEW pc, NEW now, NEW exp, NEW ver, NEW to,
             Start(r, op, pc, s, a, now, exp, ver, to),
             op \in {"amend", "abandon"} => a = None, pc # "refresh",
             UNCHANGED <<clock, claims>>
      PROVE  AbstractLease!Next
  <2> DEFINE q == [op |-> op, pc |-> pc, spec |-> s, agent |-> a,
                   now |-> now, exp |-> exp, ver |-> ver, to |-> to]
  <2>1. served' = [served EXCEPT ![r] = CallOf(q)]
    BY <1>0, <1>a, ServedWrite DEF Start
  <2>2. CallOf(q) = [op |-> op, spec |-> s, agent |-> a,
                     end |-> exp, found |-> None]
    BY <1>a DEF CallOf
  <2>6. served'[r].end = exp
    BY <2>1, <2>2 DEF served
  <2>3. served[r] = AbstractLease!NoCall
    BY <1>0, <1>a, CallWhileRunning DEF Start
  <2>4. heldBy' = heldBy /\ heldUntil' = heldUntil
    BY <1>a DEF heldBy, heldUntil
  <2>5. AbstractLease!Submit(r)
    BY <1>a, <2>1, <2>2, <2>3, <2>4, <2>6 DEF AbstractLease!Submit
  <2> QED BY <2>5 DEF AbstractLease!Next
<1>b. ASSUME NEW r \in Requests, Free(r), Finish(r, "err"), UNCHANGED <<clock, claims>>
      PROVE  Same
  <2>1. served' = [served EXCEPT ![r] = AbstractLease!NoCall]
    BY <1>0, <1>b, FinishAnswers DEF Replied
  <2>2. served[r] = AbstractLease!NoCall
    BY <1>0, <1>b, CallWhileRunning
  <2>3. served' = served
    BY <2>1, <2>2 DEF served
  <2> QED BY <1>b, <2>3 DEF heldBy, heldUntil
<1>1. ASSUME NEW r \in Requests, Arrive(r) PROVE AbstractLease!Next \/ Same
  <2>1. UNCHANGED <<clock, claims>>
    BY <1>1 DEF Arrive, ClaimSpec, Heartbeat, UnclaimSpec, LifecycleAmendSpec,
                LifecycleAbandonSpec, RecordCompletion
  <2>2. \/ Free(r) /\ Finish(r, "err")
        \/ \E op \in AbstractLease!Ops, s \in Specs, a \in Agents \cup {None} :
           \E pc, now, exp, ver, to :
             /\ Start(r, op, pc, s, a, now, exp, ver, to)
             /\ op \in {"amend", "abandon"} => a = None
             /\ pc # "refresh"
    <3>1. CASE ClaimSpec(r) \/ Heartbeat(r)
      BY <3>1 DEF ClaimSpec, Heartbeat, AbstractLease!Ops
    <3>2. CASE UnclaimSpec(r) \/ RecordCompletion(r)
      BY <3>2 DEF UnclaimSpec, RecordCompletion, AbstractLease!Ops
    <3>3. CASE LifecycleAmendSpec(r) \/ LifecycleAbandonSpec(r)
      BY <3>3 DEF LifecycleAmendSpec, LifecycleAbandonSpec, AbstractLease!Ops
    <3> QED BY <1>1, <3>1, <3>2, <3>3 DEF Arrive
  <2> QED BY <1>a, <1>b, <2>1, <2>2
<1>c. ASSUME NEW r \in Requests, ~Free(r), UNCHANGED <<clock, claims>>,
             \/ Finish(r, "ok") \/ Finish(r, "err")
             \/ \E pc : Goto(r, pc) /\ pc # "refresh" /\ req[r].pc # "refresh"
      PROVE  AbstractLease!Next
  <2>1. served' = served \/ served' = [served EXCEPT ![r] = AbstractLease!NoCall]
    BY <1>0, <1>c, FinishAnswers, GotoKeepsCall DEF Replied
  <2> QED BY <1>0, <1>c, <2>1, PlainServe
<1>d. ASSUME NEW r \in Requests, ~Free(r), clock' = clock, Finish(r, "ok"),
             AbstractLease!Effect(served[r])
      PROVE  AbstractLease!Next
  BY <1>0, <1>d, FinishAnswers, ServeStep DEF Replied
<1>e. ASSUME NEW r \in Requests, req[r].pc \notin Replied
      PROVE  /\ ~Free(r) /\ req[r].spec \in Specs /\ claims[req[r].spec] \in Claim
             /\ heldBy[req[r].spec] = claims[req[r].spec].agent
             /\ heldUntil[req[r].spec] = claims[req[r].spec].expires
             /\ served[r].op = req[r].op /\ served[r].spec = req[r].spec
             /\ req[r].op \notin {"amend", "abandon"} => served[r].agent = req[r].agent
             /\ served[r].end = req[r].exp
             /\ req[r].pc = "refresh" => served[r].found = req[r].agent
  BY <1>0, <1>e, CallWhileRunning DEF Free, RequestOK, TypeOK, heldBy, heldUntil
<1>2. ASSUME NEW r \in Requests, ClaimPrune(r) PROVE AbstractLease!Next
  <2> DEFINE s == req[r].spec
             c == [agent |-> req[r].agent, expires |-> req[r].exp]
  <2>1. req[r].op = "claim" /\ req[r].pc = "prune" /\ req[r].pc \notin Replied /\ clock' = clock
    BY <1>2 DEF ClaimPrune, At, Replied
  <2>2. CASE claims' = claims /\ Goto(r, "check")
    BY <1>c, <1>e, <2>1, <2>2
  <2>3. CASE /\ claims[s].expires < req[r].now
             /\ claims' = [claims EXCEPT ![s] = c]
             /\ Finish(r, "ok")
    <3>1. AbstractLease!Become(s, req[r].agent, req[r].exp)
      <4>1. c.agent = req[r].agent /\ c.expires = req[r].exp
        OBVIOUS
      <4> HIDE DEF c
      <4>2. AbstractLease!Become(s, c.agent, c.expires)
        BY <1>0, <1>e, <2>1, <2>3, RowBecomes
      <4> QED BY <4>1, <4>2
    <3>2. ~AbstractLease!Live(s)
      <4>1. req[r].now <= clock /\ req[r].now \in Int /\ clock \in Int
        BY <2>1 DEF IInv, ClaimsInPast, TypeOK, Request
      <4>2. claims[s].expires \in Int
        BY <1>e, <2>1 DEF Claim
      <4> QED BY <1>e, <2>1, <2>3, <4>1, <4>2 DEF AbstractLease!Live
    <3>3. AbstractLease!Effect(served[r])
      BY <1>e, <2>1, <3>1, <3>2 DEF AbstractLease!Effect, AbstractLease!Take
    <3> QED BY <1>d, <1>e, <2>1, <2>3, <3>3
  <2> QED BY <1>2, <2>2, <2>3 DEF ClaimPrune
<1>3. ASSUME NEW r \in Requests, ClaimCheck(r) PROVE AbstractLease!Next
  <2>1. /\ req[r].pc = "check" /\ req[r].op = "claim" /\ UNCHANGED <<clock, claims>>
        /\ req[r].pc \notin Replied
    BY <1>3 DEF ClaimCheck, At, Replied
  <2>2. CASE Finish(r, "err") \/ Goto(r, "insert")
    BY <1>c, <1>e, <2>1, <2>2
  <2>3. CASE claims[req[r].spec].agent = req[r].agent /\ Goto(r, "refresh")
    <3> DEFINE q == [req[r] EXCEPT !.pc = "refresh"]
    <3>1. req[r] \in Request
      BY <1>0 DEF TypeOK
    <3>2. /\ q.op = "claim" /\ q.spec = req[r].spec /\ q.agent = req[r].agent
          /\ q.exp = req[r].exp /\ q.pc = "refresh"
      BY <2>1, <3>1 DEF Request
    <3>3. CallOf(q) = [CallOf(req[r]) EXCEPT !.found = req[r].agent]
      BY <2>1, <3>2 DEF CallOf
    <3>4. served' = [served EXCEPT ![r] = CallOf(q)]
      BY <1>0, <2>3, ServedWrite DEF Goto
    <3> HIDE DEF q
    <3>5. served' = [served EXCEPT ![r].found = served[r].agent]
      BY <1>e, <2>1, <3>3, <3>4 DEF served
    <3>6. AbstractLease!Find(r)
      BY <1>e, <2>1, <2>3, <3>5 DEF AbstractLease!Find, heldBy, heldUntil
    <3> QED BY <3>6 DEF AbstractLease!Next
  <2> QED BY <1>3, <2>2, <2>3 DEF ClaimCheck
<1>4. ASSUME NEW r \in Requests, ClaimRefresh(r) \/ HeartbeatUpdate(r)
      PROVE  AbstractLease!Next
  <2> DEFINE s == req[r].spec
             c == [claims[s] EXCEPT !.expires = req[r].exp]
  <2>1. /\ req[r].pc \notin Replied /\ clock' = clock
        /\ \/ req[r].op = "claim" /\ req[r].pc = "refresh" /\ (claims' # claims => Held(s))
           \/ req[r].op = "heartbeat" /\ (claims' # claims => claims[s].agent = req[r].agent)
    BY <1>4 DEF ClaimRefresh, HeartbeatUpdate, At, Replied
  <2>2. CASE claims' = claims
    <3>1. Finish(r, "ok") \/ Finish(r, "err")
      BY <1>4 DEF ClaimRefresh, HeartbeatUpdate
    <3> QED BY <1>c, <1>e, <2>1, <2>2, <3>1
  <2>3. CASE claims' # claims /\ claims' = [claims EXCEPT ![s] = c] /\ Finish(r, "ok")
    <3>1. c.agent = claims[s].agent /\ c.expires = req[r].exp
      BY <1>e, <2>1 DEF Claim
    <3> HIDE DEF c
    <3>2. AbstractLease!Become(s, claims[s].agent, req[r].exp)
      BY <1>0, <1>e, <2>1, <2>3, <3>1, RowBecomes
    <3>3. AbstractLease!Effect(served[r])
      BY <1>0, <1>e, <2>1, <2>3, <3>2, NoneAssumption
      DEF AbstractLease!Effect, AbstractLease!Renew, Held, RequestOK
    <3> QED BY <1>d, <1>e, <2>1, <2>3, <3>3
  <2>4. claims' = claims \/ (claims' = [claims EXCEPT ![s] = c] /\ Finish(r, "ok"))
    BY <1>4 DEF ClaimRefresh, HeartbeatUpdate
  <2> QED BY <2>2, <2>3, <2>4
<1>5. ASSUME NEW r \in Requests, ClaimInsert(r) PROVE AbstractLease!Next
  <2> DEFINE s == req[r].spec
             c == [agent |-> req[r].agent, expires |-> req[r].exp]
  <2>1. req[r].op = "claim" /\ req[r].pc \notin Replied /\ clock' = clock
    BY <1>5 DEF ClaimInsert, At, Replied
  <2>2. CASE Held(s)
    BY <1>5, <1>c, <1>e, <2>1, <2>2 DEF ClaimInsert
  <2>3. CASE ~Held(s)
    <3>1. claims' = [claims EXCEPT ![s] = c] /\ Finish(r, "ok")
      BY <1>5, <2>3 DEF ClaimInsert
    <3>2. AbstractLease!Become(s, req[r].agent, req[r].exp)
      <4>1. c.agent = req[r].agent /\ c.expires = req[r].exp
        OBVIOUS
      <4> HIDE DEF c
      <4>2. AbstractLease!Become(s, c.agent, c.expires)
        BY <1>0, <1>e, <2>1, <3>1, RowBecomes
      <4> QED BY <4>1, <4>2
    <3>3. ~AbstractLease!Live(s)
      BY <1>e, <2>1, <2>3 DEF AbstractLease!Live, Held
    <3>4. AbstractLease!Effect(served[r])
      BY <1>e, <2>1, <3>2, <3>3 DEF AbstractLease!Effect, AbstractLease!Take
    <3> QED BY <1>d, <1>e, <2>1, <3>1, <3>4
  <2> QED BY <2>2, <2>3
<1>6. ASSUME NEW r \in Requests, ReleaseClaim(r) PROVE AbstractLease!Next
  <2> DEFINE s == req[r].spec
  <2>1. /\ req[r].pc \notin Replied /\ clock' = clock /\ req[r].pc # "refresh"
        /\ req[r].op \in {"unclaim", "amend", "abandon", "complete"}
    BY <1>0, <1>6 DEF ReleaseClaim, Replied, RequestsFormed, Formed
  <2>2. CASE claims' = claims /\ Goto(r, "edge")
    BY <1>c, <1>e, <2>1, <2>2
  <2>3. CASE /\ claims[s].agent = req[r].agent
             /\ claims' = [claims EXCEPT ![s] = NoClaim]
             /\ Commit(r)
    <3>1. AbstractLease!Become(s, None, 0)
      <4>1. NoClaim.agent = None /\ NoClaim.expires = 0
        BY DEF NoClaim
      <4>2. AbstractLease!Become(s, NoClaim.agent, NoClaim.expires)
        BY <1>0, <1>e, <2>1, <2>3, RowBecomes
      <4> QED BY <4>1, <4>2
    <3>2. AbstractLease!Effect(served[r])
      BY <1>e, <2>1, <2>3, <3>1 DEF AbstractLease!Effect, AbstractLease!Give
    <3> QED BY <1>d, <1>e, <2>1, <2>3, <3>2 DEF Commit
  <2> QED BY <1>6, <2>2, <2>3 DEF ReleaseClaim
<1>7. ASSUME NEW r \in Requests, ReleaseEdge(r) PROVE AbstractLease!Next
  <2>1. req[r].pc \notin Replied /\ UNCHANGED <<clock, claims>> /\ Finish(r, "ok")
    BY <1>7 DEF ReleaseEdge, Replied, Commit
  <2> QED BY <1>c, <1>e, <2>1
<1>8. ASSUME NEW r \in Requests, GuardedUpdate(r) \/ CompletionUpdate(r)
      PROVE  AbstractLease!Next
  <2>1. req[r].pc \notin Replied /\ UNCHANGED <<clock, claims>>
    BY <1>8 DEF GuardedUpdate, CompletionUpdate, At, Replied
  <2>2. \/ Finish(r, "err")
        \/ \E pc : Goto(r, pc) /\ pc # "refresh" /\ req[r].pc # "refresh"
    BY <1>8 DEF GuardedUpdate, CompletionUpdate, At
  <2> QED BY <1>c, <1>e, <2>1, <2>2
<1>9. ASSUME NEW r \in Requests, SeekClaim(r) PROVE AbstractLease!Next
  <2> DEFINE q == [req[r] EXCEPT !.pc = "release", !.agent = claims[req[r].spec].agent]
  <2>1. /\ req[r].pc \notin Replied /\ UNCHANGED <<clock, claims>>
        /\ req[r].op \in {"amend", "abandon"} /\ req[r].pc = "seek"
    BY <1>0, <1>9 DEF SeekClaim, Replied, RequestsFormed, Formed
  <2>2. CASE Commit(r)
    BY <1>c, <1>e, <2>1, <2>2 DEF Commit
  <2>3. CASE req' = [req EXCEPT ![r] = q]
    <3>1. req[r] \in Request
      BY <1>0 DEF TypeOK
    <3>2. /\ q.op = req[r].op /\ q.spec = req[r].spec
          /\ q.exp = req[r].exp /\ q.pc = "release"
      BY <3>1 DEF Request
    <3>3. CallOf(q) = CallOf(req[r])
      BY <2>1, <3>2 DEF CallOf
    <3> HIDE DEF q
    <3>4. served' = served
      BY <1>0, <2>3, <3>3, ServedWrite DEF served
    <3> QED BY <1>0, <1>e, <2>1, <3>4, PlainServe
  <2> QED BY <1>9, <2>2, <2>3 DEF SeekClaim
<1>10. ASSUME NEW r \in Requests, CompletionRead(r) PROVE AbstractLease!Next
  <2> DEFINE q == [req[r] EXCEPT !.pc = "update", !.ver = version[req[r].spec]]
  <2>1. /\ req[r].pc \notin Replied /\ UNCHANGED <<clock, claims>>
        /\ req' = [req EXCEPT ![r] = q] /\ req[r].pc = "read"
    BY <1>10 DEF CompletionRead, At, Replied
  <2>2. req[r] \in Request
    BY <1>0 DEF TypeOK
  <2>3. /\ q.op = req[r].op /\ q.spec = req[r].spec /\ q.agent = req[r].agent
        /\ q.exp = req[r].exp /\ q.pc = "update"
    BY <2>2 DEF Request
  <2>4. CallOf(q) = CallOf(req[r])
    BY <2>1, <2>3 DEF CallOf
  <2> HIDE DEF q
  <2>5. served' = served
    BY <1>0, <2>1, <2>4, ServedWrite DEF served
  <2> QED BY <1>0, <1>e, <2>1, <2>5, PlainServe
<1>11. ASSUME NEW r \in Requests, Rollback(r) PROVE AbstractLease!Next
  BY <1>11, <1>c DEF Rollback
<1>12. CASE ReleaseExpiredClaims
  <2> DEFINE gone == {s \in Swept : Expired(s)}
  <2>1. UNCHANGED <<clock, req>>
        /\ claims' = [s \in Specs |-> IF s \in gone THEN NoClaim ELSE claims[s]]
    BY <1>12 DEF ReleaseExpiredClaims
  <2>2. gone \in SUBSET {s \in Specs : ~AbstractLease!Live(s)}
    <3> SUFFICES ASSUME NEW s \in gone PROVE s \in Specs /\ ~AbstractLease!Live(s)
      OBVIOUS
    <3>1. s \in Specs /\ claims[s].expires < clock
      BY SweptAssumption DEF Expired
    <3>2. claims[s].expires \in Int /\ clock \in Int
      BY <1>0, <3>1 DEF TypeOK, Claim
    <3> QED BY <3>1, <3>2 DEF AbstractLease!Live, heldUntil
  <2> HIDE DEF gone
  <2>3. /\ heldBy' = [s \in Specs |-> IF s \in gone THEN None ELSE heldBy[s]]
        /\ heldUntil' = [s \in Specs |-> IF s \in gone THEN 0 ELSE heldUntil[s]]
    BY <2>1 DEF heldBy, heldUntil, NoClaim
  <2>4. served' = served
    BY <2>1 DEF served
  <2>5. AbstractLease!Sweep
    BY <2>1, <2>2, <2>3, <2>4 DEF AbstractLease!Sweep
  <2> QED BY <2>5 DEF AbstractLease!Next
<1>13. CASE Tick
  <2>1. clock' > clock /\ heldBy' = heldBy /\ heldUntil' = heldUntil /\ served' = served
    BY <1>0, <1>13 DEF Tick, TypeOK, heldBy, heldUntil, served
  <2> QED BY <2>1 DEF AbstractLease!Next, AbstractLease!Pass
<1>14. CASE UNCHANGED vars \/ \E s \in Specs : TransitionStage(s)
  <2>1. UNCHANGED <<clock, claims, req>>
    BY <1>14 DEF vars, TransitionStage
  <2> QED BY <2>1 DEF heldBy, heldUntil, served
<1> QED
  BY <1>1, <1>2, <1>3, <1>4, <1>5, <1>6, <1>7, <1>8, <1>9, <1>10, <1>11, <1>12,
     <1>13, <1>14
  DEF Next, Proceed

\* The statements of ClaimSpec, UnclaimSpec, Heartbeat, RecordCompletion,
\* amend, abandon and the sweeper implement module Lease: no stale clock, slow
\* request or sweep takes the spec of a live lease from its holder, and a lease
\* end is only moved to a time that a heartbeat of the holder asked for, or a
\* claim whose agent held the spec while the claim was under way.  That agent
\* may have lost the spec since: ClaimSpec's late refresh then moves the end of
\* another agent's live lease, which Lease allows and StaleRenewal shows.
THEOREM LeasesImplemented == Spec => ImplementsLease
<1>1. Init => AbstractLease!Init
  BY DEF Init, AbstractLease!Init, heldBy, heldUntil, served, CallOf, NoClaim,
         Reply, AbstractLease!NoCall
<1>2. IInv /\ IInv' /\ [Next]_vars => [AbstractLease!Next]_AbstractLease!leaseVars
  BY NextRefines
<1> QED BY <1>1, <1>2, InvHolds, PTL DEF Spec, ImplementsLease, AbstractLease!Spec
=============================================================================
