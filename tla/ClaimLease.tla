----------------------------- MODULE ClaimLease -----------------------------
(***************************************************************************)
(* Claims on specs and the operations that end them, as concurrent         *)
(* requests against the store: internal/storage/postgres/claim.go,         *)
(* execution.go and lifecycle.go.                                          *)
(*                                                                         *)
(* Every request is one READ COMMITTED transaction.  Its unlocked reads    *)
(* are steps of their own; from its first write to a row until its commit  *)
(* that row is locked, so the writes to a claim row and its CLAIMED_BY     *)
(* edge are one step, taken at the commit.  A spec row stays locked while  *)
(* its transaction still reads claims: that lock is the variable lock.     *)
(***************************************************************************)
EXTENDS Stages, FiniteSets

CONSTANTS
    Specs,         \* specs created by authoring (only those can be claimed)
    Swept,         \* the ones in the project the sweeper's store is scoped to
    Agents,
    Requests,      \* request handlers that may run at the same time
    None,          \* no agent, no spec, no request
    InitStages,    \* authoring stages the specs may start from
    Durations,     \* lease durations a client asks for (0: none given)
    DefaultLease,  \* claim.go's defaultLeaseDuration
    MaxTime,       \* bound on the clock
    MaxVersion     \* bound on a spec's version

ASSUME NoneAssumption == None \notin Specs \cup Agents \cup Requests
ASSUME SweptAssumption == Swept \subseteq Specs
ASSUME InitStagesAssumption == InitStages \subseteq AuthoringStageSet
ASSUME TimeAssumption == /\ Durations \subseteq Int
                         /\ DefaultLease \in Nat \ {0}
                         /\ MaxTime \in Nat
ASSUME VersionAssumption == MaxVersion \in Nat

VARIABLES
    clock,     \* what s.now() returns
    stage,     \* specs.stage
    version,   \* specs.version
    log,       \* checkpoint entries of changelog_entries, oldest first
    claims,    \* the row of claims for a spec, or NoClaim
    edges,     \* agents that a CLAIMED_BY edge of the spec points to
    lock,      \* the request that holds the spec's row lock
    req        \* what each request handler is doing

vars == <<clock, stage, version, log, claims, edges, lock, req>>
specVars == <<stage, version, log, lock>>

Claim == [agent : Agents \cup {None}, expires : Int]
NoClaim == [agent |-> None, expires |-> 0]
Entry == [version : Nat, stage : SpecStage]

Ops == {"none", "claim", "unclaim", "heartbeat", "amend", "abandon", "complete"}

\* "ok" and "err" are the reply of the request that ran last in the slot.
Replied == {"idle", "ok", "err"}
Steps == Replied \cup {"prune", "check", "refresh", "insert", "beat", "guard",
                       "seek", "read", "update", "release", "edge"}

Request ==
    [op : Ops, pc : Steps, spec : Specs \cup {None},
     agent : Agents \cup {None}, now : Int, exp : Int, ver : Nat,
     to : SpecStage]

Reply(status) ==
    [op |-> "none", pc |-> status, spec |-> None, agent |-> None,
     now |-> 0, exp |-> 0, ver |-> 0, to |-> "spark"]

TypeOK ==
    /\ clock \in Nat
    /\ stage \in [Specs -> SpecStage]
    /\ version \in [Specs -> Nat]
    /\ log \in [Specs -> Seq(Entry)]
    /\ claims \in [Specs -> Claim]
    /\ edges \in [Specs -> SUBSET Agents]
    /\ lock \in [Specs -> Requests \cup {None}]
    /\ req \in [Requests -> Request]
-----------------------------------------------------------------------------
Held(s) == claims[s].agent # None

LeaseOf(d) == IF d = 0 THEN DefaultLease ELSE d

\* An authored spec that went up the funnel to st gained a version a stage.
InitLog(st) ==
    [i \in 1..stageIndex(st) |-> [version |-> i, stage |-> authoringStages[i]]]

Init ==
    /\ clock = 0
    /\ stage \in [Specs -> InitStages]
    /\ version = [s \in Specs |-> stageIndex(stage[s])]
    /\ log = [s \in Specs |-> InitLog(stage[s])]
    /\ claims = [s \in Specs |-> NoClaim]
    /\ edges = [s \in Specs |-> {}]
    /\ lock = [s \in Specs |-> None]
    /\ req = [r \in Requests |-> Reply("idle")]

Free(r) == req[r].pc \in Replied
At(r, op, pc) == req[r].op = op /\ req[r].pc = pc

Start(r, op, pc, s, a, now, exp, ver, to) ==
    /\ Free(r)
    /\ req' = [req EXCEPT ![r] =
                 [op |-> op, pc |-> pc, spec |-> s, agent |-> a,
                  now |-> now, exp |-> exp, ver |-> ver, to |-> to]]
Goto(r, pc) == req' = [req EXCEPT ![r].pc = pc]
Finish(r, status) == req' = [req EXCEPT ![r] = Reply(status)]

\* Requests that may still add a version to s, counted against the bound.
Bumping(s) ==
    {r \in Requests : /\ req[r].spec = s
                      /\ req[r].op \in {"amend", "abandon", "complete"}}
RoomToBump(s) == version[s] + Cardinality(Bumping(s)) < MaxVersion
-----------------------------------------------------------------------------
(***************************************************************************)
(* ClaimSpec.  The time is read before the transaction begins, so a slow   *)
(* request decides with a stale clock.                                     *)
(***************************************************************************)
ClaimSpec(r) ==
    /\ \E s \in Specs, a \in Agents, d \in Durations :
         Start(r, "claim", "prune", s, a, clock, clock + LeaseOf(d), 0, "spark")
    /\ UNCHANGED <<clock, specVars, claims, edges>>

\* Mutant: a lease that expires this very instant is pruned.
ClaimPruneEager(r) ==
    LET s == req[r].spec  a == req[r].agent IN
    /\ At(r, "claim", "prune")
    /\ \/ /\ Held(s)
          /\ claims[s].expires <= req[r].now
          /\ claims' = [claims EXCEPT ![s] = [agent |-> a, expires |-> req[r].exp]]
          /\ edges' = [edges EXCEPT ![s] = {a}]
          /\ Finish(r, "ok")
       \/ /\ ~(Held(s) /\ claims[s].expires <= req[r].now)
          /\ edges' = [edges EXCEPT ![s] = @ \cap {claims[s].agent}]
          /\ Goto(r, "check")
          /\ UNCHANGED claims
    /\ UNCHANGED <<clock, specVars>>

\* DELETE the expired row and the edges it leaves behind.  When the row was
\* there it is now locked by this transaction: nothing can come between this
\* and the INSERT of the new row, its edge and the commit.
ClaimPrune(r) ==
    LET s == req[r].spec  a == req[r].agent IN
    /\ At(r, "claim", "prune")
    /\ \/ /\ Held(s)
          /\ claims[s].expires < req[r].now
          /\ claims' = [claims EXCEPT ![s] = [agent |-> a, expires |-> req[r].exp]]
          /\ edges' = [edges EXCEPT ![s] = {a}]
          /\ Finish(r, "ok")
       \/ /\ ~(Held(s) /\ claims[s].expires < req[r].now)
          /\ edges' = [edges EXCEPT ![s] = @ \cap {claims[s].agent}]
          /\ Goto(r, "check")
          /\ UNCHANGED claims
    /\ UNCHANGED <<clock, specVars>>

\* SELECT the active claim.
ClaimCheck(r) ==
    LET s == req[r].spec IN
    /\ At(r, "claim", "check")
    /\ \/ ~Held(s) /\ Goto(r, "insert")
       \/ claims[s].agent = req[r].agent /\ Goto(r, "refresh")
       \/ Held(s) /\ claims[s].agent # req[r].agent /\ Finish(r, "err")
    /\ UNCHANGED <<clock, specVars, claims, edges>>

\* UPDATE ... SET lease_expires: the row is chosen by spec alone.
ClaimRefresh(r) ==
    LET s == req[r].spec IN
    /\ At(r, "claim", "refresh")
    /\ \/ /\ Held(s)
          /\ claims' = [claims EXCEPT ![s].expires = req[r].exp]
          /\ Finish(r, "ok")
       \/ /\ ~Held(s)
          /\ Finish(r, "err")
          /\ UNCHANGED claims
    /\ UNCHANGED <<clock, specVars, edges>>

\* INSERT the claim (the primary key refuses a second row), then its edge.
ClaimInsert(r) ==
    LET s == req[r].spec  a == req[r].agent IN
    /\ At(r, "claim", "insert")
    /\ \/ /\ ~Held(s)
          /\ claims' = [claims EXCEPT ![s] = [agent |-> a, expires |-> req[r].exp]]
          /\ edges' = [edges EXCEPT ![s] = @ \cup {a}]
          /\ Finish(r, "ok")
       \/ /\ Held(s)
          /\ Finish(r, "err")
          /\ UNCHANGED <<claims, edges>>
    /\ UNCHANGED <<clock, specVars>>
-----------------------------------------------------------------------------
(***************************************************************************)
(* Heartbeat is one guarded UPDATE, with a time read before it.            *)
(***************************************************************************)
Heartbeat(r) ==
    /\ \E s \in Specs, a \in Agents, d \in Durations :
         Start(r, "heartbeat", "beat", s, a, clock, clock + LeaseOf(d), 0, "spark")
    /\ UNCHANGED <<clock, specVars, claims, edges>>

HeartbeatUpdate(r) ==
    LET s == req[r].spec
        mine == claims[s].agent = req[r].agent /\ claims[s].expires >= req[r].now
    IN
    /\ At(r, "heartbeat", "beat")
    /\ \/ /\ mine
          /\ claims' = [claims EXCEPT ![s].expires = req[r].exp]
          /\ Finish(r, "ok")
       \/ /\ ~mine
          /\ Finish(r, "err")
          /\ UNCHANGED claims
    /\ UNCHANGED <<clock, specVars, edges>>
-----------------------------------------------------------------------------
(***************************************************************************)
(* UnclaimSpec: SELECT the owner, then the two DELETEs of ReleaseClaim.    *)
(***************************************************************************)
UnclaimSpec(r) ==
    /\ Free(r)
    /\ \E s \in Specs, a \in Agents :
         \/ /\ claims[s].agent = a
            /\ Start(r, "unclaim", "release", s, a, 0, 0, 0, "spark")
         \/ claims[s].agent # a /\ Finish(r, "err")
    /\ UNCHANGED <<clock, specVars, claims, edges>>

\* Mutant: a transaction that is left open keeps its row locked.
CommitLeaksLock(r) ==
    LET s == req[r].spec IN
    /\ Finish(r, "ok")
    /\ \/ req[r].op = "unclaim" /\ UNCHANGED specVars
       \/ /\ req[r].op # "unclaim"
          /\ stage' = [stage EXCEPT ![s] = req[r].to]
          /\ version' = [version EXCEPT ![s] = @ + 1]
          /\ log' = [log EXCEPT ![s] =
                       Append(@, [version |-> version[s] + 1, stage |-> req[r].to])]
          /\ UNCHANGED lock

\* A transaction that also holds its spec's row writes it when it commits.
\* RecordCompletion's entry carries the version it read, not the row's.
Commit(r) ==
    LET s == req[r].spec
        v == IF req[r].op = "complete" THEN req[r].ver + 1 ELSE version[s] + 1
    IN
    /\ Finish(r, "ok")
    /\ \/ req[r].op = "unclaim" /\ UNCHANGED specVars
       \/ /\ req[r].op # "unclaim"
          /\ stage' = [stage EXCEPT ![s] = req[r].to]
          /\ version' = [version EXCEPT ![s] = @ + 1]
          /\ log' = [log EXCEPT ![s] =
                       Append(@, [version |-> v, stage |-> req[r].to])]
          /\ lock' = [lock EXCEPT ![s] = None]

\* DELETE the claim row of this agent.  A row deleted here is locked to the
\* commit; when there is none, the edge is deleted by a later statement.
ReleaseClaim(r) ==
    LET s == req[r].spec  a == req[r].agent IN
    /\ req[r].pc = "release"
    /\ \/ /\ claims[s].agent = a
          /\ claims' = [claims EXCEPT ![s] = NoClaim]
          /\ edges' = [edges EXCEPT ![s] = @ \ {a}]
          /\ Commit(r)
       \/ /\ claims[s].agent # a
          /\ Goto(r, "edge")
          /\ UNCHANGED <<specVars, claims, edges>>
    /\ UNCHANGED clock

ReleaseEdge(r) ==
    LET s == req[r].spec IN
    /\ req[r].pc = "edge"
    /\ edges' = [edges EXCEPT ![s] = @ \ {req[r].agent}]
    /\ Commit(r)
    /\ UNCHANGED <<clock, claims>>
-----------------------------------------------------------------------------
(***************************************************************************)
(* LifecycleAmendSpec and LifecycleAbandonSpec: pre-read the spec, UPDATE  *)
(* it guarded by version and stage, then release the claim that is active. *)
(***************************************************************************)
LifecycleAmendSpec(r) ==
    /\ \E s \in Specs, reEntry \in ReEntryStages :
         /\ RoomToBump(s)
         /\ Start(r, "amend", "guard", s, None, 0, 0, version[s],
                  PrecedingAuthStage(reEntry))
    /\ UNCHANGED <<clock, specVars, claims, edges>>

LifecycleAbandonSpec(r) ==
    /\ Free(r)
    /\ \E s \in Specs :
         /\ RoomToBump(s)
         /\ \/ /\ stage[s] \in FullyTerminalStages
               /\ Finish(r, "err")
            \/ /\ stage[s] \notin FullyTerminalStages
               /\ Start(r, "abandon", "guard", s, None, 0, 0, version[s], "abandoned")
    /\ UNCHANGED <<clock, specVars, claims, edges>>

\* Mutants: the UPDATE is guarded by the stage alone, or by the version alone.
GuardHoldsStageOnly(r) ==
    LET s == req[r].spec IN
    /\ req[r].op = "amend" => stage[s] \in AmendEligible
    /\ req[r].op = "abandon" => stage[s] \notin FullyTerminalStages
GuardHoldsVersionOnly(r) == version[req[r].spec] = req[r].ver

\* The WHERE clause of the guarded UPDATE.
GuardHolds(r) ==
    LET s == req[r].spec IN
    /\ version[s] = req[r].ver
    /\ req[r].op = "amend" => stage[s] \in AmendEligible
    /\ req[r].op = "abandon" => stage[s] \notin FullyTerminalStages

GuardedUpdate(r) ==
    LET s == req[r].spec IN
    /\ req[r].pc = "guard"
    /\ lock[s] = None
    /\ \/ /\ GuardHolds(r)
          /\ lock' = [lock EXCEPT ![s] = r]
          /\ Goto(r, "seek")
       \/ /\ ~GuardHolds(r)
          /\ Finish(r, "err")
          /\ UNCHANGED lock
    /\ UNCHANGED <<clock, stage, version, log, claims, edges>>

\* releaseActiveClaim's read: an expired claim is left for the sweeper.
SeekClaim(r) ==
    LET s == req[r].spec
        active == Held(s) /\ claims[s].expires >= clock
    IN
    /\ req[r].pc = "seek"
    /\ \/ /\ active
          /\ req' = [req EXCEPT ![r] =
                       [@ EXCEPT !.pc = "release", !.agent = claims[s].agent]]
          /\ UNCHANGED specVars
       \/ ~active /\ Commit(r)
    /\ UNCHANGED <<clock, claims, edges>>
-----------------------------------------------------------------------------
(***************************************************************************)
(* RecordCompletion: assert the claim, read the spec, UPDATE it without a  *)
(* guard, delete the claim and the edge.                                   *)
(***************************************************************************)
RecordCompletion(r) ==
    /\ Free(r)
    /\ \E s \in Specs, a \in Agents :
         LET active == claims[s].agent = a /\ claims[s].expires >= clock IN
         /\ RoomToBump(s)
         /\ \/ active /\ Start(r, "complete", "read", s, a, 0, 0, 0, "done")
            \/ ~active /\ Finish(r, "err")
    /\ UNCHANGED <<clock, specVars, claims, edges>>

\* Mutant: the version read is already the new one, and 1 is added again.
CompletionReadTwice(r) ==
    /\ At(r, "complete", "read")
    /\ req' = [req EXCEPT ![r] =
                 [@ EXCEPT !.pc = "update", !.ver = version[req[r].spec] + 1]]
    /\ UNCHANGED <<clock, specVars, claims, edges>>

\* The stage and version that the changelog entry will be made from.
CompletionRead(r) ==
    /\ At(r, "complete", "read")
    /\ req' = [req EXCEPT ![r] =
                 [@ EXCEPT !.pc = "update", !.ver = version[req[r].spec]]]
    /\ UNCHANGED <<clock, specVars, claims, edges>>

CompletionUpdate(r) ==
    LET s == req[r].spec IN
    /\ At(r, "complete", "update")
    /\ lock[s] = None
    /\ lock' = [lock EXCEPT ![s] = r]
    /\ Goto(r, "release")
    /\ UNCHANGED <<clock, stage, version, log, claims, edges>>
-----------------------------------------------------------------------------
\* TransitionStage up the funnel: one UPDATE guarded by the stage.
TransitionStage(s) ==
    /\ lock[s] = None
    /\ RoomToBump(s)
    /\ \E to \in SpecStage :
         /\ stage[s] # "approved"
         /\ ValidateTransition(stage[s], to)
         /\ stageIndex(to) > stageIndex(stage[s])
         /\ stage' = [stage EXCEPT ![s] = to]
         /\ version' = [version EXCEPT ![s] = @ + 1]
         /\ log' = [log EXCEPT ![s] =
                      Append(@, [version |-> version[s] + 1, stage |-> to])]
    /\ UNCHANGED <<clock, claims, edges, lock, req>>

\* ReleaseExpiredClaims, run by the sweeper's ticker for its own project.
Expired(s) == Held(s) /\ claims[s].expires < clock

\* Mutants: the sweep leaves the edges, or looks at approved specs only.
ReleaseExpiredClaimsOnly ==
    LET gone == {s \in Swept : Expired(s)} IN
    /\ gone # {}
    /\ claims' = [s \in Specs |-> IF s \in gone THEN NoClaim ELSE claims[s]]
    /\ UNCHANGED <<clock, specVars, edges, req>>
ReleaseExpiredApproved ==
    LET gone == {s \in Swept : Expired(s) /\ stage[s] = "approved"} IN
    /\ gone # {}
    /\ claims' = [s \in Specs |-> IF s \in gone THEN NoClaim ELSE claims[s]]
    /\ edges' = [s \in Specs |-> IF s \in gone THEN {} ELSE edges[s]]
    /\ UNCHANGED <<clock, specVars, req>>

ReleaseExpiredClaims ==
    LET gone == {s \in Swept : Expired(s)} IN
    /\ gone # {}
    /\ claims' = [s \in Specs |-> IF s \in gone THEN NoClaim ELSE claims[s]]
    /\ edges' = [s \in Specs |-> IF s \in gone THEN edges[s] \ {claims[s].agent}
                                              ELSE edges[s]]
    /\ UNCHANGED <<clock, specVars, req>>

Tick ==
    /\ clock < MaxTime
    /\ clock' = clock + 1
    /\ UNCHANGED <<specVars, claims, edges, req>>

\* Any statement may fail (lost connection, cancelled request context):
\* RunInTransaction rolls back and the row lock goes with the transaction.
Rollback(r) ==
    /\ ~Free(r)
    /\ lock' = [s \in Specs |-> IF lock[s] = r THEN None ELSE lock[s]]
    /\ Finish(r, "err")
    /\ UNCHANGED <<clock, stage, version, log, claims, edges>>

Arrive(r) ==
    \/ ClaimSpec(r) \/ Heartbeat(r) \/ UnclaimSpec(r) \/ LifecycleAmendSpec(r)
    \/ LifecycleAbandonSpec(r) \/ RecordCompletion(r)

Proceed(r) ==
    \/ ClaimPrune(r) \/ ClaimCheck(r) \/ ClaimRefresh(r) \/ ClaimInsert(r)
    \/ HeartbeatUpdate(r) \/ ReleaseClaim(r) \/ ReleaseEdge(r)
    \/ GuardedUpdate(r) \/ SeekClaim(r)
    \/ CompletionRead(r) \/ CompletionUpdate(r)

Next ==
    \/ \E r \in Requests : Arrive(r) \/ Proceed(r) \/ Rollback(r)
    \/ \E s \in Specs : TransitionStage(s)
    \/ ReleaseExpiredClaims
    \/ Tick

Spec == Init /\ [][Next]_vars

\* The sweeper's ticker always fires again, a handler's goroutine is always
\* scheduled again, and PostgreSQL queues the waiters of a row lock.
Fairness ==
    /\ WF_vars(ReleaseExpiredClaims)
    /\ \A r \in Requests :
         /\ WF_vars(Proceed(r))
         /\ SF_vars(GuardedUpdate(r) \/ CompletionUpdate(r))

FairSpec == Spec /\ Fairness
-----------------------------------------------------------------------------
(***************************************************************************)
(* Safety.                                                                 *)
(***************************************************************************)

\* A CLAIMED_BY edge never outlives the claim it stands for: amend, abandon,
\* completion, unclaim, take-over and the sweeper delete row and edge
\* together, whatever runs between their statements.
NoDanglingEdge ==
    \A s \in Specs : \A a \in edges[s] : claims[s].agent = a

\* A guarded lifecycle write is current when it commits: from its UPDATE to
\* its commit nobody else moves the row's version or stage, so an amend or
\* abandon decided on a spec is applied to that very version of it.
GuardedWriteCurrent ==
    \A r \in Requests :
        req[r].op \in {"amend", "abandon"} /\ req[r].pc \notin Replied \cup {"guard"}
            => /\ lock[req[r].spec] = r
               /\ version[req[r].spec] = req[r].ver
               /\ req[r].op = "amend" => stage[req[r].spec] \in AmendEligible

\* No checkpoint is ahead of its spec: the changelog never records a version
\* the row has not reached, not even the entry that RecordCompletion
\* numbers from a version it read before it had the row.
LogNotAhead ==
    \A s \in Specs : \A i \in 1..Len(log[s]) : log[s][i].version <= version[s]

\* The leases and the calls that the rows and the requests stand for.  The
\* agent that amend and abandon look up is their own business; a claim that
\* is about to refresh has found its agent's row.
heldBy == [s \in Specs |-> claims[s].agent]
heldUntil == [s \in Specs |-> claims[s].expires]
CallOf(q) ==
    [op |-> q.op, spec |-> q.spec,
     agent |-> IF q.op \in {"amend", "abandon"} THEN None ELSE q.agent,
     end |-> q.exp, found |-> IF q.pc = "refresh" THEN q.agent ELSE None]
served == [r \in Requests |-> CallOf(req[r])]

AbstractLease == INSTANCE Lease WITH
    now <- clock, holder <- heldBy, until <- heldUntil, calls <- served

\* The statements of the requests implement the leases of module Lease: no
\* stale clock, slow request or sweep makes the holder of a live lease another
\* agent or nobody, but for the holder's own calls, amend and abandon; and the
\* end of a lease is only ever moved to a time asked for by a heartbeat of its
\* holder or by a claim whose agent held the spec while it was under way.
\* Such a claim may come late and move the end of another agent's lease
\* (ClaimSpec's refresh chooses the row by spec alone): that much is allowed.
ImplementsLease == AbstractLease!Spec

\* A spec moves back in the funnel only from a stage that may be amended: no
\* interleaving of amend with completion, abandon or authoring rewinds a
\* finished, closed or still unapproved spec.
RewindsOnlyAmendable ==
    [][\A s \in Specs :
         /\ stage'[s] # stage[s]
         /\ stage'[s] \in ReEntryStages
         => \/ stage[s] \in AmendEligible
            \/ /\ stage[s] \in AuthoringStageSet
               /\ stageIndex(stage'[s]) = stageIndex(stage[s]) + 1]_vars
-----------------------------------------------------------------------------
(***************************************************************************)
(* Liveness, of FairSpec.                                                  *)
(***************************************************************************)

\* A claim that expires in the sweeper's project is released or renewed.
SweptClaimsReleased ==
    \A s \in Swept : Expired(s) ~> ~Expired(s)

\* Every request gets its reply: no cycle of row locks keeps one waiting.
RequestsFinish ==
    \A r \in Requests : ~Free(r) ~> Free(r)
-----------------------------------------------------------------------------
(***************************************************************************)
(* What the code's own comments promise and these runs refute.             *)
(***************************************************************************)

\* execution.go: RecordCompletion's claim verification, stage transition and
\* claim deletion are one atomic operation, so the agent that completes a
\* spec holds its claim.
CompletionHoldsClaim ==
    [][\A r \in Requests :
         req[r].op = "complete" /\ req'[r] = Reply("ok")
             => claims[req[r].spec].agent = req[r].agent]_vars

\* claim.go: ClaimSpec of a spec that another agent holds is refused, so an
\* agent whose ClaimSpec succeeds is the one the claim row names.
ClaimReplyNamesHolder ==
    [][\A r \in Requests :
         req[r].op = "claim" /\ req'[r] = Reply("ok")
             => claims'[req[r].spec].agent = req[r].agent]_vars
=============================================================================
