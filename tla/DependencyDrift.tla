-------------------------- MODULE DependencyDrift --------------------------
(***************************************************************************)
(* Drift between a finished spec and what it depends on.  A DEPENDS_ON     *)
(* edge keeps the content hash that its upstream had when the edge was     *)
(* made or last refreshed (content_hash_at_link); a check compares it with *)
(* the upstream's hash of today: internal/storage/postgres/graph.go,       *)
(* lifecycle.go and execution.go, internal/drift/drift.go.                 *)
(*                                                                         *)
(* A check is not a transaction: it reads the edges by one statement and   *)
(* each upstream by another.  A refresh reads the upstreams' hashes with   *)
(* the snapshot of its UPDATE and writes them when it commits; if it waits *)
(* for another refresh of the same edge it still writes what it read.      *)
(***************************************************************************)
EXTENDS Handlers, Naturals

CONSTANTS
    DriftSpecs,      \* specs
    DriftDecisions,  \* decisions, the other upstreams that have a hash
    Contents,        \* what a spec or a decision says
    Links,           \* DEPENDS_ON edges that clients may make, <<from, to>>
    MaxEdits         \* bound on the changes of specs and decisions

Upstreams == DriftSpecs \cup DriftDecisions

ASSUME LinksAssumption ==
    /\ Links \subseteq DriftSpecs \X Upstreams
    /\ DriftSpecs \cap DriftDecisions = {}
    /\ None \notin Upstreams
    /\ MaxEdits \in Nat

Stage == {"approved", "done", "superseded"}

\* full: the stage outputs are part of the hash.  UpdateSpec leaves them out.
DriftHash == [content : Contents, stage : Stage \cup {"decision"}, full : BOOLEAN]

VARIABLES
    node,      \* content, stage and hash of each spec and decision
    link,      \* content_hash_at_link of each edge; None when there is none
    driftReq,  \* what each request is doing
    moments,   \* history: what a check could have found so far
    edits      \* number of changes so far

driftVars == <<node, link, driftReq, moments, edits>>

Node == [content : Contents, stage : Stage \cup {"decision"}, hash : DriftHash]

\* refresh: what a refresh has read.  rest: edges a check has still to look at.
DriftRequest ==
    [pc : {"idle", "insert", "complete", "acknowledge", "deps", "check", "report"},
     spec : DriftSpecs \cup {None}, to : Upstreams \cup {None},
     read : [Links -> DriftHash \cup {None}], items : SUBSET Upstreams]

NoRead == [l \in Links |-> None]
DriftIdle == [pc |-> "idle", spec |-> None, to |-> None, read |-> NoRead,
              items |-> {}]

DriftTypeOK ==
    /\ node \in [Upstreams -> Node]
    /\ link \in [Links -> DriftHash \cup {None}]
    /\ driftReq \in [Requests -> DriftRequest]
    /\ moments \in [Requests -> SUBSET (Upstreams \X {"sync", "drift", "unlinked"})]
    /\ edits \in 0 .. MaxEdits

HashOf(n, full) == [content |-> n.content, stage |-> n.stage, full |-> full]
Rehash(n, full) == [n EXCEPT !.hash = HashOf(n, full)]

DriftInit ==
    /\ \E c \in Contents :
         node = [n \in Upstreams |->
                   LET stage == IF n \in DriftSpecs THEN "approved" ELSE "decision"
                       row == [content |-> c, stage |-> stage]
                   IN  [content |-> c, stage |-> stage, hash |-> HashOf(row, TRUE)]]
    /\ link = NoRead
    /\ driftReq = [r \in Requests |-> DriftIdle]
    /\ moments = [r \in Requests |-> {}]
    /\ edits = 0

DriftGo(r, fields) == driftReq' = [driftReq EXCEPT ![r] = fields]
Free(r) == driftReq[r].pc \in {"idle", "report"}
-----------------------------------------------------------------------------
(***************************************************************************)
(* Changes of the upstreams.                                               *)
(***************************************************************************)

Edit == edits < MaxEdits /\ edits' = edits + 1

\* The row of a spec is held by a completion from its UPDATE to its commit.
RowFree(s) ==
    \A r \in Requests : ~(driftReq[r].pc = "complete" /\ driftReq[r].spec = s)

\* UpdateSpec of the intent, or of the notes only; its version guard makes
\* the read and the write one step.  The stage is never an input.
DriftUpdateSpec(s, c) ==
    /\ RowFree(s)
    /\ Edit
    /\ node' = [node EXCEPT ![s] = Rehash([node[s] EXCEPT !.content = c], FALSE)]
    /\ UNCHANGED <<link, driftReq>>

\* UpdateDecision: the hash is that of the row after the UPDATE.
DriftUpdateDecision(d, c) ==
    /\ Edit
    /\ node' = [node EXCEPT ![d] = Rehash([node[d] EXCEPT !.content = c], TRUE)]
    /\ UNCHANGED <<link, driftReq>>

\* LifecycleSupersedeSpec, as a downstream sees it.
DriftSupersede(s) ==
    /\ RowFree(s)
    /\ Edit
    /\ node[s].stage = "done"
    /\ node' = [node EXCEPT ![s] = Rehash([node[s] EXCEPT !.stage = "superseded"], TRUE)]
    /\ UNCHANGED <<link, driftReq>>
-----------------------------------------------------------------------------
(***************************************************************************)
(* Edges.                                                                  *)
(***************************************************************************)
lookupContentHash(n) == node[n].hash

\* AddEdge: the checks and the upstream's hash, then the INSERT, which does
\* nothing when the edge is there.
DriftAddEdge(r) ==
    /\ Free(r)
    /\ \E l \in Links :
         DriftGo(r, [DriftIdle EXCEPT !.pc = "insert", !.spec = l[1], !.to = l[2],
                       !.read = [NoRead EXCEPT ![l] = lookupContentHash(l[2])]])
    /\ UNCHANGED <<node, link>>

DriftInsertEdge(r) ==
    LET l == <<driftReq[r].spec, driftReq[r].to>> IN
    /\ driftReq[r].pc = "insert"
    /\ link' = [link EXCEPT ![l] = IF @ = None THEN driftReq[r].read[l] ELSE @]
    /\ DriftGo(r, DriftIdle)
    /\ UNCHANGED node

DriftRemoveEdge(l) ==
    /\ link[l] # None
    /\ link' = [link EXCEPT ![l] = None]
    /\ UNCHANGED <<node, driftReq>>

\* RefreshDependencyHashes, for one upstream or for all.  A transaction sees
\* the row it has itself written (own).
Outgoing(s, own, to) ==
    [l \in Links |-> IF l[1] = s /\ link[l] # None /\ to \in {None, l[2]}
                     THEN IF l[2] = s THEN own.hash ELSE node[l[2]].hash
                     ELSE None]

Refreshed(read) ==
    [l \in Links |-> IF link[l] # None /\ read[l] # None THEN read[l] ELSE link[l]]

Completed(s) == Rehash([node[s] EXCEPT !.stage = "done"], TRUE)

\* RecordCompletion up to its refresh, and its commit.
DriftComplete(r) ==
    /\ Free(r)
    /\ \E s \in DriftSpecs :
         /\ RowFree(s)
         /\ DriftGo(r, [DriftIdle EXCEPT !.pc = "complete", !.spec = s,
                          !.read = Outgoing(s, Completed(s), None)])
    /\ UNCHANGED <<node, link>>

DriftCompleteCommit(r) ==
    LET s == driftReq[r].spec IN
    /\ driftReq[r].pc = "complete"
    /\ node' = [node EXCEPT ![s] = Completed(s)]
    /\ link' = Refreshed(driftReq[r].read)
    /\ DriftGo(r, DriftIdle)

\* LifecycleAcknowledgeDrift of one upstream, which must be linked, or of all.
LifecycleAcknowledgeDrift(r) ==
    /\ Free(r)
    /\ \E s \in DriftSpecs, to \in Upstreams \cup {None} :
         /\ node[s].stage = "done"
         /\ to # None => <<s, to>> \in Links /\ link[<<s, to>>] # None
         /\ DriftGo(r, [DriftIdle EXCEPT !.pc = "acknowledge", !.spec = s,
                          !.to = to, !.read = Outgoing(s, node[s], to)])
    /\ UNCHANGED <<node, link>>

\* The handler goes on to check the spec again.
AcknowledgeCommit(r) ==
    /\ driftReq[r].pc = "acknowledge"
    /\ link' = Refreshed(driftReq[r].read)
    /\ DriftGo(r, IF node[driftReq[r].spec].stage = "done"
                  THEN [DriftIdle EXCEPT !.pc = "deps", !.spec = driftReq[r].spec]
                  ELSE DriftIdle)
    /\ UNCHANGED node

\* A failed statement.
DriftRollback(r) ==
    /\ driftReq[r].pc \in {"insert", "complete", "acknowledge"}
    /\ DriftGo(r, DriftIdle)
    /\ UNCHANGED <<node, link>>
-----------------------------------------------------------------------------
(***************************************************************************)
(* CheckDrift.                                                             *)
(***************************************************************************)

\* Engine.Check of one spec, or the turn of one spec in a check of all.
DriftCheck(r) ==
    /\ Free(r)
    /\ \E s \in DriftSpecs :
         /\ node[s].stage = "done"
         /\ DriftGo(r, [DriftIdle EXCEPT !.pc = "deps", !.spec = s])
    /\ UNCHANGED <<node, link>>

GetDependenciesWithEdgeData(r) ==
    LET s == driftReq[r].spec IN
    /\ driftReq[r].pc = "deps"
    /\ DriftGo(r, [driftReq[r] EXCEPT !.pc = "check",
                     !.read = [l \in Links |-> IF l[1] = s THEN link[l] ELSE None]])
    /\ UNCHANGED <<node, link>>

\* Mutant: the upstream's hash is computed afresh, with the stage outputs.
DriftedRecomputed(u, atLink) ==
    u \notin DriftSpecs \/ HashOf(node[u], TRUE) # atLink

\* A decision is not found by GetSpec, and is always an item.
Drifted(u, atLink) == u \notin DriftSpecs \/ node[u].hash # atLink

\* One turn of checkSpec's loop: the upstream is read and compared.
checkSpec(r) ==
    LET q == driftReq[r] IN
    /\ q.pc = "check"
    /\ \E l \in Links :
         /\ q.read[l] # None
         /\ DriftGo(r, [q EXCEPT !.read = [q.read EXCEPT ![l] = None],
                          !.items = IF Drifted(l[2], q.read[l])
                                    THEN q.items \cup {l[2]} ELSE q.items])
    /\ UNCHANGED <<node, link>>

DriftReport(r) ==
    /\ driftReq[r].pc = "check"
    /\ driftReq[r].read = NoRead
    /\ DriftGo(r, [driftReq[r] EXCEPT !.pc = "report"])
    /\ UNCHANGED <<node, link>>
-----------------------------------------------------------------------------
\* How upstream u stands to the spec that r checks.
Standing(r, u) ==
    LET l == <<driftReq[r].spec, u>> IN
    IF l \notin Links \/ link[l] = None THEN "unlinked"
    ELSE IF link[l] = node[u].hash THEN "sync" ELSE "drift"

\* The history of a check: how each upstream stood at each moment of it.
Observe ==
    moments' = [r \in Requests |->
        LET q == driftReq'[r]
            now == {<<u, Standing(r, u)'>> : u \in Upstreams}
        IN  CASE q.pc = "deps" /\ driftReq[r].pc # "deps" -> now
              [] q.pc = "report" -> moments[r]
              [] q.pc \in {"deps", "check"} -> moments[r] \cup now
              [] OTHER -> {}]

DriftNext ==
    /\ \/ \E s \in DriftSpecs : DriftSupersede(s)
       \/ \E s \in DriftSpecs, c \in Contents : DriftUpdateSpec(s, c)
       \/ \E d \in DriftDecisions, c \in Contents : DriftUpdateDecision(d, c)
       \/ \E l \in Links : DriftRemoveEdge(l) /\ UNCHANGED edits
       \/ \E r \in Requests : UNCHANGED edits /\
            \/ DriftAddEdge(r) \/ DriftInsertEdge(r)
            \/ DriftComplete(r) \/ DriftCompleteCommit(r)
            \/ LifecycleAcknowledgeDrift(r) \/ AcknowledgeCommit(r)
            \/ DriftRollback(r)
            \/ DriftCheck(r) \/ GetDependenciesWithEdgeData(r)
            \/ checkSpec(r) \/ DriftReport(r)
    /\ Observe

DriftSpec == DriftInit /\ [][DriftNext]_driftVars
-----------------------------------------------------------------------------
(***************************************************************************)
(* Safety.                                                                 *)
(***************************************************************************)

\* An upstream spec is reported only if it was out of step with its edge at some
\* moment while the check ran.  (An edge from a spec to itself is left out: its
\* completion changes both of its sides at once.)
SpecsReportedWithCause(q, m) ==
    \A u \in q.items \cap (DriftSpecs \ {q.spec}) :
        m \cap {<<u, "drift">>, <<u, "unlinked">>} # {}

\* A decision is reported without a cause of that kind, whether or not it is in
\* step, since GetSpec does not find it; but only if the spec was linked to it.
DecisionsReportedIfLinked(q, m) ==
    \A u \in q.items \cap DriftDecisions :
        m \cap {<<u, "drift">>, <<u, "sync">>} # {}

\* drift.go checkSpec: a check reads edge and upstream at different moments and
\* other requests change both in between; yet for upstream specs it raises no
\* false alarm.  For upstream decisions it does: each one that is linked is an
\* item ("not found"), and all that can be said is that it was linked.
ReportJustified ==
    \A r \in Requests : driftReq[r].pc = "report" =>
        /\ SpecsReportedWithCause(driftReq[r], moments[r])
        /\ DecisionsReportedIfLinked(driftReq[r], moments[r])
=============================================================================
