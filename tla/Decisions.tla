----------------------------- MODULE Decisions -----------------------------
(***************************************************************************)
(* Decisions: created by a client or promoted from a spec's shape output,  *)
(* updated by clients, accepted when a spec that cites them is approved:   *)
(* internal/storage/postgres/decision.go and authoring.go,                 *)
(* internal/server/decision_handler.go and authoring_handler.go.           *)
(*                                                                         *)
(* The unit of a step is an SQL statement.  A transaction keeps its writes *)
(* to itself and its rows locked until it commits; a read sees what is     *)
(* committed and what the transaction itself wrote.                        *)
(***************************************************************************)
EXTENDS Handlers, Naturals

CONSTANTS
    DecSlugs,      \* decisions
    CitingSpecs,   \* specs whose shape output may name them
    Texts,         \* title, body, rationale and the other hashed fields
    MaxDecVersion, \* bound on the version of a decision
    ClientStatus,  \* statuses that clients set
    ClientLinks    \* DECIDED_IN edges that clients add and remove

Status == {"proposed", "accepted", "superseded"}

DecRow == [text : Texts, status : Status,
           version : 1 .. MaxDecVersion, hash : Texts \X Status]

ASSUME DecAssumption ==
    /\ MaxDecVersion \in Nat \ {0}
    /\ ClientStatus \subseteq Status /\ ClientLinks \subseteq CitingSpecs \X DecSlugs
    /\ None \notin CitingSpecs /\ None \notin Status /\ None \notin DecRow

VARIABLES
    dec,        \* committed rows
    decided,    \* DECIDED_IN edges, <<spec, decision>>
    decStage,   \* stage of each citing spec
    shaped,     \* decisions that the shape output of each spec names
    decReq,     \* what each request is doing
    reproposed, \* history: decisions that a client has set back to proposed
    unlinked,   \* history: edges that a client removed and nobody put back
    overlooked  \* history: those of them missing when a spec's last approval
                \* listed its decisions

linkVars == <<decided, unlinked, overlooked>>
decVars == <<dec, linkVars, decStage, shaped, decReq, reproposed>>

NoRow == [d \in DecSlugs |-> None]

\* todo: decisions still to promote or accept.  d: the one in hand.  read: the
\* row UpdateDecision read.  own: rows the transaction wrote, with locks.
\* fresh: decisions whose edge the transaction inserted.
\* set: the fields a client sets, None to keep one.  expected: 0 for no check.
DecRequest ==
    [pc : {"idle", "promote", "insert", "edges", "accept", "read", "write", "commit"},
     op : {"none", "create", "shape", "update", "approve"},
     spec : CitingSpecs \cup {None}, named : SUBSET DecSlugs, todo : SUBSET DecSlugs,
     fresh : SUBSET DecSlugs,
     d : DecSlugs \cup {None}, read : DecRow \cup {None},
     own : [DecSlugs -> DecRow \cup {None}],
     set : [text : Texts \cup {None}, status : Status \cup {None}],
     expected : 0 .. MaxDecVersion]

KeepAll == [text |-> None, status |-> None]
DecIdle == [pc |-> "idle", op |-> "none", spec |-> None, named |-> {}, todo |-> {},
            fresh |-> {}, d |-> None, read |-> None, own |-> NoRow, set |-> KeepAll,
            expected |-> 0]

DecTypeOK ==
    /\ dec \in [DecSlugs -> DecRow \cup {None}]
    /\ decided \subseteq (CitingSpecs \X DecSlugs)
    /\ decStage \in [CitingSpecs -> {"spark", "shape", "decompose", "approved"}]
    /\ shaped \in [CitingSpecs -> SUBSET DecSlugs]
    /\ decReq \in [Requests -> DecRequest]
    /\ reproposed \subseteq DecSlugs
    /\ unlinked \subseteq (CitingSpecs \X DecSlugs)
    /\ overlooked \subseteq (CitingSpecs \X DecSlugs)

DecInit ==
    /\ dec = NoRow
    /\ decided = {}
    /\ decStage = [s \in CitingSpecs |-> "spark"]
    /\ shaped = [s \in CitingSpecs |-> {}]
    /\ decReq = [r \in Requests |-> DecIdle]
    /\ reproposed = {} /\ unlinked = {} /\ overlooked = {}
-----------------------------------------------------------------------------
DecGo(r, fields) == decReq' = [decReq EXCEPT ![r] = fields]
StoreUnchanged == UNCHANGED <<dec, linkVars, decStage, shaped, reproposed>>

\* GetDecision: what the transaction of r sees.
GetDecision(r, d) == IF decReq[r].own[d] # None THEN decReq[r].own[d] ELSE dec[d]

RowHeld(r, d) == \E q \in Requests \ {r} : decReq[q].own[d] # None
SpecHeld(r, s) == \E q \in Requests \ {r} : decReq[q].spec = s

\* contenthash.Decision: superseded_by and the version are not part of it.
DecHash(row) == <<row.text, row.status>>

\* A failed statement or a failed check: nothing of the transaction stays.
DecAbort(r) == DecGo(r, DecIdle) /\ StoreUnchanged
DecFail(r) == decReq[r].pc # "idle" /\ DecAbort(r)
-----------------------------------------------------------------------------
(***************************************************************************)
(* The requests.                                                           *)
(***************************************************************************)
CreateDecisionRequest(r) ==
    /\ decReq[r].pc = "idle"
    /\ \E d \in DecSlugs, t \in Texts :
         DecGo(r, [DecIdle EXCEPT !.pc = "insert", !.op = "create", !.d = d,
                                  !.set = [KeepAll EXCEPT !.text = t]])
    /\ StoreUnchanged

\* UpdateDecision RPC, of one field or the status.  (A superseded status comes
\* with its superseded_by; without any field the call only reads.)  A client
\* expects the version it has just seen, or none.
UpdateDecisionRequest(r) ==
    /\ decReq[r].pc = "idle"
    /\ \E d \in DecSlugs,
          set \in {[KeepAll EXCEPT !.text = t] : t \in Texts} \cup
                  {[KeepAll EXCEPT !.status = st] : st \in ClientStatus} :
         /\ dec[d] # None
         /\ \E e \in {0, dec[d].version} :
              DecGo(r, [DecIdle EXCEPT !.pc = "read", !.op = "update", !.d = d,
                                       !.set = set, !.expected = e])
    /\ StoreUnchanged

\* Shape: TransitionStage holds the spec's row, then StoreShapeOutput.
ShapeRequest(r) ==
    /\ decReq[r].pc = "idle"
    /\ \E s \in CitingSpecs, ds \in SUBSET DecSlugs :
         /\ decStage[s] = "spark"
         /\ ~SpecHeld(r, s)
         /\ DecGo(r, [DecIdle EXCEPT !.pc = "promote", !.op = "shape",
                                     !.spec = s, !.named = ds, !.todo = ds])
    /\ StoreUnchanged

\* Approve with the accept action, up to its TransitionStage.
ApproveRequest(r) ==
    /\ decReq[r].pc = "idle"
    /\ \E s \in CitingSpecs :
         /\ decStage[s] = "decompose"
         /\ ~SpecHeld(r, s)
         /\ DecGo(r, [DecIdle EXCEPT !.pc = "edges", !.op = "approve", !.spec = s])
    /\ StoreUnchanged

\* Specify and Decompose, and an amendment back to spark: no decision changes.
OtherStageChange(s) ==
    /\ \A r \in Requests : decReq[r].spec # s
    /\ \/ decStage[s] = "shape" /\ decStage' = [decStage EXCEPT ![s] = "decompose"]
       \/ decStage[s] = "approved" /\ decStage' = [decStage EXCEPT ![s] = "spark"]
    /\ overlooked' = {e \in overlooked : e[1] # s}
    /\ UNCHANGED <<dec, decided, unlinked, shaped, decReq, reproposed>>

\* AddEdge and RemoveEdge RPCs on a DECIDED_IN edge, where they have an effect.
\* An insertion waits for a transaction that is inserting the same edge; a
\* removal does not see an edge that is not committed.
AddDecidedIn(e) ==
    /\ dec[e[2]] # None /\ e \notin decided
    /\ \A r \in Requests : decReq[r].spec = e[1] => e[2] \notin decReq[r].fresh
    /\ decided' = decided \cup {e}
    /\ unlinked' = unlinked \ {e}
    /\ UNCHANGED <<dec, overlooked, decStage, shaped, decReq, reproposed>>

RemoveDecidedIn(e) ==
    /\ e \in decided
    /\ decided' = decided \ {e}
    /\ unlinked' = unlinked \cup {e}
    /\ UNCHANGED <<dec, overlooked, decStage, shaped, decReq, reproposed>>
-----------------------------------------------------------------------------
(***************************************************************************)
(* Creation, and promotion by StoreShapeOutput.                            *)
(***************************************************************************)

\* Mutant: only a decision that the promotion creates gets its edge.
MissingEdgeOfCreated(s, d) == {}

\* AddEdge in StoreShapeOutput inserts the edge unless it is there, without a
\* lock on one that is there.
MissingEdge(s, d) == {x \in {d} : <<s, x>> \notin decided}

\* One turn of the loop over output.Decisions: a decision that is there gets its
\* edge, another is created first.
StoreShapeOutput(r) ==
    /\ decReq[r].pc = "promote"
    /\ \E d \in decReq[r].todo :
         IF GetDecision(r, d) = None
         THEN DecGo(r, [decReq[r] EXCEPT !.pc = "insert", !.d = d])
         ELSE DecGo(r, [decReq[r] EXCEPT !.todo = @ \ {d},
                          !.fresh = @ \cup MissingEdge(decReq[r].spec, d)])
    /\ StoreUnchanged

StoreShapeEnd(r) ==
    /\ decReq[r].pc = "promote" /\ decReq[r].todo = {}
    /\ DecGo(r, [decReq[r] EXCEPT !.pc = "commit"])
    /\ StoreUnchanged

\* CreateDecision's INSERT waits for a transaction that is inserting the same
\* slug, and fails on a slug that is taken.
CreateDecision(r) ==
    LET q == decReq[r]
        New(t) == [text |-> t, status |-> "proposed",
                   version |-> 1, hash |-> <<t, "proposed">>]
    IN
    /\ q.pc = "insert"
    /\ ~RowHeld(r, q.d)
    /\ dec[q.d] = None
    /\ \E t \in IF q.op = "create" THEN {q.set.text} ELSE Texts :
         DecGo(r, [q EXCEPT !.pc = IF q.op = "create" THEN "commit" ELSE "promote",
                            !.own = [@ EXCEPT ![q.d] = New(t)],
                            !.todo = @ \ {q.d},
                            !.fresh = IF q.op = "shape" THEN @ \cup {q.d} ELSE @])
    /\ StoreUnchanged

DecisionAlreadyExists(r) ==
    /\ decReq[r].pc = "insert"
    /\ ~RowHeld(r, decReq[r].d)
    /\ dec[decReq[r].d] # None
    /\ DecAbort(r)
-----------------------------------------------------------------------------
(***************************************************************************)
(* UpdateDecision and acceptLinkedDecisions.                               *)
(***************************************************************************)
ListDecidedIn(r) ==
    LET s == decReq[r].spec IN
    /\ decReq[r].pc = "edges"
    /\ DecGo(r, [decReq[r] EXCEPT !.pc = "accept",
                   !.todo = {d \in DecSlugs : <<s, d>> \in decided}])
    /\ overlooked' = {e \in overlooked : e[1] # s} \cup {e \in unlinked : e[1] = s}
    /\ UNCHANGED <<dec, decided, unlinked, decStage, shaped, reproposed>>

\* One turn of acceptLinkedDecisions: read the status, update if proposed.
acceptLinkedDecisions(r) ==
    /\ decReq[r].pc = "accept"
    /\ \E d \in decReq[r].todo :
         LET rest == [decReq[r] EXCEPT !.todo = @ \ {d}] IN
         IF GetDecision(r, d).status # "proposed" THEN DecGo(r, rest)
         ELSE DecGo(r, [rest EXCEPT !.pc = "read", !.d = d,
                                    !.set = [KeepAll EXCEPT !.status = "accepted"]])
    /\ StoreUnchanged

AcceptEnd(r) ==
    /\ decReq[r].pc = "accept" /\ decReq[r].todo = {}
    /\ DecGo(r, [decReq[r] EXCEPT !.pc = "commit"])
    /\ StoreUnchanged

UpdateDecisionRead(r) ==
    /\ decReq[r].pc = "read"
    /\ DecGo(r, [decReq[r] EXCEPT !.pc = "write", !.read = GetDecision(r, decReq[r].d)])
    /\ StoreUnchanged

Applied(row, set, hash) ==
    LET Or(v, old) == IF v = None THEN old ELSE v
        new == [row EXCEPT !.text = Or(set.text, @), !.status = Or(set.status, @),
                           !.version = @ + 1]
    IN  [new EXCEPT !.hash = IF hash = None THEN DecHash(new) ELSE hash]

\* The UPDATE, the second read and the UPDATE of the hash.
UpdatedRow(q, row) == Applied(row, q.set, None)

\* Mutant: the expected version is compared with the row that was read.
VersionMatchesRead(q, row) == q.expected \in {0, q.read.version}

VersionMatches(q, row) == q.expected \in {0, row.version}

\* The UPDATE waits for the row and applies to it as it is by then.  (The
\* changelog entry compares it with what was read first; entries are not kept.)
UpdateDecisionWrite(r) ==
    LET q == decReq[r]
        row == GetDecision(r, q.d)
        new == UpdatedRow(q, row)
    IN
    /\ q.pc = "write"
    /\ ~RowHeld(r, q.d)
    /\ VersionMatches(q, row)
    /\ row.version < MaxDecVersion
    /\ DecGo(r, [q EXCEPT !.pc = IF q.op = "approve" THEN "accept" ELSE "commit",
                          !.own = [@ EXCEPT ![q.d] = new]])
    /\ StoreUnchanged

ErrConcurrentModification(r) ==
    LET q == decReq[r] IN
    /\ q.pc = "write"
    /\ ~RowHeld(r, q.d)
    /\ ~VersionMatches(q, GetDecision(r, q.d))
    /\ DecAbort(r)
-----------------------------------------------------------------------------
FreshEdges(q) == {<<q.spec, d>> : d \in q.fresh}

DecCommit(r) ==
    LET q == decReq[r] IN
    /\ q.pc = "commit"
    /\ dec' = [d \in DecSlugs |-> IF q.own[d] # None THEN q.own[d] ELSE dec[d]]
    /\ CASE q.op = "shape" ->
              /\ decided' = decided \cup FreshEdges(q)
              /\ unlinked' = unlinked \ FreshEdges(q)
              /\ shaped' = [shaped EXCEPT ![q.spec] = q.named]
              /\ decStage' = [decStage EXCEPT ![q.spec] = "shape"]
         [] q.op = "approve" ->
              /\ decStage' = [decStage EXCEPT ![q.spec] = "approved"]
              /\ UNCHANGED <<decided, unlinked, shaped>>
         [] OTHER -> UNCHANGED <<decided, unlinked, shaped, decStage>>
    /\ UNCHANGED overlooked
    /\ reproposed' = reproposed \cup (IF q.set.status = "proposed" THEN {q.d} ELSE {})
    /\ DecGo(r, DecIdle)

DecNext ==
    \/ \E s \in CitingSpecs : OtherStageChange(s)
    \/ \E e \in ClientLinks : AddDecidedIn(e) \/ RemoveDecidedIn(e)
    \/ \E r \in Requests :
         \/ CreateDecisionRequest(r) \/ UpdateDecisionRequest(r)
         \/ ShapeRequest(r) \/ ApproveRequest(r)
         \/ StoreShapeOutput(r) \/ StoreShapeEnd(r)
         \/ CreateDecision(r) \/ DecisionAlreadyExists(r)
         \/ ListDecidedIn(r) \/ acceptLinkedDecisions(r) \/ AcceptEnd(r)
         \/ UpdateDecisionRead(r) \/ UpdateDecisionWrite(r)
         \/ ErrConcurrentModification(r)
         \/ DecCommit(r) \/ DecFail(r)

DecSpec == DecInit /\ [][DecNext]_decVars
-----------------------------------------------------------------------------
(***************************************************************************)
(* Safety.                                                                 *)
(***************************************************************************)

\* However updates without an expected version overlap, the stored hash is
\* the hash of the stored row: the hash is computed from a read that the
\* row's own lock protects, not from the first read of UpdateDecision.
DecisionHashNamesRow ==
    \A d \in DecSlugs : dec[d] # None => dec[d].hash = DecHash(dec[d])

\* An update that expects a version computes its changelog entry from the very
\* row it replaces, though it reads that row before it holds it.
GuardedUpdateSeesLast ==
    \A r \in Requests :
        LET q == decReq[r] IN
        q.pc = "commit" /\ q.op = "update" /\ q.expected > 0
            => q.read.version + 1 = q.own[q.d].version

\* decision.go UpdateDecision: however updates overlap, none writes from a row
\* that is no longer the last: the hash is that of the row stored, and a guarded
\* update's changelog entry starts from the row it replaces.
UpdatesSeeLast == DecisionHashNamesRow /\ GuardedUpdateSeesLast

\* When a spec is approved no decision of its shape output is left proposed,
\* whoever created the decision and whatever ran beside the approval.  There are
\* two exceptions: a decision that a client has set back, and one whose edge a
\* client had removed when the approval listed the spec's decisions: the
\* approval goes by the edges, not by the shape output.
ApprovedDecisionsSettled ==
    \A s \in CitingSpecs : decStage[s] = "approved" =>
        \A d \in shaped[s] \ reproposed :
            dec[d].status # "proposed" \/ <<s, d>> \in overlooked
=============================================================================
