--------------------------- MODULE Conversations ---------------------------
(***************************************************************************)
(* What is recorded beside a spec: the conversations of its stages, chained *)
(* by edges, and the findings of its analytical passes.                    *)
(* internal/storage/postgres/conversation.go and findings.go,              *)
(* internal/server/analytical_pass_handler.go and authoring_handler.go.    *)
(*                                                                         *)
(* One spec; a step is an SQL statement, and the writes of a transaction   *)
(* are seen by others when it commits.  A date is the order of insertion,  *)
(* which is not the order of commits.                                      *)
(***************************************************************************)
EXTENDS Handlers, Naturals, FiniteSets

CONSTANTS
    Passes,      \* analytical pass types
    LastStage,   \* approved; the one before is decompose
    MaxVersion,  \* bound on the versions of the spec
    MaxLogs      \* bound on conversations and on findings

\* The authoring stages, by number, from spark to approved.  The code has 0 to
\* 4; the handlers of those in the middle record alike.
StageNo == 0 .. LastStage

VARIABLES
    specRow,     \* version and stage of the spec
    changes,     \* changelog entries of its stages, [stage, version]
    convs,       \* committed conversation logs
    convEdges,   \* AUTHORED_VIA and CONTINUES edges
    explains,    \* EXPLAINS edges, <<conversation, changelog entry>>
    finds,       \* committed findings
    findEdges,   \* HAS_FINDING edges: ids of findings
    nextLog,     \* next id, also the date
    convReq      \* what each request is doing

convVars == <<specRow, changes, convs, convEdges, explains, finds, findEdges, nextLog, convReq>>

LogIds == 0 .. MaxLogs
SpecRow == [version : 1 .. MaxVersion, stage : StageNo]
Conv == [id : LogIds, stage : StageNo, version : 1 .. MaxVersion, gate : BOOLEAN]
ChainEdges == [type : {"AUTHORED_VIA", "CONTINUES"}, from : LogIds \cup {None}, to : LogIds]
Finding == [id : LogIds, pass : Passes]

ASSUME ConvAssumption ==
    /\ LastStage \in Nat \ {0} /\ MaxVersion \in Nat \ {0} /\ MaxLogs \in Nat
    /\ None \notin SpecRow /\ None \notin LogIds /\ None \notin Passes
    /\ None \notin Conv /\ None \notin Finding

\* gate: the conversation belongs to a stage handler, whose transition is row.
\* change, prev: what RecordConversation read.  conv, edges, new: its writes.
ConvRequest ==
    [pc : {"idle", "record", "prev", "insert", "snapshot", "delete", "finding", "commit"},
     gate : BOOLEAN, row : SpecRow \cup {None}, stage : StageNo,
     version : 0 .. MaxVersion, change : SpecRow \cup {None},
     prev : LogIds \cup {None}, conv : Conv \cup {None}, edges : SUBSET ChainEdges,
     explains : SUBSET (LogIds \X SpecRow),
     pass : Passes \cup {None}, gone : SUBSET LogIds, new : Finding \cup {None}]

ConvIdle ==
    [pc |-> "idle", gate |-> FALSE, row |-> None, stage |-> 0, version |-> 0,
     change |-> None, prev |-> None, conv |-> None, edges |-> {}, explains |-> {},
     pass |-> None, gone |-> {}, new |-> None]

ConvTypeOK ==
    /\ specRow \in SpecRow
    /\ changes \subseteq SpecRow
    /\ convs \subseteq Conv
    /\ convEdges \subseteq ChainEdges
    /\ explains \subseteq (LogIds \X SpecRow)
    /\ finds \subseteq Finding
    /\ findEdges \subseteq LogIds
    /\ nextLog \in 0 .. MaxLogs + 1
    /\ convReq \in [Requests -> ConvRequest]

ConvInit ==
    /\ specRow = [version |-> 1, stage |-> 0]
    /\ changes = {specRow}
    /\ convs = {} /\ convEdges = {} /\ explains = {}
    /\ finds = {} /\ findEdges = {}
    /\ nextLog = 0
    /\ convReq = [r \in Requests |-> ConvIdle]
-----------------------------------------------------------------------------
ConvGo(r, fields) == convReq' = [convReq EXCEPT ![r] = fields]
ConvStoreUnchanged == UNCHANGED <<specRow, changes, convs, convEdges, explains, finds, findEdges>>

ConvFail(r) ==
    /\ convReq[r].pc # "idle"
    /\ ConvGo(r, ConvIdle)
    /\ ConvStoreUnchanged /\ UNCHANGED nextLog

\* A stage handler: TransitionStage takes the spec's row and writes an entry;
\* the conversation is the last operation of the same transaction.  (Amend is
\* a transition to an earlier stage without a conversation: see AmendStage.)
StageHandler(r) ==
    /\ convReq[r].pc = "idle"
    /\ \A q \in Requests : convReq[q].row = None
    /\ specRow.stage < LastStage /\ specRow.version < MaxVersion
    /\ LET row == [version |-> specRow.version + 1, stage |-> specRow.stage + 1] IN
       ConvGo(r, [ConvIdle EXCEPT !.pc = "record", !.gate = TRUE, !.row = row,
                                  !.stage = row.stage])
    /\ ConvStoreUnchanged /\ UNCHANGED nextLog

AmendStage ==
    /\ \A q \in Requests : convReq[q].row = None
    /\ specRow.version < MaxVersion
    /\ \E s \in StageNo :
         /\ s < specRow.stage
         /\ specRow' = [version |-> specRow.version + 1, stage |-> s]
         /\ changes' = changes \cup {specRow'}
    /\ UNCHANGED <<convs, convEdges, explains, finds, findEdges, nextLog, convReq>>

\* The RecordConversation RPC, for any stage, and the reject action of Approve,
\* which records under the approved stage and then stores a finding.
RecordConversationRequest(r) ==
    /\ convReq[r].pc = "idle"
    /\ \E s \in StageNo : ConvGo(r, [ConvIdle EXCEPT !.pc = "record", !.stage = s])
    /\ ConvStoreUnchanged /\ UNCHANGED nextLog

ApproveReject(r) ==
    /\ convReq[r].pc = "idle"
    /\ specRow.stage = LastStage - 1
    /\ \E p \in Passes :
         ConvGo(r, [ConvIdle EXCEPT !.pc = "record", !.stage = LastStage, !.pass = p])
    /\ ConvStoreUnchanged /\ UNCHANGED nextLog

\* RecordConversation: the version (the transaction's own, if it wrote the row)
\* and the entry of this stage and version; then the newest conversation.
RecordConversation(r) ==
    LET q == convReq[r]
        own == q.row # None
        v == IF own THEN q.row.version ELSE specRow.version
        entry == [version |-> v, stage |-> q.stage]
        entries == IF own THEN changes \cup {q.row} ELSE changes
    IN
    /\ q.pc = "record"
    /\ ConvGo(r, [q EXCEPT !.pc = "prev", !.version = v,
                           !.change = IF entry \in entries THEN entry ELSE None])
    /\ ConvStoreUnchanged /\ UNCHANGED nextLog

Latest == IF convs = {} THEN None
          ELSE CHOOSE i \in {c.id : c \in convs} : \A c \in convs : c.id <= i

RecordConversationTail(r) ==
    /\ convReq[r].pc = "prev"
    /\ ConvGo(r, [convReq[r] EXCEPT !.pc = "insert", !.prev = Latest])
    /\ ConvStoreUnchanged /\ UNCHANGED nextLog

\* Mutant: the conversation hangs on the spec only if it is of the spark stage.
ChainEdgeSparkOnly(q, id) ==
    IF q.prev # None THEN {[type |-> "CONTINUES", from |-> q.prev, to |-> id]}
    ELSE {[type |-> "AUTHORED_VIA", from |-> None, to |-> i] :
              i \in IF q.stage = 0 THEN {id} ELSE {}}

\* AUTHORED_VIA for the first conversation, CONTINUES for the others.
ChainEdge(q, id) ==
    IF q.prev # None THEN {[type |-> "CONTINUES", from |-> q.prev, to |-> id]}
    ELSE {[type |-> "AUTHORED_VIA", from |-> None, to |-> id]}

ExplainsEdge(q, id) ==
    {<<id, c>> : c \in {q.change} \ {None}}

RecordConversationInsert(r) ==
    LET q == convReq[r] IN
    /\ q.pc = "insert"
    /\ nextLog <= MaxLogs
    /\ nextLog' = nextLog + 1
    /\ ConvGo(r, [q EXCEPT !.pc = IF q.pass = None THEN "commit" ELSE "snapshot",
                    !.conv = [id |-> nextLog, stage |-> q.stage,
                              version |-> q.version, gate |-> q.gate],
                    !.edges = ChainEdge(q, nextLog),
                    !.explains = ExplainsEdge(q, nextLog)])
    /\ ConvStoreUnchanged
-----------------------------------------------------------------------------
(***************************************************************************)
(* StoreFindings.                                                          *)
(***************************************************************************)
StoreFindingsRequest(r) ==
    /\ convReq[r].pc = "idle"
    /\ \E p \in Passes : ConvGo(r, [ConvIdle EXCEPT !.pc = "snapshot", !.pass = p])
    /\ ConvStoreUnchanged /\ UNCHANGED nextLog

ListFindings(pass) == {f \in finds : f.pass = pass}

\* The DELETE sees the findings of its snapshot, waits for a transaction that
\* is deleting one of them, and skips those that are gone by then.
StoreFindings(r) ==
    /\ convReq[r].pc = "snapshot"
    /\ ConvGo(r, [convReq[r] EXCEPT !.pc = "delete",
                    !.gone = {f.id : f \in ListFindings(convReq[r].pass)}])
    /\ ConvStoreUnchanged /\ UNCHANGED nextLog

StoreFindingsDelete(r) ==
    LET q == convReq[r] IN
    /\ q.pc = "delete"
    /\ \A o \in Requests \ {r} :
         convReq[o].pc \in {"finding", "commit"} => convReq[o].gone \cap q.gone = {}
    /\ ConvGo(r, [q EXCEPT !.pc = "finding", !.gone = @ \cap {f.id : f \in finds}])
    /\ ConvStoreUnchanged /\ UNCHANGED nextLog

\* The INSERTs: one finding stands for the batch, none for an empty one.
StoreFindingsInsert(r) ==
    LET q == convReq[r] IN
    /\ q.pc = "finding"
    /\ nextLog <= MaxLogs
    /\ \/ /\ q.conv = None     \* an empty list of findings
          /\ ConvGo(r, [q EXCEPT !.pc = "commit"])
          /\ UNCHANGED nextLog
       \/ /\ ConvGo(r, [q EXCEPT !.pc = "commit",
                                 !.new = [id |-> nextLog, pass |-> q.pass]])
          /\ nextLog' = nextLog + 1
    /\ ConvStoreUnchanged

\* Only the edges of the deleted findings go; each new finding gets one.
FindingEdgesAfter(q) == (findEdges \ q.gone) \cup {n.id : n \in {q.new} \ {None}}

ConvCommit(r) ==
    LET q == convReq[r] IN
    /\ q.pc = "commit"
    /\ specRow' = IF q.row # None THEN q.row ELSE specRow
    /\ changes' = changes \cup ({q.row} \ {None})
    /\ convs' = convs \cup ({q.conv} \ {None})
    /\ convEdges' = convEdges \cup q.edges
    /\ explains' = explains \cup q.explains
    /\ finds' = {f \in finds : f.id \notin q.gone} \cup ({q.new} \ {None})
    /\ findEdges' = IF q.pass = None THEN findEdges ELSE FindingEdgesAfter(q)
    /\ ConvGo(r, ConvIdle)
    /\ UNCHANGED nextLog

ConvNext ==
    \/ AmendStage
    \/ \E r \in Requests :
         \/ StageHandler(r) \/ RecordConversationRequest(r) \/ ApproveReject(r)
         \/ RecordConversation(r) \/ RecordConversationTail(r)
         \/ RecordConversationInsert(r)
         \/ StoreFindingsRequest(r) \/ StoreFindings(r) \/ StoreFindingsDelete(r)
         \/ StoreFindingsInsert(r)
         \/ ConvCommit(r) \/ ConvFail(r)

ConvSpec == ConvInit /\ [][ConvNext]_convVars
-----------------------------------------------------------------------------
(***************************************************************************)
(* Safety.                                                                 *)
(***************************************************************************)

\* Concurrent recordings may fork the chain, but none falls off it: every
\* conversation has one predecessor, a committed and older one or the spec.
ConversationsChained ==
    \A c \in convs :
        \E e \in convEdges :
            /\ e.to = c.id
            /\ e.type = "CONTINUES" => \E p \in convs : p.id = e.from /\ p.id < c.id
            /\ \A f \in convEdges : f.to = c.id => f = e

\* A conversation recorded by a stage handler explains the very transition of
\* its transaction, whatever other requests do to the spec meanwhile.
StageConversationExplains ==
    \A c \in convs : c.gate =>
        {e[2] : e \in {x \in explains : x[1] = c.id}}
            = {[version |-> c.version, stage |-> c.stage]}

\* Findings and HAS_FINDING edges match one to one, however replacements of
\* the findings of one pass and of other passes overlap.
FindingEdgesMatch == findEdges = {f.id : f \in finds}

\* conversation.go, findings.go: the log of a spec stays whole when recordings,
\* stage changes and replacements of findings overlap: no conversation falls off
\* the chain, each explains the transition it was recorded with, and findings
\* keep their edges.
LogWhole == ConversationsChained /\ StageConversationExplains /\ FindingEdgesMatch
=============================================================================
