---------------------------- MODULE ExportImport ----------------------------
(***************************************************************************)
(* Export of a project to a signed document, import of a document into a   *)
(* project, and the comparison Verify makes: internal/export/engine.go,    *)
(* internal/server/export_handler.go, cmd/specgraph/export.go.             *)
(*                                                                         *)
(* Import calls the storage operations one after the other with no         *)
(* surrounding transaction, so each is a step of its own that may fail,    *)
(* users may work on the project between two of them, and the server may   *)
(* stop there.                                                             *)
(*                                                                         *)
(* Left out: notes and the status of a slice (calls whose failure is a     *)
(* warning), and execution events.  A document holds events only of specs  *)
(* that were claimed once; claims are not in it, and RecordProgress and    *)
(* RecordBlocker refuse an agent without one, which is a warning.          *)
(***************************************************************************)
EXTENDS Handlers, Naturals

CONSTANTS
    XSpecs,      \* slugs of specs
    XDecs,       \* slugs of decisions
    XItems,      \* issues of an external tracker
    Ceiling,     \* for each spec, the funnel position it may reach
    Tended,      \* the specs that users link, analyse, discuss and synchronise
    Meanwhile    \* bound on what users do once a document was exported

\* Funnel positions; 8 stands for superseded and for abandoned.
stageOrder == [spark |-> 0, shape |-> 1, specify |-> 2, decompose |-> 3, approved |-> 4,
               in_progress |-> 5, review |-> 6, done |-> 7, superseded |-> 8, abandoned |-> 8]
Positions == {stageOrder[s] : s \in DOMAIN stageOrder}

XSpecRow == [stage : Positions, outs : 0 .. 4]

\* Users bring a spec no further than done; an absent row is no row.
ASSUME XAssumption ==
    /\ Ceiling \in [XSpecs -> 0 .. stageOrder.done]
    /\ Tended \subseteq XSpecs
    /\ Meanwhile \in Nat
    /\ None \notin XSpecRow /\ None \notin {"proposed", "accepted"}

\* The slug of the slice that the decompose output of spec s defines.
SliceOf(s) == <<s>>

\* The rows of the other tables, each the key that Verify compares.  A
\* conversation has the stage it is about and the version of the spec it was
\* recorded at; in this model a version is the stage at which it was reached.
Slice(s) == <<"slice", s>>
Edge(a, b) == <<"edge", a, b>>
Finding(s) == <<"finding", s>>
Conversation(s, about, at) == <<"conversation", s, about, at>>
Mapping(s, i) == <<"mapping", s, i>>

XNodes == XSpecs \cup XDecs \cup {SliceOf(s) : s \in XSpecs}
XRows == {Slice(s) : s \in XSpecs} \cup {Edge(a, b) : a, b \in XNodes}
           \cup {Finding(s) : s \in XSpecs}
           \cup {Conversation(s, about, at) : s \in XSpecs, about, at \in Positions}
           \cup {Mapping(s, i) : s \in XSpecs, i \in XItems}

VARIABLES
    xdb,     \* the project: spec rows, statuses of decisions, the other rows
    xfile,   \* an exported document, None before the first export
    ximp,    \* the import under way, or the last one
    xfresh,  \* history: specs that users created since the import looked for data
    xgone,   \* history: rows that users took away since the import began
    xsteps   \* what users have done since the export

xHist == <<xfresh, xgone>>
xVars == <<xdb, xfile, ximp, xHist, xsteps>>

XProject == [specs : [XSpecs -> XSpecRow \cup {None}], decs : [XDecs -> {None, "proposed", "accepted"}],
             rows : SUBSET XRows]
XEmpty == [specs |-> [s \in XSpecs |-> None], decs |-> [d \in XDecs |-> None], rows |-> {}]

Present(f) == {x \in DOMAIN f : f[x] # None}
OfKind(rows, kind) == {r \in rows : r[1] = kind}

\* The changelog, by slug and version.  A spec has an entry for its creation and
\* one for each transition, a decision for its creation and its acceptance.
changelog(db) ==
    {l \in Present(db.specs) \X Positions : l[2] <= db.specs[l[1]].stage}
      \cup (Present(db.decs) \X {0}) \cup ({d \in XDecs : db.decs[d] = "accepted"} \X {1})

\* collect: everything of the project, the changelog entries of specs and of
\* decisions included (ListAllChanges selects by project alone).
collect(db) == [data |-> db, logs |-> changelog(db), schema |-> 2, signed |-> "valid"]
Document == [data : XProject, logs : SUBSET ((XSpecs \cup XDecs) \X Positions),
             schema : 1 .. 3, signed : {"valid", "none", "broken"}]

XIdle == [pc |-> "idle", todo |-> {}, cur |-> None, warned |-> FALSE]
XImport == [pc : {"idle", "wipe", "layers", "create", "replay", "transition", "decision", "status",
                  "slice", "edge", "finding", "conversation", "mapping", "ok", "error"},
            todo : SUBSET (XSpecs \cup XDecs \cup XRows), cur : XSpecs \cup XDecs \cup {None},
            warned : BOOLEAN]

XTypeOK ==
    /\ xdb \in XProject
    /\ xfile \in Document \cup {None}
    /\ ximp \in XImport
    /\ xfresh \subseteq XSpecs /\ xgone \subseteq XRows
    /\ xsteps \in 0 .. Meanwhile

XInit == /\ xdb = XEmpty /\ xfile = None /\ ximp = XIdle
         /\ xfresh = {} /\ xgone = {} /\ xsteps = 0

----------------------------------------------------------------------------
(* Users of the project: what the other modules detail, in one step each.  *)

XUser ==
    /\ xfile # None => xsteps < Meanwhile
    /\ xsteps' = IF xfile = None THEN 0 ELSE xsteps + 1
    /\ UNCHANGED <<xfile, ximp>>

XCreateSpec(s) ==
    /\ xdb.specs[s] = None
    /\ xdb' = [xdb EXCEPT !.specs[s] = [stage |-> 0, outs |-> 1]]
    /\ xfresh' = IF ximp.pc \in {"idle", "error"} THEN xfresh ELSE xfresh \cup {s}
    /\ UNCHANGED xgone /\ XUser

\* What a stage of the funnel adds beside the spec's row: a shape links the
\* decisions D, a decomposition creates the slice.
StageRows(s, k, D) ==
    {Edge(s, d) : d \in D}
      \cup (IF k = stageOrder.decompose THEN {Slice(s), Edge(SliceOf(s), s)} ELSE {})

\* A decision that a shape output names is created unless it exists.
Promoted(decs, D) == [d \in XDecs |-> IF d \in D /\ decs[d] = None THEN "proposed" ELSE decs[d]]

\* A stage of the funnel: its output is stored, and the spec moves on.
XAdvance(s) ==
    /\ xdb.specs[s] # None
    /\ LET k == xdb.specs[s].stage + 1 IN
       /\ k <= Ceiling[s]
       /\ \E D \in IF k = stageOrder.shape THEN SUBSET XDecs ELSE {{}} :
            xdb' = [specs |-> [xdb.specs EXCEPT ![s] = [stage |-> k, outs |-> IF k <= 3 THEN k + 1 ELSE 4]],
                    decs |-> Promoted(xdb.decs, D),
                    rows |-> xdb.rows \cup StageRows(s, k, D)]
    /\ UNCHANGED xHist /\ XUser

XCreateDecision(d) ==
    /\ xdb.decs[d] = None
    /\ \E st \in {"proposed", "accepted"} : xdb' = [xdb EXCEPT !.decs[d] = st]
    /\ UNCHANGED xHist /\ XUser

\* A row that users add, or take away.
XAdd(r) ==
    /\ xdb' = [xdb EXCEPT !.rows = @ \cup {r}]
    /\ UNCHANGED xHist /\ XUser
XTakeAway(r) ==
    /\ r \in xdb.rows
    /\ xdb' = [xdb EXCEPT !.rows = @ \ {r}]
    /\ xgone' = IF ximp.pc = "idle" THEN xgone ELSE xgone \cup {r}
    /\ UNCHANGED xfresh /\ XUser

\* The AddEdge and RemoveEdge requests.
XAddEdge(s, t) ==
    /\ xdb.specs[s] # None /\ xdb.specs[t] # None /\ s # t /\ s \in Tended
    /\ XAdd(Edge(s, t))
XRemoveEdge(s, t) == XTakeAway(Edge(s, t))

\* StoreFindings replaces the findings of a pass, with none it may be.
XStoreFindings(s) ==
    /\ xdb.specs[s] # None /\ s \in Tended
    /\ XAdd(Finding(s)) \/ XTakeAway(Finding(s))

\* RecordConversation; one for each spec is enough here.
XTalk(s) ==
    /\ xdb.specs[s] # None /\ s \in Tended
    /\ \A r \in OfKind(xdb.rows, "conversation") : r[2] # s
    /\ XAdd(Conversation(s, xdb.specs[s].stage, xdb.specs[s].stage))

\* One mapping for each spec and adapter.
Mapped(s) == \E i \in XItems : Mapping(s, i) \in xdb.rows
XMap(s, i) ==
    /\ xdb.specs[s] # None /\ s \in Tended /\ ~Mapped(s)
    /\ XAdd(Mapping(s, i))

----------------------------------------------------------------------------
(* Export, and a document that did not come straight from this server.     *)

\* A document that a server without a signing key, a person or another version
\* wrote: unsigned, with a signature that no longer matches, of another schema,
\* or unsigned and without what validateRefs refuses.
Retouched(doc) ==
    {[doc EXCEPT !.signed = "none"], [doc EXCEPT !.signed = "broken"], [doc EXCEPT !.schema = 3],
     [doc EXCEPT !.signed = "none", !.logs = @ \cap (XSpecs \X Positions),
         !.data.rows = @ \ {Edge(SliceOf(s), s) : s \in XSpecs}]}

Export ==
    /\ xfile = None
    /\ \E doc \in {collect(xdb)} \cup Retouched(collect(xdb)) : xfile' = doc
    /\ UNCHANGED <<xdb, ximp, xHist, xsteps>>

----------------------------------------------------------------------------
(* Import.                                                                 *)

\* A server without a key cannot verify a signature and takes it as it is.
verifySignature(doc, requireSig, hasKey) ==
    IF doc.signed = "none" THEN ~requireSig ELSE hasKey => doc.signed = "valid"

\* Edges join specs and decisions, everything else belongs to a spec.
validateRefs(doc) ==
    LET specSlugs == Present(doc.data.specs)
        slugs == specSlugs \cup Present(doc.data.decs)
    IN /\ \A r \in doc.data.rows : IF r[1] = "edge" THEN r[2] \in slugs /\ r[3] \in slugs
                                                    ELSE r[2] \in specSlugs
       /\ \A l \in doc.logs : l[1] \in specSlugs

Acceptable(doc, requireSig, hasKey) ==
    doc.schema <= 2 /\ verifySignature(doc, requireSig, hasKey) /\ validateRefs(doc)

XBusy == ximp.pc \notin {"idle", "ok", "error"}

\* Mutant: force only lifts the refusal.
ImportWithoutWipe ==
    /\ ~XBusy /\ xfile # None
    /\ \E force, requireSig, hasKey \in BOOLEAN :
         LET next == IF ~Acceptable(xfile, requireSig, hasKey) \/ (Present(xdb.specs) # {} /\ ~force)
                     THEN "error" ELSE "layers"
         IN ximp' = [XIdle EXCEPT !.pc = next]
    /\ xfresh' = {} /\ xgone' = {}
    /\ UNCHANGED <<xdb, xfile, xsteps>>

Import ==
    /\ ~XBusy /\ xfile # None
    /\ \E force, requireSig, hasKey \in BOOLEAN :
         LET existing == Present(xdb.specs)
             next == IF ~Acceptable(xfile, requireSig, hasKey) \/ (existing # {} /\ ~force) THEN "error"
                     ELSE IF existing # {} THEN "wipe" ELSE "layers"
         IN ximp' = [XIdle EXCEPT !.pc = next]
    /\ xfresh' = {} /\ xgone' = {}
    /\ UNCHANGED <<xdb, xfile, xsteps>>

XAt(pc) == ximp.pc = pc /\ UNCHANGED <<xfile, xsteps>>

WipeProjectData ==
    /\ XAt("wipe")
    /\ xdb' = XEmpty
    /\ xfresh' = {} /\ xgone' = {}
    /\ ximp' = [ximp EXCEPT !.pc = "layers"]

Fail == ximp' = [XIdle EXCEPT !.pc = "error"] /\ UNCHANGED xdb

\* The loops of writeEntities, and what each goes over.
After == [create |-> "decision", decision |-> "slice", slice |-> "edge", edge |-> "finding",
          finding |-> "conversation", conversation |-> "mapping", mapping |-> "ok"]
Entities(doc, loop) ==
    CASE loop = "create" -> Present(doc.data.specs)
      [] loop = "decision" -> Present(doc.data.decs)
      [] OTHER -> OfKind(doc.data.rows, loop)

\* EnsureProject, then the constitution layers in the field of their schema.
WriteLayers ==
    /\ XAt("layers") /\ UNCHANGED xHist
    /\ IF xfile.schema \in {1, 2}
       THEN ximp' = [ximp EXCEPT !.pc = "create", !.todo = Entities(xfile, "create")]
            /\ UNCHANGED xdb
       ELSE Fail

\* A loop is through and the next begins.
NextLoop ==
    /\ ximp.pc \in DOMAIN After /\ ximp.todo = {}
    /\ ximp' = [ximp EXCEPT !.pc = After[@], !.todo = Entities(xfile, After[ximp.pc]), !.cur = None]
    /\ UNCHANGED <<xdb, xfile, xHist, xsteps>>

\* CreateSpec: at spark whatever the stage in the document; an error aborts.
ImportCreateSpec ==
    /\ XAt("create") /\ UNCHANGED xHist
    /\ \E s \in ximp.todo :
         IF xdb.specs[s] # None THEN Fail
         ELSE /\ xdb' = [xdb EXCEPT !.specs[s] = [stage |-> 0, outs |-> 0]]
              /\ ximp' = [ximp EXCEPT !.pc = "replay", !.cur = s, !.todo = @ \ {s}]

\* Mutant: one output too many is stored.
OutputsLeftOffByOne(s) == xdb.specs[s].outs <= xfile.data.specs[s].outs

\* Whether the document has an output that was not stored yet.
OutputsLeft(s) == xdb.specs[s].outs < xfile.data.specs[s].outs

\* Store*Output, one call for each output the document holds.  They store the
\* output and leave the stage alone.  A shape output promotes its decisions
\* again; a decompose output comes slimmed of its slices and creates none.
Replay ==
    /\ XAt("replay") /\ UNCHANGED xHist
    /\ LET s == ximp.cur
           row == xdb.specs[s]
           D == {d \in XDecs : row.outs = 1 /\ Edge(s, d) \in xfile.data.rows}
       IN IF OutputsLeft(s)
          THEN /\ xdb' = [specs |-> [xdb.specs EXCEPT ![s] = [row EXCEPT !.outs = @ + 1]],
                          decs |-> Promoted(xdb.decs, D),
                          rows |-> xdb.rows \cup StageRows(s, stageOrder.shape, D)]
               /\ UNCHANGED ximp
          ELSE /\ ximp' = [ximp EXCEPT !.pc = IF xfile.data.specs[s].stage > stageOrder.decompose
                                              THEN "transition" ELSE "create"]
               /\ UNCHANGED xdb

\* TransitionStage, decompose -> approved and on to the stage in the document:
\* refused unless the spec is at decompose, and TransitionStage refuses whatever
\* leaves approved before it reads anything.
RestoreStage ==
    /\ XAt("transition") /\ UNCHANGED xHist
    /\ LET s == ximp.cur IN
       IF xdb.specs[s].stage # stageOrder.decompose THEN Fail
       ELSE /\ xdb' = [xdb EXCEPT !.specs[s] = [@ EXCEPT !.stage = stageOrder.approved]]
            /\ ximp' = IF xfile.data.specs[s].stage = stageOrder.approved
                       THEN [ximp EXCEPT !.pc = "create"] ELSE [XIdle EXCEPT !.pc = "error"]

\* CreateDecision refuses a slug that exists and the import stops there.
ImportDecision ==
    /\ XAt("decision") /\ UNCHANGED xHist
    /\ \E d \in ximp.todo :
         IF xdb.decs[d] # None THEN Fail
         ELSE /\ xdb' = [xdb EXCEPT !.decs[d] = "proposed"]
              /\ ximp' = [ximp EXCEPT !.pc = IF xfile.data.decs[d] = "proposed" THEN "decision" ELSE "status",
                                      !.cur = d, !.todo = @ \ {d}]

\* UpdateDecision with the status in the document; an error is a warning.
RestoreStatus ==
    /\ XAt("status") /\ UNCHANGED xHist
    /\ \/ /\ xdb' = [xdb EXCEPT !.decs[ximp.cur] = xfile.data.decs[ximp.cur]]
          /\ ximp' = [ximp EXCEPT !.pc = "decision"]
       \/ ximp' = [ximp EXCEPT !.pc = "decision", !.warned = TRUE] /\ UNCHANGED xdb

\* CreateSlice is a plain INSERT: a duplicate aborts the import.
ImportSlice ==
    /\ XAt("slice") /\ UNCHANGED xHist
    /\ \E r \in ximp.todo :
         IF r \in xdb.rows THEN Fail
         ELSE /\ xdb' = [xdb EXCEPT !.rows = @ \cup {r, Edge(SliceOf(r[2]), r[2])}]
              /\ ximp' = [ximp EXCEPT !.todo = @ \ {r}]

XNode(n) == \/ n \in Present(xdb.specs) \cup Present(xdb.decs)
            \/ \E s \in XSpecs : n = SliceOf(s) /\ Slice(s) \in xdb.rows

\* AddEdge wants both ends, CreateSyncMapping a spec without a mapping.
Refused(r) == \/ r[1] = "edge" /\ ~(XNode(r[2]) /\ XNode(r[3]))
              \/ r[1] = "mapping" /\ Mapped(r[2])

\* RecordConversation records the version that the spec has now.
Written(r) ==
    IF r[1] = "conversation" THEN Conversation(r[2], r[3], xdb.specs[r[2]].stage) ELSE r

\* A loop whose calls may be refused or fail: that is a warning and it goes on.
ImportRows(loop) ==
    /\ XAt(loop) /\ UNCHANGED xHist
    /\ \E r \in ximp.todo :
         \/ /\ ~Refused(r)
            /\ xdb' = [xdb EXCEPT !.rows = @ \cup {Written(r)}]
            /\ ximp' = [ximp EXCEPT !.todo = @ \ {r}]
         \/ ximp' = [ximp EXCEPT !.todo = @ \ {r}, !.warned = TRUE] /\ UNCHANGED xdb

ImportEdge == ImportRows("edge")
ImportFinding == ImportRows("finding")
ImportConversation == ImportRows("conversation")
ImportMapping == ImportRows("mapping")

\* The server stops, the caller goes away, or a call fails whose error aborts.
ImportStops ==
    /\ XBusy
    /\ Fail
    /\ UNCHANGED <<xfile, xHist, xsteps>>

XNext ==
    \/ \E s \in XSpecs : XCreateSpec(s) \/ XAdvance(s) \/ XStoreFindings(s) \/ XTalk(s)
    \/ \E d \in XDecs : XCreateDecision(d)
    \/ \E s, t \in XSpecs : XAddEdge(s, t)
    \/ \E s \in XSpecs, t \in XSpecs \cup XDecs : XRemoveEdge(s, t)
    \/ \E s \in XSpecs, i \in XItems : XMap(s, i)
    \/ Export \/ Import
    \/ WipeProjectData \/ WriteLayers \/ NextLoop \/ ImportCreateSpec \/ Replay \/ RestoreStage
    \/ ImportDecision \/ RestoreStatus \/ ImportSlice \/ ImportEdge \/ ImportFinding
    \/ ImportConversation \/ ImportMapping \/ ImportStops

ImportSpec == XInit /\ [][XNext]_xVars

----------------------------------------------------------------------------
(* Verify compares the keys of each kind of entity.                        *)

compareBySlug(provided, current) ==
    [missing |-> provided \ current, extra |-> current \ provided]

CompareKind(doc, db, kind) == compareBySlug(OfKind(doc.data.rows, kind), OfKind(db.rows, kind))

Verify(doc, db) ==
    [specs |-> compareBySlug(Present(doc.data.specs), Present(db.specs)),
     decisions |-> compareBySlug(Present(doc.data.decs), Present(db.decs)),
     slices |-> CompareKind(doc, db, "slice"),
     edges |-> CompareKind(doc, db, "edge"),
     findings |-> CompareKind(doc, db, "finding"),
     changelogs |-> compareBySlug(doc.logs, changelog(db)),
     conversations |-> CompareKind(doc, db, "conversation"),
     mappings |-> CompareKind(doc, db, "mapping")]

\* engine.go Import, writeEntities: when an import returns without an error and
\* without a warning, Verify finds every spec, decision, slice and mapping of the
\* document, and every edge and finding that no user took away meanwhile.  It
\* does report changelog entries and conversations as missing: of the changelog
\* an import writes only what its own calls log, so that the entry of a spec's
\* creation is there again and the later ones are not; a conversation is there
\* again under the version that the spec has now.
CleanImportRestores ==
    (ximp.pc = "ok" /\ ~ximp.warned) =>
        /\ Verify(xfile, xdb).specs.missing = {}
        /\ Verify(xfile, xdb).decisions.missing = {}
        /\ Verify(xfile, xdb).slices.missing = {}
        /\ Verify(xfile, xdb).mappings.missing = {}
        /\ Verify(xfile, xdb).edges.missing \subseteq xgone
        /\ Verify(xfile, xdb).findings.missing \subseteq xgone
        /\ \A l \in Verify(xfile, xdb).changelogs.missing : l[2] > 0
        /\ \A c \in Verify(xfile, xdb).conversations.missing :
             \E at \in Positions : Conversation(c[2], c[3], at) \in xdb.rows

\* engine.go Import: an import never mixes two projects.  Once it has returned
\* without an error, every spec of the project is one of the document or one that
\* a user created after the import had looked for data.
ImportNeverMixes ==
    ximp.pc = "ok" => Present(xdb.specs) \subseteq Present(xfile.data.specs) \cup xfresh

\* engine.go Import: what a clean import leaves is the document, but for most of
\* its changelog and the versions of its conversations, and what users did
\* meanwhile; nothing of an earlier project survives a forced import.
ImportSound == CleanImportRestores /\ ImportNeverMixes

\* engine.go:455 "After Store*Output calls, the spec is at the stage following the
\* last stored output": a spec that a clean import wrote is as far in the funnel
\* as the document says.
CleanImportRestoresStage ==
    (ximp.pc = "ok" /\ ~ximp.warned)
        => \A s \in Present(xfile.data.specs) : xdb.specs[s].stage >= xfile.data.specs[s].stage
=============================================================================
