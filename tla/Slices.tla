------------------------------- MODULE Slices -------------------------------
(***************************************************************************)
(* The slices of a decomposed spec: StoreDecomposeOutput reconciles them   *)
(* with a new decomposition while agents claim and complete slices and     *)
(* clients add and remove edges: internal/storage/postgres/authoring.go,   *)
(* slice.go and graph.go.                                                  *)
(*                                                                         *)
(* A Decompose holds the row of its spec from its stage UPDATE to its      *)
(* commit.  It deletes the edges of the slices it prunes by statements of  *)
(* their own, which see only what is committed by then, so that is one     *)
(* step and the commit is another.  A slice row is touched by single       *)
(* guarded UPDATEs otherwise.                                              *)
(*                                                                         *)
(* One spec is modelled: two specs share no slice.  A slice is known by    *)
(* its ID, and depends_on stands for the whole body of it.                 *)
(***************************************************************************)
EXTENDS Handlers, FiniteSets

CONSTANTS
    Ids,           \* slice IDs a decomposition may use
    Agents,
    Parent,        \* the spec, as a node of the graph
    Project,       \* the project, as a node of the graph
    Outside,       \* nodes of other specs and decisions
    ClientEdges    \* edges that clients add and remove: <<from, to, type>>

Nodes == Ids \cup {Parent, Project} \cup Outside
EdgeType == {"BELONGS_TO", "COMPOSES", "DEPENDS_ON"}
Edge == Nodes \X Nodes \X EdgeType

\* EdgeType.IsValid refuses BELONGS_TO.
ASSUME ClientEdgesAssumption ==
    \A e \in ClientEdges : e \in Edge /\ e[3] # "BELONGS_TO"
ASSUME NodesAssumption ==
    /\ None \notin Agents
    /\ {Parent, Project} \cap Ids = {} /\ Outside \cap Ids = {}
    /\ Parent # Project

SliceStatus == {"none", "open", "claimed", "done"}
Slice == [status : SliceStatus, assignee : Agents \cup {None},
          dependsOn : SUBSET Ids]
NoSlice == [status |-> "none", assignee |-> None, dependsOn |-> {}]

\* A decomposition: the IDs it has, and what each depends on.
Decomposition == [ids : SUBSET Ids, deps : [Ids -> SUBSET Ids]]
Empty == [ids |-> {}, deps |-> [i \in Ids |-> {}]]

VARIABLES
    stage,     \* the spec's stage
    listed,    \* decompose_output.SliceSlugs of the spec
    slices,    \* the row of each slice
    edges,     \* rows of edges that touch a slice
    req,       \* what each request is doing
    manual     \* history: edges that a client added or removed

vars == <<stage, listed, slices, edges, req, manual>>

\* out and gone: a Decompose's input and the edges it has deleted so far.
Request == [pc : {"idle", "commit", "insert"}, out : Decomposition,
            gone : SUBSET Edge, edge : ClientEdges \cup {<<>>}]
Idle == [pc |-> "idle", out |-> Empty, gone |-> {}, edge |-> <<>>]

TypeOK ==
    /\ stage \in {"specify", "decompose", "approved"}
    /\ listed \subseteq Ids
    /\ slices \in [Ids -> Slice]
    /\ edges \subseteq Edge
    /\ req \in [Requests -> Request]
    /\ manual \subseteq ClientEdges

Rows == {i \in Ids : slices[i].status # "none"}

\* The spec has been specified and never decomposed.
Init ==
    /\ stage = "specify"
    /\ listed = {}
    /\ slices = [i \in Ids |-> NoSlice]
    /\ edges = {}
    /\ req = [r \in Requests |-> Idle]
    /\ manual = {}
-----------------------------------------------------------------------------
(***************************************************************************)
(* Decompose.                                                              *)
(***************************************************************************)
Touching(ids) == {e \in Edge : e[1] \in ids \/ e[2] \in ids}

\* The slices that the new decomposition no longer has.
Stale(out) == listed \ out.ids

\* TransitionStage's guarded UPDATE, then the edges of the pruned slices.
Decompose(r) ==
    /\ req[r].pc = "idle"
    /\ stage = "specify"
    /\ \A q \in Requests : req[q].pc # "commit"
    /\ \E ids \in SUBSET Ids : \E d \in [ids -> SUBSET Ids] :
         LET out == [ids |-> ids,
                     deps |-> [i \in Ids |-> IF i \in ids THEN d[i] ELSE {}]]
         IN  req' = [req EXCEPT ![r] =
                       [pc |-> "commit", out |-> out, edge |-> <<>>,
                        gone |-> edges \cap Touching(Stale(out))]]
    /\ UNCHANGED <<stage, listed, slices, edges, manual>>

CreateSlice(deps) == [status |-> "open", assignee |-> None, dependsOn |-> deps]

\* Mutant: the row is replaced.
UpdateSliceReset(row, deps) == CreateSlice(deps)

\* Status and assignee are left alone.
UpdateSlice(row, deps) == [row EXCEPT !.dependsOn = deps]

Reconciled(out) ==
    [i \in Ids |->
       IF i \in out.ids
       THEN IF i \in Rows THEN UpdateSlice(slices[i], out.deps[i])
                          ELSE CreateSlice(out.deps[i])
       ELSE IF i \in Stale(out) THEN NoSlice ELSE slices[i]]

\* BELONGS_TO and COMPOSES of the slices that are created.
OwnEdges(out) ==
    {<<i, Project, "BELONGS_TO">> : i \in out.ids \ Rows}
        \cup {<<i, Parent, "COMPOSES">> : i \in out.ids \ Rows}

\* Mutant: nothing is cleared.
OldDependsOnKept(out) == {}

OldDependsOn(out) ==
    {e \in edges : e[1] \in out.ids /\ e[3] = "DEPENDS_ON"}

NewDependsOn(out) ==
    UNION {{<<i, j, "DEPENDS_ON">> : j \in out.deps[i]} : i \in out.ids}

\* Mutant: only the slices that were created are listed.
StoredSlugsCreated(out) == out.ids \ Rows

StoredSlugs(out) == out.ids

\* A dependency must be a sibling of the same decomposition, and a slice
\* that is pruned must be there.
Accepted(out) ==
    /\ \A i \in out.ids : out.deps[i] \subseteq out.ids
    /\ Stale(out) \subseteq Rows

Finish(r) == req' = [req EXCEPT ![r] = Idle]

\* The rest of StoreDecomposeOutput and the commit.
DecomposeCommit(r) ==
    LET out == req[r].out IN
    /\ req[r].pc = "commit"
    /\ Accepted(out)
    /\ stage' = "decompose"
    /\ listed' = StoredSlugs(out)
    /\ slices' = Reconciled(out)
    /\ edges' = ((edges \ (req[r].gone \cup OldDependsOn(out))) \cup OwnEdges(out))
                    \cup NewDependsOn(out)
    /\ Finish(r)
    /\ UNCHANGED manual

\* A refused decomposition, or a statement that fails: all is rolled back.
Rollback(r) ==
    /\ req[r].pc # "idle"
    /\ Finish(r)
    /\ UNCHANGED <<stage, listed, slices, edges, manual>>

\* The spec goes on, and is sent back to be decomposed again.  Neither touches
\* a slice; what else they write is in SpecLifecycle.
Approve ==
    /\ stage = "decompose"
    /\ stage' = "approved"
    /\ UNCHANGED <<listed, slices, edges, req, manual>>

LifecycleAmendSpec ==
    /\ stage = "approved"
    /\ stage' = "specify"
    /\ UNCHANGED <<listed, slices, edges, req, manual>>
-----------------------------------------------------------------------------
(***************************************************************************)
(* Agents and clients.                                                     *)
(***************************************************************************)
\* Mutant: the stage's name is written for the status.
ClaimSliceInProgress(i, a) ==
    /\ slices[i].status = "open"
    /\ slices' = [slices EXCEPT ![i] = [@ EXCEPT !.status = "in_progress",
                                                 !.assignee = a]]
    /\ UNCHANGED <<stage, listed, edges, req, manual>>

ClaimSlice(i, a) ==
    /\ slices[i].status = "open"
    /\ slices' = [slices EXCEPT ![i] = [@ EXCEPT !.status = "claimed",
                                                 !.assignee = a]]
    /\ UNCHANGED <<stage, listed, edges, req, manual>>

CompleteSlice(i) ==
    /\ slices[i].status = "claimed"
    /\ slices' = [slices EXCEPT ![i] = [@ EXCEPT !.status = "done"]]
    /\ UNCHANGED <<stage, listed, edges, req, manual>>

nodeExists(n) == n \in Rows \cup {Parent} \cup Outside

\* AddEdge's checks, then its INSERT ... ON CONFLICT DO NOTHING, which waits
\* for a transaction that has deleted the same edge.
AddEdge(r) ==
    /\ req[r].pc = "idle"
    /\ \E e \in ClientEdges :
         /\ nodeExists(e[1]) /\ nodeExists(e[2])
         /\ req' = [req EXCEPT ![r] = [Idle EXCEPT !.pc = "insert", !.edge = e]]
    /\ UNCHANGED <<stage, listed, slices, edges, manual>>

AddEdgeInsert(r) ==
    LET e == req[r].edge IN
    /\ req[r].pc = "insert"
    /\ \A q \in Requests : e \notin req[q].gone
    /\ edges' = edges \cup {e}
    /\ manual' = manual \cup {e}
    /\ Finish(r)
    /\ UNCHANGED <<stage, listed, slices>>

RemoveEdge(e) ==
    /\ e \in edges
    /\ \A q \in Requests : e \notin req[q].gone
    /\ edges' = edges \ {e}
    /\ manual' = manual \cup {e}
    /\ UNCHANGED <<stage, listed, slices, req>>
-----------------------------------------------------------------------------
Next ==
    \/ \E r \in Requests :
         \/ Decompose(r) \/ DecomposeCommit(r) \/ AddEdge(r) \/ AddEdgeInsert(r)
         \/ Rollback(r)
    \/ Approve \/ LifecycleAmendSpec
    \/ \E i \in Ids : CompleteSlice(i) \/ \E a \in Agents : ClaimSlice(i, a)
    \/ \E e \in ClientEdges : RemoveEdge(e)

Spec == Init /\ [][Next]_vars
-----------------------------------------------------------------------------
(***************************************************************************)
(* Safety.                                                                 *)
(***************************************************************************)

\* The spec's stored output lists exactly the slices there are: pruning goes
\* by that list, so a slice it forgot would never be pruned, and one it has
\* too many would make every later decomposition fail.
ListedSlicesExist == listed = Rows

\* A slice depends only on slices that exist, whatever was pruned since it
\* was made.
DependenciesExist == \A i \in Rows : slices[i].dependsOn \subseteq Rows

\* authoring.go StoreDecomposeOutput: however often a spec is decomposed again,
\* neither its stored list of slices nor a slice's dependencies name a slice that
\* was pruned, and no slice is left out of the list.
SliceReferencesExist == ListedSlicesExist /\ DependenciesExist

\* The DEPENDS_ON edges between the slices are those of the current
\* decomposition, but for the ones a client added or removed.
SiblingEdgesAgree ==
    \A i, j \in Ids :
        <<i, j, "DEPENDS_ON">> \notin manual
            => (<<i, j, "DEPENDS_ON">> \in edges <=> j \in slices[i].dependsOn)

\* Re-decomposition does not undo work: as long as a slice is kept its status
\* only goes forward, and who claimed it stays its assignee.
WorkKept ==
    [][\A i \in Rows :
         slices'[i].status # "none"
             => /\ slices[i].status = "done" => slices'[i].status = "done"
                /\ slices[i].status = "claimed" => slices'[i].status # "open"
                /\ slices[i].assignee # None
                       => slices'[i].assignee = slices[i].assignee]_vars
=============================================================================
