---------------------------- MODULE SlicesProofs ----------------------------
(***************************************************************************)
(* A re-decomposition leaves a consistent set of slices, for any number of *)
(* slice IDs, agents and concurrent requests.                              *)
(***************************************************************************)
EXTENDS Slices, TLAPS

\* What the commit of a Decompose relies on: the spec's row is its own, the
\* edges it has deleted touch pruned slices only, and no edge of a pruned
\* slice has come since but by a client's hand.
PruneOK ==
    \A r \in Requests :
        /\ req[r].pc # "commit" => req[r].gone = {}
        /\ req[r].pc = "commit" =>
             /\ stage = "specify"
             /\ \A q \in Requests : req[q].pc = "commit" => q = r
             /\ req[r].gone \subseteq Touching(listed \ req[r].out.ids)
             /\ (edges \cap Touching(listed \ req[r].out.ids)) \ manual
                    \subseteq req[r].gone

\* Whoever is about to insert an edge has one to insert.
InsertOK == \A r \in Requests : req[r].pc = "insert" => req[r].edge \in ClientEdges

\* A slice that has no row has no dependencies either.
BareSlices == \A i \in Ids : i \notin Rows => slices[i] = NoSlice

\* An open slice is nobody's.
OpenFree == \A i \in Ids : slices[i].status = "open" => slices[i].assignee = None

IInv ==
    /\ OpenFree
    /\ TypeOK /\ PruneOK /\ InsertOK /\ BareSlices
    /\ ListedSlicesExist /\ DependenciesExist /\ SiblingEdgesAgree

\* The idle request and a request that was given a new value are requests.
LEMMA IdleType == Idle \in Request /\ NoSlice \in Slice
BY DEF Idle, Request, Empty, Decomposition, NoSlice, Slice, SliceStatus

\* The invariant holds before the first decomposition.
LEMMA InitIInv == Init => IInv
<1> SUFFICES ASSUME Init PROVE IInv
  OBVIOUS
<1>1. TypeOK
  BY IdleType DEF Init, TypeOK
<1>2. Rows = {}
  BY DEF Init, Rows, NoSlice
<1>3. PruneOK /\ InsertOK
  BY DEF Init, PruneOK, InsertOK, Idle
<1>4. BareSlices /\ ListedSlicesExist /\ DependenciesExist /\ OpenFree
  BY <1>2 DEF NoSlice, OpenFree, Init, BareSlices, ListedSlicesExist, DependenciesExist
<1>5. SiblingEdgesAgree
  BY DEF Init, SiblingEdgesAgree, NoSlice
<1> QED
  BY <1>1, <1>3, <1>4, <1>5 DEF IInv

-----------------------------------------------------------------------------
(***************************************************************************)
(* The commit of a Decompose.                                              *)
(***************************************************************************)

\* What the rows are after the commit.
LEMMA ReconciledRows ==
    ASSUME IInv, NEW out \in Decomposition, slices' = Reconciled(out)
    PROVE  /\ slices' \in [Ids -> Slice]
           /\ Rows' = out.ids
           /\ \A i \in out.ids : slices'[i].dependsOn = out.deps[i]
           /\ \A i \in Ids \ out.ids : slices'[i] = NoSlice
           /\ OpenFree'
<1> USE DEF IInv, TypeOK
<1>1. \A i \in Ids : slices[i] \in Slice /\ out.deps[i] \subseteq Ids
  BY DEF Decomposition
<1>2. ASSUME NEW i \in out.ids
      PROVE  /\ slices'[i] \in Slice
             /\ slices'[i].status # "none"
             /\ slices'[i].dependsOn = out.deps[i]
             /\ slices'[i].status = "open" => slices'[i].assignee = None
  <2>1. i \in Ids
    BY DEF Decomposition
  <2>2. CASE i \in Rows
    <3>1. slices'[i] = [slices[i] EXCEPT !.dependsOn = out.deps[i]]
      BY <2>1, <2>2 DEF Reconciled, UpdateSlice
    <3>2. slices[i].status # "none"
      BY <2>2 DEF Rows
    <3> QED
      BY <1>1, <2>1, <3>1, <3>2 DEF Slice, OpenFree
  <2>3. CASE i \notin Rows
    <3>1. slices'[i] = CreateSlice(out.deps[i])
      BY <2>1, <2>3 DEF Reconciled
    <3> QED
      BY <1>1, <2>1, <3>1 DEF CreateSlice, Slice, SliceStatus
  <2> QED
    BY <2>2, <2>3
<1>3. ASSUME NEW i \in Ids \ out.ids PROVE slices'[i] = NoSlice
  <2>1. CASE i \in Stale(out)
    BY <2>1 DEF Reconciled
  <2>2. CASE i \notin Stale(out)
    BY <2>2 DEF Reconciled, Stale, ListedSlicesExist, BareSlices
  <2> QED
    BY <2>1, <2>2
<1>4. slices' \in [Ids -> Slice]
  <2>1. slices' = [i \in Ids |-> slices'[i]]
    BY DEF Reconciled
  <2>2. \A i \in Ids : slices'[i] \in Slice
    BY <1>2, <1>3, IdleType
  <2> QED
    BY <2>1, <2>2
<1>5. Rows' = out.ids
  BY <1>2, <1>3 DEF Rows, NoSlice, Decomposition
<1>6. OpenFree'
  BY <1>2, <1>3 DEF OpenFree, NoSlice
<1> QED
  BY <1>2, <1>3, <1>4, <1>5, <1>6

\* The commit of a Decompose keeps the invariant.
LEMMA CommitIInv ==
    ASSUME IInv, NEW r \in Requests, DecomposeCommit(r)
    PROVE  IInv'
<1> DEFINE out == req[r].out
<1>1. /\ out \in Decomposition /\ req[r] \in Request
      /\ req[r].pc = "commit" /\ Accepted(out)
      /\ slices' = Reconciled(out) /\ listed' = out.ids /\ stage' = "decompose"
      /\ manual' = manual
      /\ req' = [req EXCEPT ![r] = Idle]
      /\ edges' = ((edges \ (req[r].gone \cup OldDependsOn(out))) \cup OwnEdges(out))
                     \cup NewDependsOn(out)
  BY DEF IInv, TypeOK, Request, DecomposeCommit, Finish, StoredSlugs
<1> HIDE DEF out
<1>2. /\ slices' \in [Ids -> Slice]
      /\ Rows' = out.ids
      /\ \A i \in out.ids : slices'[i].dependsOn = out.deps[i]
      /\ \A i \in Ids \ out.ids : slices'[i] = NoSlice
      /\ OpenFree'
  BY <1>1, ReconciledRows
<1>3. out.ids \subseteq Ids /\ \A i \in out.ids : out.deps[i] \subseteq out.ids
  BY <1>1 DEF Decomposition, Accepted
<1>4. TypeOK'
  <2>1. edges' \subseteq Edge
    <3>1. OwnEdges(out) \subseteq Edge
      BY <1>3 DEF OwnEdges, Edge, Nodes, EdgeType
    <3>2. NewDependsOn(out) \subseteq Edge
      BY <1>3 DEF NewDependsOn, Edge, Nodes, EdgeType
    <3> QED
      BY <1>1, <3>1, <3>2 DEF IInv, TypeOK
  <2>2. req' \in [Requests -> Request]
    BY <1>1, IdleType DEF IInv, TypeOK
  <2> QED
    BY <1>1, <1>2, <1>3, <2>1, <2>2 DEF TypeOK, IInv
<1>5. PruneOK'
  <2>1. \A q \in Requests : req'[q].pc # "commit" /\ req'[q].gone = {}
    BY <1>1 DEF IInv, PruneOK, TypeOK, Idle
  <2> QED
    BY <2>1 DEF PruneOK
<1>6. BareSlices' /\ ListedSlicesExist'
  BY <1>1, <1>2 DEF BareSlices, ListedSlicesExist
<1>9. InsertOK'
  BY <1>1 DEF IInv, InsertOK, TypeOK, Idle
<1>7. DependenciesExist'
  BY <1>2, <1>3 DEF DependenciesExist
<1>8. SiblingEdgesAgree'
  <2> SUFFICES ASSUME NEW i \in Ids, NEW j \in Ids,
                      <<i, j, "DEPENDS_ON">> \notin manual
               PROVE  <<i, j, "DEPENDS_ON">> \in edges' <=> j \in slices'[i].dependsOn
    BY <1>1 DEF SiblingEdgesAgree
  <2> DEFINE e == <<i, j, "DEPENDS_ON">>
  <2>1. e \notin OwnEdges(out)
    BY DEF OwnEdges
  <2>2. e \in NewDependsOn(out) <=> i \in out.ids /\ j \in out.deps[i]
    BY DEF NewDependsOn
  <2>3. CASE i \in out.ids
    <3>1. e \in edges => e \in OldDependsOn(out)
      BY <2>3 DEF OldDependsOn
    <3> QED
      BY <1>1, <1>2, <2>1, <2>2, <2>3, <3>1
  <2>4. CASE i \notin out.ids
    <3>1. slices'[i].dependsOn = {}
      BY <1>2, <2>4 DEF NoSlice
    <3>2. ASSUME e \in edges PROVE e \in req[r].gone
      <4>1. j \in slices[i].dependsOn
        BY <3>2 DEF IInv, SiblingEdgesAgree
      <4>2. i \in Rows
        BY <4>1 DEF IInv, BareSlices, NoSlice
      <4>3. i \in Stale(out)
        BY <4>2, <2>4 DEF IInv, ListedSlicesExist, Stale
      <4>4. e \in Edge
        BY DEF Edge, Nodes, EdgeType
      <4>5. e \in Touching(Stale(out))
        BY <4>3, <4>4 DEF Touching
      <4>6. (edges \cap Touching(Stale(out))) \ manual \subseteq req[r].gone
        BY <1>1 DEF IInv, PruneOK, out, Stale
      <4> QED
        BY <3>2, <4>5, <4>6
    <3> QED
      BY <1>1, <2>1, <2>2, <2>4, <3>1, <3>2
  <2> QED
    BY <2>3, <2>4
<1> QED
  BY <1>2, <1>4, <1>5, <1>6, <1>7, <1>8, <1>9 DEF IInv

-----------------------------------------------------------------------------
(***************************************************************************)
(* Every other step.                                                       *)
(***************************************************************************)
\* Taking the row and deleting edges, unseen by others, keeps the invariant.
LEMMA DecomposeIInv ==
    ASSUME IInv, NEW r \in Requests, Decompose(r)
    PROVE  IInv'
<1>1. PICK ids \in SUBSET Ids : \E d \in [ids -> SUBSET Ids] :
         LET out == [ids |-> ids,
                     deps |-> [i \in Ids |-> IF i \in ids THEN d[i] ELSE {}]]
         IN  req' = [req EXCEPT ![r] =
                       [pc |-> "commit", out |-> out, edge |-> <<>>,
                        gone |-> edges \cap Touching(Stale(out))]]
  BY DEF Decompose
<1>2. PICK d \in [ids -> SUBSET Ids] :
         LET out == [ids |-> ids,
                     deps |-> [i \in Ids |-> IF i \in ids THEN d[i] ELSE {}]]
         IN  req' = [req EXCEPT ![r] =
                       [pc |-> "commit", out |-> out, edge |-> <<>>,
                        gone |-> edges \cap Touching(Stale(out))]]
  BY <1>1
<1> DEFINE out == [ids |-> ids,
                   deps |-> [i \in Ids |-> IF i \in ids THEN d[i] ELSE {}]]
           q0 == [pc |-> "commit", out |-> out, edge |-> <<>>,
                  gone |-> edges \cap Touching(Stale(out))]
<1>3. out \in Decomposition
  BY DEF Decomposition
<1>4. req' = [req EXCEPT ![r] = q0]
  BY <1>2
<1> HIDE DEF out
<1>5. /\ q0.pc = "commit" /\ q0.out = out
      /\ q0.gone = edges \cap Touching(Stale(out))
  OBVIOUS
<1>6. q0 \in Request
  BY <1>3 DEF Request, IInv, TypeOK
<1> HIDE DEF q0
<1>7. UNCHANGED <<stage, listed, slices, edges, manual>> /\ stage = "specify"
      /\ \A q \in Requests : req[q].pc # "commit"
  BY DEF Decompose
<1>8. Rows' = Rows /\ \A o : Stale(o)' = Stale(o)
  BY <1>7 DEF Rows, Stale
<1>9. req' \in [Requests -> Request] /\ req'[r] = q0
      /\ \A q \in Requests : q # r => req'[q] = req[q]
  BY <1>4, <1>6 DEF IInv, TypeOK
<1>10. TypeOK'
  BY <1>7, <1>9 DEF IInv, TypeOK
<1>11. PruneOK'
  <2> SUFFICES ASSUME NEW q \in Requests
               PROVE  /\ req'[q].pc # "commit" => req'[q].gone = {}
                      /\ req'[q].pc = "commit" =>
                           /\ stage = "specify"
                           /\ \A p \in Requests : req'[p].pc = "commit" => p = q
                           /\ req'[q].gone \subseteq Touching(listed \ req'[q].out.ids)
                           /\ (edges \cap Touching(listed \ req'[q].out.ids)) \ manual
                                  \subseteq req'[q].gone
    BY <1>7, Zenon DEF PruneOK, Touching
  <2>1. CASE q = r
    <3>1. req'[q].pc = "commit" /\ req'[q].out = out
          /\ req'[q].gone = edges \cap Touching(listed \ out.ids)
      BY <1>5, <1>9, <2>1 DEF Stale
    <3>2. \A p \in Requests : req'[p].pc = "commit" => p = q
      BY <1>7, <1>9, <2>1
    <3> QED
      BY <1>7, <3>1, <3>2
  <2>2. CASE q # r
    BY <1>7, <1>9, <2>2 DEF IInv, PruneOK
  <2> QED
    BY <2>1, <2>2
<1>12. BareSlices' /\ ListedSlicesExist' /\ DependenciesExist' /\ SiblingEdgesAgree'
  BY <1>7, <1>8 DEF IInv, BareSlices, ListedSlicesExist, DependenciesExist,
                    SiblingEdgesAgree
<1>13. InsertOK' /\ OpenFree'
  BY <1>5, <1>7, <1>9 DEF IInv, InsertOK, OpenFree
<1> QED
  BY <1>10, <1>11, <1>12, <1>13 DEF IInv

\* A request that becomes idle or starts to add an edge leaves PruneOK.
LEMMA RequestIInv ==
    ASSUME IInv, NEW r \in Requests, NEW q0 \in Request,
           q0.pc # "commit", q0.gone = {},
           q0.pc = "insert" => q0.edge \in ClientEdges,
           req' = [req EXCEPT ![r] = q0],
           UNCHANGED <<stage, listed, slices>>,
           edges' \subseteq Edge, manual' \subseteq ClientEdges,
           manual \subseteq manual', edges' \ manual' \subseteq edges,
           \A e \in Edge : e \notin manual' => (e \in edges <=> e \in edges')
    PROVE  IInv'
<1>1. req' \in [Requests -> Request] /\ req'[r] = q0
      /\ \A q \in Requests : q # r => req'[q] = req[q]
  BY DEF IInv, TypeOK
<1>2. TypeOK'
  BY <1>1 DEF IInv, TypeOK
<1>3. PruneOK'
  <2> SUFFICES ASSUME NEW q \in Requests
               PROVE  /\ req'[q].pc # "commit" => req'[q].gone = {}
                      /\ req'[q].pc = "commit" =>
                           /\ stage = "specify"
                           /\ \A p \in Requests : req'[p].pc = "commit" => p = q
                           /\ req'[q].gone \subseteq Touching(listed \ req'[q].out.ids)
                           /\ (edges' \cap Touching(listed \ req'[q].out.ids)) \ manual'
                                  \subseteq req'[q].gone
    BY Zenon DEF PruneOK, Touching
  <2>1. CASE q = r
    BY <1>1, <2>1
  <2>2. CASE q # r
    <3>1. req'[q] = req[q]
      BY <1>1, <2>2
    <3>2. \A p \in Requests : req'[p].pc = "commit" => p # r /\ req[p].pc = "commit"
      BY <1>1
    <3>3. ASSUME req[q].pc = "commit"
          PROVE  (edges' \cap Touching(listed \ req[q].out.ids)) \ manual'
                     \subseteq req[q].gone
      <4>1. (edges \cap Touching(listed \ req[q].out.ids)) \ manual \subseteq req[q].gone
        BY <3>3 DEF IInv, PruneOK
      <4> HIDE DEF Touching
      <4> QED
        BY <4>1
    <3> QED
      BY <3>1, <3>2, <3>3 DEF IInv, PruneOK
  <2> QED
    BY <2>1, <2>2
<1>4. BareSlices' /\ ListedSlicesExist' /\ DependenciesExist'
  <2>1. Rows' = Rows
    BY DEF Rows
  <2> QED
    BY <2>1 DEF IInv, BareSlices, ListedSlicesExist, DependenciesExist
<1>5. SiblingEdgesAgree'
  <2> SUFFICES ASSUME NEW i \in Ids, NEW j \in Ids,
                      <<i, j, "DEPENDS_ON">> \notin manual'
               PROVE  <<i, j, "DEPENDS_ON">> \in edges' <=> j \in slices[i].dependsOn
    BY DEF SiblingEdgesAgree
  <2>1. <<i, j, "DEPENDS_ON">> \in Edge
    BY DEF Edge, Nodes, EdgeType
  <2>2. <<i, j, "DEPENDS_ON">> \notin manual
    OBVIOUS
  <2> QED
    BY <2>1, <2>2 DEF IInv, SiblingEdgesAgree
<1>6. InsertOK' /\ OpenFree'
  BY <1>1 DEF IInv, InsertOK, OpenFree
<1> QED
  BY <1>2, <1>3, <1>4, <1>5, <1>6 DEF IInv

\* AddEdge and a rollback keep the invariant.
LEMMA ClientIInv ==
    ASSUME IInv, NEW r \in Requests, AddEdge(r) \/ AddEdgeInsert(r) \/ Rollback(r)
    PROVE  IInv'
<1>0. ClientEdges \subseteq Edge /\ req[r] \in Request
  BY ClientEdgesAssumption DEF IInv, TypeOK
<1>1. Idle \in Request /\ Idle.pc \notin {"commit", "insert"} /\ Idle.gone = {}
  BY IdleType DEF Idle
<1>2. CASE AddEdge(r)
  <2>1. PICK e \in ClientEdges :
            req' = [req EXCEPT ![r] = [Idle EXCEPT !.pc = "insert", !.edge = e]]
    BY <1>2 DEF AddEdge
  <2> DEFINE q0 == [Idle EXCEPT !.pc = "insert", !.edge = e]
  <2>2. /\ q0 \in Request /\ q0.pc # "commit" /\ q0.gone = {}
        /\ q0.edge \in ClientEdges
    BY IdleType DEF Idle, Request
  <2>3. UNCHANGED <<stage, listed, slices, edges, manual>>
    BY <1>2 DEF AddEdge
  <2>4. edges \subseteq Edge /\ manual \subseteq ClientEdges
    BY DEF IInv, TypeOK
  <2>5. req' = [req EXCEPT ![r] = q0]
    BY <2>1
  <2> HIDE DEF q0
  <2> QED
    BY <2>2, <2>3, <2>4, <2>5, RequestIInv
<1>3. CASE AddEdgeInsert(r)
  <2> DEFINE e == req[r].edge
  <2>1. /\ edges' = edges \cup {e} /\ manual' = manual \cup {e}
        /\ req' = [req EXCEPT ![r] = Idle]
        /\ UNCHANGED <<stage, listed, slices>>
    BY <1>3 DEF AddEdgeInsert, Finish
  <2>2. e \in ClientEdges
    BY <1>3 DEF AddEdgeInsert, IInv, InsertOK
  <2>3. edges \subseteq Edge /\ manual \subseteq ClientEdges
    BY DEF IInv, TypeOK
  <2> HIDE DEF e
  <2> QED
    BY <1>0, <1>1, <2>1, <2>2, <2>3, RequestIInv
<1>4. CASE Rollback(r)
  <2>1. /\ UNCHANGED <<stage, listed, slices, edges, manual>>
        /\ req' = [req EXCEPT ![r] = Idle]
    BY <1>4 DEF Rollback, Finish
  <2>2. edges \subseteq Edge /\ manual \subseteq ClientEdges
    BY DEF IInv, TypeOK
  <2> QED
    BY <1>1, <2>1, <2>2, RequestIInv
<1> QED
  BY <1>2, <1>3, <1>4

\* RemoveEdge, Approve, amend: no request changes.
LEMMA QuietIInv ==
    ASSUME IInv, UNCHANGED <<listed, slices, req>>,
           stage' \in {"specify", "decompose", "approved"},
           stage = "specify" => stage' = "specify",
           edges' \subseteq edges, manual' \subseteq ClientEdges,
           manual \subseteq manual',
           \A e \in edges : e \notin manual' => e \in edges'
    PROVE  IInv'
<1>1. TypeOK'
  BY DEF IInv, TypeOK
<1>2. PruneOK'
  <2> SUFFICES ASSUME NEW q \in Requests
               PROVE  /\ req[q].pc # "commit" => req[q].gone = {}
                      /\ req[q].pc = "commit" =>
                           /\ stage' = "specify"
                           /\ \A p \in Requests : req[p].pc = "commit" => p = q
                           /\ req[q].gone \subseteq Touching(listed \ req[q].out.ids)
                           /\ (edges' \cap Touching(listed \ req[q].out.ids)) \ manual'
                                  \subseteq req[q].gone
    BY Zenon DEF PruneOK, Touching
  <2>1. ASSUME req[q].pc = "commit"
        PROVE  (edges' \cap Touching(listed \ req[q].out.ids)) \ manual'
                   \subseteq req[q].gone
    <3>1. (edges \cap Touching(listed \ req[q].out.ids)) \ manual \subseteq req[q].gone
      BY <2>1 DEF IInv, PruneOK
    <3> QED
      BY <3>1
  <2> QED
    BY <2>1 DEF IInv, PruneOK
<1>3. BareSlices' /\ ListedSlicesExist' /\ DependenciesExist'
  <2>1. Rows' = Rows
    BY DEF Rows
  <2> QED
    BY <2>1 DEF IInv, BareSlices, ListedSlicesExist, DependenciesExist
<1>4. SiblingEdgesAgree'
  BY DEF IInv, SiblingEdgesAgree
<1>5. InsertOK' /\ OpenFree'
  BY DEF IInv, InsertOK, OpenFree
<1> QED
  BY <1>1, <1>2, <1>3, <1>4, <1>5 DEF IInv

\* Claiming and completing move a row that stays.
LEMMA WorkIInv ==
    ASSUME IInv, NEW i \in Ids,
           \/ CompleteSlice(i)
           \/ \E a \in Agents : ClaimSlice(i, a)
    PROVE  IInv'
<1>1. PICK row \in Slice : /\ slices' = [slices EXCEPT ![i] = row]
                           /\ row.status \in {"claimed", "done"}
                           /\ row.dependsOn = slices[i].dependsOn
  <2>1. slices[i] \in Slice
    BY DEF IInv, TypeOK
  <2>2. CASE CompleteSlice(i)
    <3> DEFINE row0 == [slices[i] EXCEPT !.status = "done"]
    <3>1. row0 \in Slice /\ row0.status = "done" /\ row0.dependsOn = slices[i].dependsOn
      BY <2>1 DEF Slice, SliceStatus
    <3>2. slices' = [slices EXCEPT ![i] = row0]
      BY <2>2 DEF CompleteSlice
    <3> HIDE DEF row0
    <3> QED
      BY <3>1, <3>2
  <2>3. ASSUME NEW a \in Agents, ClaimSlice(i, a)
        PROVE  \E row \in Slice : /\ slices' = [slices EXCEPT ![i] = row]
                                 /\ row.status \in {"claimed", "done"}
                                 /\ row.dependsOn = slices[i].dependsOn
    <3> DEFINE row0 == [slices[i] EXCEPT !.status = "claimed", !.assignee = a]
    <3>1. row0 \in Slice /\ row0.status = "claimed"
          /\ row0.dependsOn = slices[i].dependsOn
      BY <2>1 DEF Slice, SliceStatus
    <3>2. slices' = [slices EXCEPT ![i] = row0]
      BY <2>3 DEF ClaimSlice
    <3> HIDE DEF row0
    <3> QED
      BY <3>1, <3>2
  <2> QED
    BY <2>2, <2>3
<1>2. UNCHANGED <<stage, listed, edges, req, manual>> /\ slices[i].status # "none"
  BY DEF CompleteSlice, ClaimSlice
<1>3. slices' \in [Ids -> Slice]
  BY <1>1 DEF IInv, TypeOK
<1>4. /\ slices'[i] = row
      /\ \A j \in Ids : j # i => slices'[j] = slices[j]
      /\ \A j \in Ids : slices'[j].dependsOn = slices[j].dependsOn
  BY <1>1 DEF IInv, TypeOK
<1>5. Rows' = Rows
  BY <1>1, <1>2, <1>4 DEF Rows
<1>6. TypeOK'
  BY <1>2, <1>3 DEF IInv, TypeOK
<1>7. PruneOK'
  BY <1>2 DEF IInv, PruneOK, Touching
<1>8. BareSlices'
  BY <1>4, <1>5, <1>2 DEF IInv, BareSlices, Rows
<1>9. ListedSlicesExist' /\ DependenciesExist'
  BY <1>2, <1>4, <1>5 DEF IInv, ListedSlicesExist, DependenciesExist, Rows
<1>10. SiblingEdgesAgree'
  BY <1>2, <1>4 DEF IInv, SiblingEdgesAgree
<1>11. InsertOK'
  BY <1>2 DEF IInv, InsertOK
<1>12. OpenFree'
  BY <1>1, <1>4 DEF IInv, OpenFree
<1> QED
  BY <1>6, <1>7, <1>8, <1>9, <1>10, <1>11, <1>12 DEF IInv

\* Every step keeps the invariant.
LEMMA NextIInv == IInv /\ [Next]_vars => IInv'
<1> SUFFICES ASSUME IInv, [Next]_vars PROVE IInv'
  OBVIOUS
<1>0. stage \in {"specify", "decompose", "approved"} /\ manual \subseteq ClientEdges
  BY DEF IInv, TypeOK
<1>1. ASSUME NEW r \in Requests, Decompose(r) PROVE IInv'
  BY <1>1, DecomposeIInv
<1>2. ASSUME NEW r \in Requests, DecomposeCommit(r) PROVE IInv'
  BY <1>2, CommitIInv
<1>3. ASSUME NEW r \in Requests, AddEdge(r) \/ AddEdgeInsert(r) \/ Rollback(r)
      PROVE  IInv'
  BY <1>3, ClientIInv
<1>4. CASE Approve
  BY <1>0, <1>4, QuietIInv DEF Approve
<1>5. CASE LifecycleAmendSpec
  BY <1>0, <1>5, QuietIInv DEF LifecycleAmendSpec
<1>6. ASSUME NEW i \in Ids, CompleteSlice(i) \/ \E a \in Agents : ClaimSlice(i, a)
      PROVE  IInv'
  BY <1>6, WorkIInv
<1>7. ASSUME NEW e \in ClientEdges, RemoveEdge(e) PROVE IInv'
  BY <1>0, <1>7, QuietIInv DEF RemoveEdge
<1>8. CASE UNCHANGED vars
  BY <1>0, <1>8, QuietIInv DEF vars
<1> QED
  BY <1>1, <1>2, <1>3, <1>4, <1>5, <1>6, <1>7, <1>8 DEF Next

\* The invariant always holds.
LEMMA AlwaysIInv == Spec => []IInv
BY InitIInv, NextIInv, PTL DEF Spec

-----------------------------------------------------------------------------
\* The stored list of slices is always the set of slices there are, and no
\* slice ever depends on a sibling that was pruned.
THEOREM ReferencesResolve == Spec => []SliceReferencesExist
BY AlwaysIInv, PTL DEF IInv, SliceReferencesExist

\* The DEPENDS_ON edges between slices follow the current decomposition but
\* where a client changed them, whatever was added while slices were pruned.
THEOREM EdgesFollowDecomposition == Spec => []SiblingEdgesAgree
BY AlwaysIInv, PTL DEF IInv

\* A step never undoes work on a slice that stays.
LEMMA StepKeepsWork ==
    ASSUME IInv, [Next]_vars, NEW i \in Rows, slices'[i].status # "none"
    PROVE  /\ slices[i].status = "done" => slices'[i].status = "done"
           /\ slices[i].status = "claimed" => slices'[i].status # "open"
           /\ slices[i].assignee # None => slices'[i].assignee = slices[i].assignee
<1>0. i \in Ids /\ slices \in [Ids -> Slice] /\ slices[i] \in Slice
  BY DEF Rows, IInv, TypeOK
<1>1. CASE UNCHANGED slices
  BY <1>1
<1>2. ASSUME NEW r \in Requests, DecomposeCommit(r)
      PROVE  /\ slices'[i].status = slices[i].status
             /\ slices'[i].assignee = slices[i].assignee
  <2>1. slices' = Reconciled(req[r].out)
    BY <1>2 DEF DecomposeCommit
  <2>2. CASE i \in req[r].out.ids
    <3>1. slices'[i] = [slices[i] EXCEPT !.dependsOn = req[r].out.deps[i]]
      BY <1>0, <2>1, <2>2 DEF Reconciled, UpdateSlice
    <3> QED
      BY <1>0, <3>1 DEF Slice
  <2>3. CASE i \notin req[r].out.ids
    BY <1>0, <2>1, <2>3 DEF Reconciled, Stale, NoSlice
  <2> QED
    BY <2>2, <2>3
<1>3. ASSUME NEW j \in Ids, CompleteSlice(j)
      PROVE  /\ slices'[i].status \in {slices[i].status, "done"}
             /\ slices'[i].assignee = slices[i].assignee
  BY <1>0, <1>3 DEF CompleteSlice, Slice
<1>4. ASSUME NEW j \in Ids, NEW a \in Agents, ClaimSlice(j, a)
      PROVE  \/ slices'[i] = slices[i]
             \/ slices[i].status = "open" /\ slices[i].assignee = None
  BY <1>0, <1>4 DEF ClaimSlice, IInv, OpenFree
<1> QED
  BY <1>1, <1>2, <1>3, <1>4 DEF Next, vars, Decompose, AddEdge, AddEdgeInsert,
     Rollback, Approve, LifecycleAmendSpec, RemoveEdge

\* Re-decomposition never undoes the work on a slice it keeps.
THEOREM WorkIsKept == Spec => WorkKept
<1>1. IInv /\ [Next]_vars => [\A i \in Rows :
         slices'[i].status # "none"
             => /\ slices[i].status = "done" => slices'[i].status = "done"
                /\ slices[i].status = "claimed" => slices'[i].status # "open"
                /\ slices[i].assignee # None
                       => slices'[i].assignee = slices[i].assignee]_vars
  BY StepKeepsWork
<1> QED
  BY <1>1, AlwaysIInv, PTL DEF Spec, WorkKept
=============================================================================
