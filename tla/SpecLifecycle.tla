--------------------------- MODULE SpecLifecycle ---------------------------
(***************************************************************************)
(* A spec's row, its content hash and its changelog, under concurrent      *)
(* authoring, update, amend, abandon, completion and supersede requests:   *)
(* internal/storage/postgres/spec.go, authoring.go, lifecycle.go,          *)
(* changelog.go and spec_version.go.                                       *)
(*                                                                         *)
(* A request's unlocked pre-read is a step of its own.  A transaction that *)
(* begins with its UPDATE of the row holds the row to the commit, so all   *)
(* it writes is one step.  Only supersede locks rows before it reads them; *)
(* that lock is the variable lock.                                         *)
(*                                                                         *)
(* The decisions, slices, conversations and safety flags that the stage    *)
(* handlers write in the same transactions are rows of other tables, which *)
(* nothing here reads.                                                     *)
(***************************************************************************)
EXTENDS Stages, FiniteSets

CONSTANTS
    Slugs,       \* spec slugs, numbered in lexicographic order
    Requests,    \* request handlers that may run at the same time
    Intents,     \* values of intent, priority and complexity taken together
    Notes,       \* values of the notes column
    Outputs,     \* values of a stage output (0 is NULL)
    InitStages,  \* how far a spec may have got at the start; "none": not created
    ClientEdges, \* SUPERSEDES edges that clients name in AddEdge and RemoveEdge
    MaxGrowth    \* bound on the versions a spec gains

ASSUME SlugsAssumption == Slugs \subseteq Nat \ {0}
ASSUME OutputsAssumption == Outputs \subseteq Nat \ {0} /\ Outputs # {}
ASSUME InitStagesAssumption == InitStages \subseteq AuthoringStageSet \cup {"none"}
ASSUME FieldsAssumption == Intents # {} /\ Notes # {}
ASSUME ClientEdgesAssumption == ClientEdges \subseteq Slugs \X Slugs
ASSUME GrowthAssumption == MaxGrowth \in Nat

None == 0

\* Columns of specs that hold the output of an authoring stage.
OutputNames == {"spark", "shape", "specify", "decompose"}
OutputMap == [OutputNames -> Outputs \cup {0}]
NoOutputs == [o \in OutputNames |-> 0]

\* contenthash.Spec, taken to be free of collisions.
contenthash(intent, stage, outputs) ==
    [intent |-> intent, stage |-> stage, outputs |-> outputs]
Hash == [intent : Intents, stage : SpecStage, outputs : OutputMap]

Row == [intent : Intents, notes : Notes, stage : SpecStage, outputs : OutputMap,
        supersedes : Slugs \cup {None}, supersededBy : Slugs \cup {None},
        hash : Hash, version : Nat]

\* The fields a changelog entry records the old value of.
Fields == {"intent", "notes", "stage"}
FieldChange == Fields \X (Intents \cup Notes \cup SpecStage)
Entry == [version : Nat, stage : SpecStage, hash : Hash,
          changes : SUBSET FieldChange]

VARIABLES
    specs,   \* the row of each slug; version 0 when there is none
    log,     \* changelog_entries of each slug, oldest first
    edges,   \* SUPERSEDES edges, <<new, old>>
    byHand,  \* history: edges that clients added or removed, net of each other
    lock,    \* the request that holds a row FOR UPDATE
    req,     \* what each request handler is doing
    past,    \* history: each slug's row as it was at version 1, 2, ...
    limit    \* the version that each slug may reach, from the bound MaxGrowth

vars == <<specs, log, edges, byHand, lock, req, past, limit>>
edgeVars == <<edges, byHand, limit>>  \* what most operations leave alone

Ops == {"none", "update", "amend", "abandon", "complete", "supersede"}
Replied == {"idle", "ok", "err"}
Steps == Replied \cup {"write", "first", "second", "commit"}

Request == [op : Ops, pc : Steps, spec : Slugs \cup {None},
            other : Slugs \cup {None}, read : Row, intent : Intents,
            notes : Notes, to : SpecStage]

TypeOK ==
    /\ specs \in [Slugs -> Row]
    /\ log \in [Slugs -> Seq(Entry)]
    /\ edges \subseteq Slugs \X Slugs /\ byHand \subseteq Slugs \X Slugs
    /\ lock \in [Slugs -> Requests \cup {None}]
    /\ req \in [Requests -> Request]
    /\ past \in [Slugs -> Seq(Row)]
    /\ limit \in [Slugs -> Nat]
-----------------------------------------------------------------------------
(***************************************************************************)
(* Writes to a row, and the entries that go with them.                     *)
(***************************************************************************)
Exists(s) == specs[s].version > 0

recomputeContentHash(row) ==
    [row EXCEPT !.hash = contenthash(row.intent, row.stage, row.outputs)]

\* Mutants: a stage change that does not bump the version, or that clears
\* the outputs of the stages it leaves.
EnterStageBlank(row, to) ==
    recomputeContentHash([row EXCEPT !.stage = to, !.version = @ + 1,
                                     !.outputs = NoOutputs])
EnterStageSameVersion(row, to) ==
    recomputeContentHash([row EXCEPT !.stage = to])

\* UPDATE specs SET stage, version = version + 1, then the hash.
EnterStage(row, to) ==
    recomputeContentHash([row EXCEPT !.stage = to, !.version = @ + 1])

\* No version bump: the stage transition of the same transaction made one.
storeJSONColumn(row, column, output) ==
    recomputeContentHash([row EXCEPT !.outputs = [@ EXCEPT ![column] = output]])

Changed(field, old, new) == IF old = new THEN {} ELSE {<<field, old>>}

EntryOf(row, changes) ==
    [version |-> row.version, stage |-> row.stage, hash |-> row.hash,
     changes |-> changes]

\* The checkpoint of a step from one stage to another.
StageEntry(old, new) ==
    EntryOf(new, Changed("stage", old.stage, new.stage))

\* An output is logged only when it changed the hash.
authoringOutputChangeLog(old, new) ==
    IF old.hash = new.hash THEN <<>> ELSE <<EntryOf(new, {})>>

NewRow(intent, notes, stage, outputs) ==
    [intent |-> intent, notes |-> notes, stage |-> stage, outputs |-> outputs,
     supersedes |-> None, supersededBy |-> None,
     hash |-> contenthash(intent, stage, outputs), version |-> 1]

AnyIntent == CHOOSE i \in Intents : TRUE
AnyNotes == CHOOSE n \in Notes : TRUE
NoRow == [NewRow(AnyIntent, AnyNotes, "spark", NoOutputs) EXCEPT !.version = 0]

\* Commit one row with its entries.
Write(s, row, entries) ==
    /\ specs' = [specs EXCEPT ![s] = row]
    /\ log' = [log EXCEPT ![s] = @ \o entries]
    /\ past' = [past EXCEPT ![s] = Append(@, row)]
-----------------------------------------------------------------------------
(***************************************************************************)
(* Initial states: slugs that are free, and specs that went up the funnel. *)
(***************************************************************************)
FunnelRow(v, stored) ==
    LET stage == authoringStages[v]
        outputs == [o \in OutputNames |->
                      IF stageIndex(o) < v \/ (stored /\ stageIndex(o) = v)
                      THEN CHOOSE x \in Outputs : TRUE ELSE 0]
    IN  [NewRow(AnyIntent, AnyNotes, stage, outputs) EXCEPT !.version = v]

FunnelLog(n) ==
    [i \in 1..(IF n = 5 THEN 9 ELSE 2 * n) |->
       LET v == (i + 1) \div 2 IN
       IF i % 2 = 0 THEN EntryOf(FunnelRow(v, TRUE), {})
       ELSE EntryOf(FunnelRow(v, FALSE),
                    IF v = 1 THEN {} ELSE {<<"stage", authoringStages[v - 1]>>})]

Idle(status) ==
    [op |-> "none", pc |-> status, spec |-> None, other |-> None,
     read |-> NoRow, intent |-> AnyIntent, notes |-> AnyNotes, to |-> "spark"]

Init ==
    /\ \E reached \in [Slugs -> {stageIndex(st) : st \in InitStages}] :
         /\ specs = [s \in Slugs |-> IF reached[s] = 0 THEN NoRow
                                     ELSE FunnelRow(reached[s], TRUE)]
         /\ log = [s \in Slugs |-> FunnelLog(reached[s])]
         /\ past = [s \in Slugs |-> [v \in 1..reached[s] |-> FunnelRow(v, TRUE)]]
         /\ limit = [s \in Slugs |-> reached[s] + MaxGrowth]
    /\ edges = {} /\ byHand = {}
    /\ lock = [s \in Slugs |-> None]
    /\ req = [r \in Requests |-> Idle("idle")]

Free(r) == req[r].pc \in Replied
Finish(r, status) == req' = [req EXCEPT ![r] = Idle(status)]
Goto(r, pc) == req' = [req EXCEPT ![r] = [@ EXCEPT !.pc = pc]]

\* Requests that may still add a version to s, counted against the bound.
Pending(s) == {r \in Requests : s \in {req[r].spec, req[r].other}}
RoomFor(s) == specs[s].version + Cardinality(Pending(s)) < limit[s]
-----------------------------------------------------------------------------
(***************************************************************************)
(* Creation and the authoring funnel.                                      *)
(***************************************************************************)

\* SpecHandler.CreateSpec: an authored spec brings at most a spark output and
\* starts at spark; a declared or retroactive one brings all four, born done.
CreateSpec(s) ==
    /\ ~Exists(s) /\ RoomFor(s)
    /\ \E i \in Intents, o \in OutputMap :
         LET stage == IF o["shape"] = 0 THEN "spark" ELSE "done"
             row == NewRow(i, AnyNotes, stage, o)
         IN
         /\ \/ \A c \in OutputNames \ {"spark"} : o[c] = 0
            \/ \A c \in OutputNames : o[c] # 0
         /\ Write(s, row, <<EntryOf(row, {})>>)
    /\ UNCHANGED <<edgeVars, lock, req>>

\* The Spark handler: CreateSpec without outputs, then StoreSparkOutput.
Spark(s) ==
    /\ ~Exists(s) /\ RoomFor(s)
    /\ \E i \in Intents, out \in Outputs :
         LET row == NewRow(i, AnyNotes, "spark", NoOutputs)
             stored == storeJSONColumn(row, "spark", out)
         IN  Write(s, stored, <<EntryOf(row, {})>>
                              \o authoringOutputChangeLog(row, stored))
    /\ UNCHANGED <<edgeVars, lock, req>>

\* TransitionStage's guarded UPDATE and checkpoint.
TransitionStage(s, from, to) ==
    /\ Exists(s) /\ RoomFor(s)
    /\ lock[s] = None
    /\ from # "approved" /\ ValidateTransition(from, to)
    /\ specs[s].stage = from

\* Transition to a stage and store its output, in one transaction.
StageOutput(s, from, to) ==
    /\ TransitionStage(s, from, to)
    /\ \E out \in Outputs :
         LET row == EnterStage(specs[s], to)
             stored == storeJSONColumn(row, to, out)
         IN  Write(s, stored, <<StageEntry(specs[s], row)>>
                              \o authoringOutputChangeLog(row, stored))
    /\ UNCHANGED <<edgeVars, lock, req>>

Shape(s) == StageOutput(s, "spark", "shape")
Specify(s) == StageOutput(s, "shape", "specify")
Decompose(s) == StageOutput(s, "specify", "decompose")

Approve(s) ==
    LET row == EnterStage(specs[s], "approved") IN
    /\ TransitionStage(s, "decompose", "approved")
    /\ Write(s, row, <<StageEntry(specs[s], row)>>)
    /\ UNCHANGED <<edgeVars, lock, req>>
-----------------------------------------------------------------------------
(***************************************************************************)
(* Requests that read the row first and write it later.                    *)
(***************************************************************************)
Read(r, op, s, intent, notes, to) ==
    /\ Free(r) /\ Exists(s) /\ RoomFor(s)
    /\ req' = [req EXCEPT ![r] =
                 [op |-> op, pc |-> "write", spec |-> s, other |-> None,
                  read |-> specs[s], intent |-> intent, notes |-> notes,
                  to |-> to]]
    /\ UNCHANGED <<specs, log, edgeVars, lock, past>>

\* A field that is not given keeps the value that was read.
UpdateSpec(r) ==
    \E s \in Slugs, i \in Intents, n \in Notes : Read(r, "update", s, i, n, "spark")

LifecycleAmendSpec(r) ==
    \E s \in Slugs, reEntry \in ReEntryStages :
        Read(r, "amend", s, AnyIntent, AnyNotes, PrecedingAuthStage(reEntry))

\* A terminal spec is refused when it is read.
LifecycleAbandonSpec(r) ==
    \E s \in Slugs :
        /\ specs[s].stage \notin FullyTerminalStages
        /\ Read(r, "abandon", s, AnyIntent, AnyNotes, "abandoned")

\* RecordCompletion once its claim is asserted; any spec can be claimed.
RecordCompletion(r) ==
    \E s \in Slugs : Read(r, "complete", s, AnyIntent, AnyNotes, "done")

\* Mutant: the row is found by slug alone.
GuardHoldsAlways(r) == TRUE

\* The WHERE clause of the UPDATE.
GuardHolds(r) ==
    LET row == specs[req[r].spec] IN
    /\ req[r].op # "complete" => row.version = req[r].read.version
    /\ req[r].op = "amend" => row.stage \in AmendEligible
    /\ req[r].op = "abandon" => row.stage \notin FullyTerminalStages

Refused(r) == Finish(r, "err") /\ UNCHANGED <<specs, log, edgeVars, lock, past>>

\* Mutant: the hash is computed before the new values are resolved.
UpdatedHashStale(read, intent) == contenthash(read.intent, read.stage, NoOutputs)

\* The hash of the fields that were read and given, with no outputs.
UpdatedHash(read, intent) == contenthash(intent, read.stage, NoOutputs)

\* UpdateSpec's UPDATE; an entry is made only when the hash differs.
UpdateWrite(r) ==
    LET s == req[r].spec
        old == req[r].read
        row == [specs[s] EXCEPT
                  !.intent = req[r].intent, !.notes = req[r].notes,
                  !.hash = UpdatedHash(old, req[r].intent),
                  !.version = @ + 1]
    IN
    /\ req[r].op = "update" /\ req[r].pc = "write"
    /\ lock[s] = None
    /\ GuardHolds(r)
    /\ Write(s, row, IF row.hash = old.hash THEN <<>>
                     ELSE <<EntryOf(row, Changed("intent", old.intent, row.intent)
                                         \cup Changed("notes", old.notes, row.notes))>>)
    /\ Finish(r, "ok")
    /\ UNCHANGED <<edgeVars, lock>>

\* The guarded UPDATE of amend and abandon; the outputs are kept.
LifecycleWrite(r) ==
    LET s == req[r].spec
        row == EnterStage(specs[s], req[r].to)
    IN
    /\ req[r].op \in {"amend", "abandon"} /\ req[r].pc = "write"
    /\ lock[s] = None
    /\ GuardHolds(r)
    /\ Write(s, row, <<StageEntry(req[r].read, row)>>)
    /\ Finish(r, "ok")
    /\ UNCHANGED <<edgeVars, lock>>

\* RecordCompletion's UPDATE has no guard; its entry is numbered from the
\* version that was read.
CompletionWrite(r) ==
    LET s == req[r].spec
        row == EnterStage(specs[s], "done")
    IN
    /\ req[r].op = "complete" /\ req[r].pc = "write"
    /\ lock[s] = None
    /\ Write(s, row, <<[StageEntry(req[r].read, row)
                          EXCEPT !.version = req[r].read.version + 1]>>)
    /\ Finish(r, "ok")
    /\ UNCHANGED <<edgeVars, lock>>

\* ErrConcurrentModification, ErrSpecNotAmendable or ErrSpecTerminal.
WriteRefused(r) ==
    /\ req[r].pc = "write"
    /\ lock[req[r].spec] = None
    /\ ~GuardHolds(r)
    /\ Refused(r)
-----------------------------------------------------------------------------
(***************************************************************************)
(* LifecycleSupersedeSpec: lock both rows, the smaller slug first, then    *)
(* check and write both.                                                   *)
(***************************************************************************)
LifecycleSupersedeSpec(r) ==
    /\ Free(r)
    /\ \E old, new \in Slugs :
         /\ old # new
         /\ RoomFor(old) /\ RoomFor(new)
         /\ req' = [req EXCEPT ![r] =
                      [Idle("first") EXCEPT !.op = "supersede", !.spec = old,
                                            !.other = new]]
    /\ UNCHANGED <<specs, log, edgeVars, lock, past>>

\* Mutant: the old spec is always locked first.
lockOrderAsGiven(old, new) == <<old, new>>

lockOrder(old, new) == IF new < old THEN <<new, old>> ELSE <<old, new>>

\* SELECT ... FOR UPDATE: a row that does not exist is not locked.
SupersedeLock(r) ==
    LET order == lockOrder(req[r].spec, req[r].other)
        s == IF req[r].pc = "first" THEN order[1] ELSE order[2]
    IN
    /\ req[r].pc \in {"first", "second"}
    /\ IF Exists(s) THEN lock[s] = None /\ lock' = [lock EXCEPT ![s] = r]
                    ELSE UNCHANGED lock
    /\ Goto(r, IF req[r].pc = "first" THEN "second" ELSE "commit")
    /\ UNCHANGED <<specs, log, edgeVars, past>>

MaySupersede(old, new) ==
    /\ Exists(old) /\ specs[old].stage = "done"
    /\ Exists(new) /\ specs[new].stage \notin FullyTerminalStages

Unlocked(r) == [s \in Slugs |-> IF lock[s] = r THEN None ELSE lock[s]]

\* Mutant: the edge runs from the old spec to the new one.
SupersedesEdgeReversed(new, old) == {<<old, new>>}

SupersedesEdge(new, old) == {<<new, old>>}

SupersedeCommit(r) ==
    LET old == req[r].spec
        new == req[r].other
        oldRow == EnterStage([specs[old] EXCEPT !.supersededBy = new], "superseded")
        newRow == [specs[new] EXCEPT !.supersedes = old, !.version = @ + 1]
    IN
    /\ req[r].pc = "commit"
    /\ lock[old] \in {None, r} /\ lock[new] \in {None, r}
    /\ MaySupersede(old, new)
    /\ specs' = [specs EXCEPT ![old] = oldRow, ![new] = newRow]
    /\ log' = [log EXCEPT ![old] = Append(@, StageEntry(specs[old], oldRow)),
                          ![new] = Append(@, EntryOf(newRow, {}))]
    /\ past' = [past EXCEPT ![old] = Append(@, oldRow), ![new] = Append(@, newRow)]
    /\ edges' = edges \cup SupersedesEdge(new, old)
    /\ byHand' = byHand \ {<<new, old>>}
    /\ lock' = Unlocked(r)
    /\ Finish(r, "ok")
    /\ UNCHANGED limit

SupersedeRefused(r) ==
    /\ req[r].pc = "commit"
    /\ ~MaySupersede(req[r].spec, req[r].other)
    /\ lock' = Unlocked(r)
    /\ Finish(r, "err")
    /\ UNCHANGED <<specs, log, edgeVars, past>>

(***************************************************************************)
(* The AddEdge and RemoveEdge RPCs take SUPERSEDES as any other edge type: *)
(* they write the same table and none of the two specs' columns.  A call   *)
(* that finds the edge as it wants it changes nothing.                     *)
(***************************************************************************)
ByHand(e) ==
    /\ byHand' = IF e \in byHand THEN byHand \ {e} ELSE byHand \cup {e}
    /\ UNCHANGED <<specs, log, lock, req, past, limit>>

AddEdge(e) ==
    /\ Exists(e[1]) /\ Exists(e[2])
    /\ e \notin edges
    /\ edges' = edges \cup {e}
    /\ ByHand(e)

RemoveEdge(e) ==
    /\ e \in edges
    /\ edges' = edges \ {e}
    /\ ByHand(e)

\* Any statement may fail: the transaction rolls back and its locks go.
Rollback(r) ==
    /\ ~Free(r)
    /\ lock' = Unlocked(r)
    /\ Finish(r, "err")
    /\ UNCHANGED <<specs, log, edgeVars, past>>
-----------------------------------------------------------------------------
Author(s) ==
    \/ CreateSpec(s) \/ Spark(s) \/ Shape(s) \/ Specify(s) \/ Decompose(s)
    \/ Approve(s)

Arrive(r) ==
    \/ UpdateSpec(r) \/ LifecycleAmendSpec(r) \/ LifecycleAbandonSpec(r)
    \/ RecordCompletion(r) \/ LifecycleSupersedeSpec(r)

Proceed(r) ==
    \/ UpdateWrite(r) \/ LifecycleWrite(r) \/ CompletionWrite(r) \/ WriteRefused(r)
    \/ SupersedeLock(r) \/ SupersedeCommit(r) \/ SupersedeRefused(r)

Next ==
    \/ \E s \in Slugs : Author(s)
    \/ \E r \in Requests : Arrive(r) \/ Proceed(r) \/ Rollback(r)
    \/ \E e \in ClientEdges : AddEdge(e) \/ RemoveEdge(e)

Spec == Init /\ [][Next]_vars

\* A handler's goroutine is scheduled again, and PostgreSQL queues the
\* waiters of a row lock, so a lock that is freed again and again is had.
Fairness == \A r \in Requests : SF_vars(Proceed(r))

FairSpec == Spec /\ Fairness
-----------------------------------------------------------------------------
(***************************************************************************)
(* GetSpecAtVersion: undo the entries above a version, newest first.       *)
(* ListChanges orders by version alone, so entries of one version come in  *)
(* any order and the result is a set of possible values.                   *)
(***************************************************************************)
Entries(s) == {log[s][i] : i \in 1..Len(log[s])}

SinceVersion(s, v) == {e \in Entries(s) : e.version > v}

\* The old value applied last is that of the lowest version which has one.
Undone(s, v, field) ==
    LET changed == {e \in SinceVersion(s, v) : \E c \in e.changes : c[1] = field}
        last == {e \in changed : \A f \in changed : e.version <= f.version}
    IN
    IF changed = {} THEN {specs[s][field]}
    ELSE {c[2] : c \in {d \in UNION {e.changes : e \in last} : d[1] = field}}

Earlier(s) == 1..(specs[s].version - 1)
-----------------------------------------------------------------------------
(***************************************************************************)
(* Safety.                                                                 *)
(***************************************************************************)

\* A version names one content of the row: a request that finds the version
\* it read finds the row it read, outputs and links included, although
\* storing an output does not bump the version itself.  Every optimistic
\* guard of UpdateSpec, amend and abandon rests on this.
VersionIdentifiesRow ==
    \A r \in Requests :
        req[r].pc = "write" /\ req[r].read.version = specs[req[r].spec].version
            => req[r].read = specs[req[r].spec]

\* The stored content hash is that of the row's current fields and stage: no
\* stage change leaves it behind, and an update never stores one it computed
\* from a row somebody else changed.  Of the outputs it covers all or, once an
\* UpdateSpec has hashed without them, none (see HashCoversOutputs): but never
\* those of an earlier time.
HashNamesRow ==
    \A s \in Slugs :
        /\ specs[s].hash.intent = specs[s].intent
        /\ specs[s].hash.stage = specs[s].stage
        /\ specs[s].hash.outputs \in {specs[s].outputs, NoOutputs}

\* GetSpecAtVersion gives back the intent (priority, complexity) of every
\* earlier version, although entries are written only when the hash changed
\* and a completion can number its own entry wrongly.
IntentReconstructed ==
    \A s \in Slugs : \A v \in Earlier(s) :
        Undone(s, v, "intent") = {past[s][v].intent}

\* A spec that is at a stage of the funnel has the outputs of that stage and
\* of the ones before it back to shape, however often it was amended.
FunnelOutputsPresent ==
    \A s \in Slugs : \A o \in OutputNames \ {"spark"} :
        Exists(s) /\ stageIndex(specs[s].stage) >= stageIndex(o)
            => specs[s].outputs[o] # 0

\* superseded_by, supersedes and the SUPERSEDES edges tell one story, whatever
\* supersedes run at the same time, in opposite roles even, and whatever edges
\* clients add and remove between them: an edge is missing or is one too many
\* only by a client's own AddEdge or RemoveEdge, until that is taken back or a
\* supersede writes the edge anew.
Linked == (edges \ byHand) \cup (byHand \ edges)

SupersessionLinked ==
    \A new, old \in Slugs :
        /\ specs[old].supersededBy = new => <<new, old>> \in Linked
        /\ specs[new].supersedes = old => <<new, old>> \in Linked
        /\ <<new, old>> \in Linked => /\ specs[old].supersededBy # None
                                      /\ specs[new].supersedes # None

\* A closed spec is reopened by a completion at most: no late amend, abandon,
\* update or authoring request that read it earlier moves it.
ClosedButForCompletion ==
    [][\A s \in Slugs :
         specs[s].stage \in FullyTerminalStages
             => specs'[s].stage \in {specs[s].stage, "done"}]_vars
-----------------------------------------------------------------------------
(***************************************************************************)
(* Liveness, of FairSpec.                                                  *)
(***************************************************************************)

\* Every request is answered: two supersedes that name the same specs in
\* opposite roles do not wait for each other's row.
RequestsFinish == \A r \in Requests : ~Free(r) ~> Free(r)
-----------------------------------------------------------------------------
(***************************************************************************)
(* What the documentation promises and a run refutes.                      *)
(***************************************************************************)

\* site/docs/concepts/spec-graph.md: the content hash covers all authoring
\* stage outputs and is recomputed on every create or update.
HashCoversOutputs == \A s \in Slugs : specs[s].hash.outputs = specs[s].outputs
=============================================================================
