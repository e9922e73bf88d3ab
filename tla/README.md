# SpecGraph: a TLA+ model of the specification store

SpecGraph keeps software specifications as a graph in PostgreSQL. People and
agents author a spec through a funnel of stages, claim it, execute it, and amend,
supersede or abandon it later; every change is versioned. One server process
serves ConnectRPC handlers, an MCP endpoint and a web login; each request runs in
its own goroutine and talks to PostgreSQL over a pool, at isolation level READ
COMMITTED. Nothing in the process serializes requests to one spec: what keeps the
data right is the order of the SQL statements, their `WHERE` guards, and the row
locks they take. That is what is modelled here.

Paths below are relative to the repository root; `pg/` stands for
`internal/storage/postgres/`.

## 1. Inventory

### Components

| Component | State it keeps | Operations | Correct when |
|---|---|---|---|
| Stages (`internal/storage/spec_domain.go`, `stage_validation.go`) | none | `ValidateTransition`, `PrecedingAuthStage`, the terminal / amendable / re-entry sets | an amend lands where the next authoring command is accepted |
| Spec rows (`pg/spec.go`) | `specs`: fields, stage, four stage outputs, links, content hash, version | create, update, list | the version names the row's content; the hash is that of the row's fields and stage, and of its outputs or of none |
| Changelog and versions (`pg/changelog.go`, `pg/spec_version.go`) | `changelog_entries` | append an entry, list, reconstruct a version | an earlier version can be given back as it was |
| Authoring funnel (`pg/authoring.go`, `internal/server/authoring_handler.go`) | stage and outputs of `specs`; slices, decisions and conversations beside it | Spark, Shape, Specify, Decompose, Approve | no stage without its output, one step at a time |
| Claims and leases (`pg/claim.go`, `pg/execution.go`) | `claims`, CLAIMED_BY rows of `edges` | claim, unclaim, heartbeat, completion, progress, blocker | the claim table implements the abstract lease: one holder at a time, a live lease changes hands or goes only by a call of its holder, an amend or an abandon; edge and row agree |
| Sweeper (`internal/server/sweeper.go`) | a ticker | `ReleaseExpiredClaims` | an expired claim is released in the end |
| Lifecycle (`pg/lifecycle.go`) | the same rows | amend, supersede, abandon, acknowledge drift | a decision is applied to the version it was made on; links and edges agree but where a client changed an edge |
| Transactions (`pg/tx.go`) | a transaction in the context | begin, commit, roll back, run callbacks after the commit | a failed step leaves nothing behind |
| API keys (`pg/users.go`, `internal/server/identity_handler.go`) | `users`, `api_keys` | create, revoke, rotate (own and administrator's), soft delete, purge | a mint keeps the owner's quota; a rotation retires a key when its successor comes, the owner's only once; a deletion revokes every key that it found in use |
| OIDC bindings and logins (`pg/users.go`, `pg/web_auth.go`, `internal/auth`) | `oidc_bindings`, login flows, CLI codes, sessions | bind, unbind, JIT creation, exchange | a flow opens one session; simultaneous first logins leave one user; a dead credential is refused |
| Slices (`pg/slice.go`, `pg/authoring.go`) | `slices`, DEPENDS_ON rows | reconcile on decompose, claim, complete | claimed work survives re-decomposition |
| Decisions (`pg/decision.go`) | `decisions`, DECIDED_IN rows | create, update, promote from a shape, accept on approval | a guarded update sees the row it replaces; approval leaves proposed no decision of its spec that it found |
| Conversations, findings (`pg/conversation.go`, `pg/findings.go`) | chain of entries | record, list | every entry is linked; edges match the rows they belong to |
| Dependency graph, drift (`pg/graph.go`, `internal/drift`) | `edges` with `content_hash_at_link` | add and remove an edge, refresh hashes, check drift, acknowledge | an upstream spec is reported only if it had drifted at some moment of the check; an upstream decision, which is always reported, only if it was linked |
| Export and import (`internal/export`) | none | dump, replay | a clean import leaves the document's project, but for most of its changelog and the versions of its conversations, and nothing older |
| Authorization (`internal/auth`), MCP server, command line | policies, the caller's role | interceptor, policy evaluation; tools and commands as sequences of calls | who may only read changes nothing but the row of a new project and keys of its own; a demotion holds from the next call on; what a hint says to do is accepted |
| Introspection cache, usage tracker (`internal/auth`) | cached answers; a channel of touches | introspect, cache; touch, flush, close | nothing dead is accepted past the cap; a closed tracker has tried to write all it took |
| Constitution (`internal/constitution`, `pg/constitution.go`) | one row per layer: content, source, hash | merge, update, import, refresh | the nearer layer wins; "unchanged" means equal content unless the stored hash came from a client |
| External sync (`internal/sync`, `internal/server/sync_handler.go`) | mapping rows, items of a tracker | find or create, map, retry | no second item unless two syncs overlap or the tracker's search misses the first; what is reported synced is mapped |
| Linter, ready set (`internal/linter`, `pg/graph.go`) | none | depth-first walk, `GetReady` | a clean lint means that some open spec is ready |
| Managed files (`internal/config/managedfiles`) | files, their locks | classify, replace, remove the superseded | what the user edited stays |
| Server start and stop (`cmd/specgraph/serve.go`, `connector.go`) | handler, store, probes, cleanup | connect, bootstrap, wire, probe, shut down | ready means usable; it gets ready; it stops |
| Notification, migrations, authoring rules, rendering, telemetry, docker | none that is modelled | text and I/O | not modelled |

`PROJECT.json` lists each with its files, its status and what is left out.

### Interaction

A handler validates its message, asks the `Scoper` for the store of the request's
project, and calls one store method, or several inside `RunInTransaction`. Store
methods called inside a transaction join it. Specs, claims, edges and the
changelog are shared by all of them: an amend reads and deletes claim rows, a
completion writes the spec row, the sweeper deletes claims and edges that any
request may be reading.

### What is hard

* **Reads that lock nothing.** Nearly every operation reads a row, decides, and
  writes later. Some re-check in the `WHERE` clause (update, amend, abandon), some
  take the row first (supersede, key quota), some do neither (completion, lease
  renewal).
* **Time.** `ClaimSpec` and `Heartbeat` read the clock before their transaction;
  leases end while requests are under way.
* **Two representations of one fact**: claim row and CLAIMED_BY edge;
  `superseded_by`, `supersedes` and the SUPERSEDES edge; the row and its hash;
  the row's history and the changelog.
* **Failures.** Any statement may fail; the transaction then rolls back and its
  locks go.
* **Progress.** Expired claims are released by a ticker only; supersede holds two
  row locks; a server that starts without its database must get ready, and stop.
* **The world outside.** A tracker that takes a request and loses the answer, an
  identity provider that is slow, a user who edits the file a command replaces, an
  import that stops half way.

The hazards, each at its line, are in `PROJECT.json`; every one names the
properties that would catch it, or says why none does.

## 2. Plan

Done, in this order; a later module composes or extends an earlier one: `Stages`;
`ClaimLease` and its abstract `Lease`; `SpecLifecycle`; `Slices`; `Decisions` and
`Conversations`; `DependencyDrift`, `ExternalSync` and `ExportImport`; `ApiKeys` and its
abstract `KeyRing`; `Logins`, `Bearers`, `UsageTracker`; `Access` and `Clients`; `ManagedFiles`,
`Constitution`, `GraphLint`; `ServerLifecycle`.

Every safety invariant, action property and refinement that a run checks is also
proved for every value of the constants (section 5). Left to do: an abstract
specification, in the manner of `Lease` and `KeyRing`, of the spec row's history, with
the implementation proved.

## 3. Modules

| Module | What it is |
|---|---|
| `Stages` | stage values, `stageIndex`, `PrecedingAuthStage`, `ValidateTransition` |
| `ClaimLease` | claim protocol: one action per statement that may see another transaction's commit |
| `SpecLifecycle` | spec row, content hash, changelog, version reconstruction, supersede |
| `Lease` | what claims promise: one holder, one lease, and who may end it; `ClaimLease` implements it |
| `Slices` | the slices of a decomposed spec: reconciliation, slice claims, client edges |
| `Decisions` | decisions: created, promoted, updated, accepted on approval |
| `Conversations` | conversations chained by edges; findings of analytical passes |
| `DependencyDrift` | hashes on DEPENDS_ON edges, their refresh, the drift check |
| `ExternalSync` | pushing specs to a tracker that loses requests and answers |
| `ExportImport` | export, import step by step, verification |
| `ApiKeys` | the keys of one account: quota, rotation, revocation, deletion |
| `KeyRing` | what an account's keys promise: by what a key may come, and what ends it; `ApiKeys` implements it |
| `Logins` | login flows, first login, role synchronisation, command-line codes |
| `Bearers` | resolving a credential; the introspection cache |
| `UsageTracker` | the batched `last_used_at` updates |
| `Access` | which role may call which procedure |
| `Clients` | MCP tools and commands: arguments, calls, the caller's role between them |
| `ManagedFiles` | files that `init` and `doctor --fix` keep in a project |
| `Constitution` | the merge of layers, their import and refresh |
| `GraphLint` | the linter's walk and the ready set |
| `ServerLifecycle` | start, degraded start, bootstrap, wiring, probes, shutdown |
| `Handlers` | the constants the components share |
| `MC...` | compositions, model values and symmetry for TLC |
| `...Proofs` | theorems and their proofs |

### How a transaction becomes actions

Under READ COMMITTED every statement sees what is committed when it starts. A
statement that only reads, or that finds no row to write, is a step of its own: a
commit of another request may come before the next one. From the first row a
transaction writes (or selects `FOR UPDATE`) to its commit, no other transaction
can write that row, so the writes that follow it *to the same row and to rows
only reachable through it* are one step with the commit. `ClaimPrune`, for
example, is one step with the INSERT and the edge when it deletes an expired row,
and only the DELETE when there was none. Where a transaction holds one row and
still reads others, the lock is a variable (`lock`) and waiters are disabled.
Writes become visible at the commit. `Rollback(r)` may end a request before any of
its steps: a lost connection, a cancelled context, a deadlock that PostgreSQL
broke.

### `ClaimLease`

| Model | Code |
|---|---|
| `claims`, `edges` | tables `claims` and (CLAIMED_BY) `edges` |
| `stage`, `version`, `log` | `specs.stage`, `specs.version`, checkpoint entries of `changelog_entries` |
| `clock` | `s.now()`; `Tick` advances it |
| `lock` | row lock of a spec held by a transaction past its UPDATE |
| `req` | per handler: operation, next statement, what it read |
| `ClaimSpec`, `ClaimPrune`, `ClaimCheck`, `ClaimRefresh`, `ClaimInsert` | `ClaimSpec` (`pg/claim.go`), statement by statement |
| `Heartbeat`, `HeartbeatUpdate` | `Heartbeat`: the clock, then one guarded UPDATE |
| `UnclaimSpec`, `ReleaseClaim`, `ReleaseEdge` | `UnclaimSpec` and the two DELETEs that release |
| `LifecycleAmendSpec`, `LifecycleAbandonSpec`, `GuardedUpdate`, `SeekClaim` | pre-read, guarded UPDATE, `releaseActiveClaim` (`pg/lifecycle.go`) |
| `RecordCompletion`, `CompletionRead`, `CompletionUpdate` | `pg/execution.go`: assert, read, UPDATE without a guard |
| `TransitionStage` | a stage of the funnel taken meanwhile |
| `ReleaseExpiredClaims` | the sweep, scoped to `Swept`, the sweeper's project |

Specs start where authoring can have left them (`InitStages`), with the log
authoring leaves.

### `SpecLifecycle`

| Model | Code |
|---|---|
| `specs` | the row: intent (with priority and complexity), notes, stage, outputs, links, hash, version; version 0 is "no row" |
| `log`, `past` | `changelog_entries` with the old values an entry records; `past` is a history variable with the row each version stood for |
| `contenthash`, `recomputeContentHash`, `UpdatedHash` | `contenthash.Spec`, collision-free; the two ways the code computes it |
| `CreateSpec`, `Spark`, `Shape`, `Specify`, `Decompose`, `Approve` | the handlers' transactions: guarded transition, entry, output, hash, second entry when the hash changed |
| `UpdateSpec`, `UpdateWrite` | pre-read and `UPDATE ... WHERE version`; entry only when the hash changed |
| `LifecycleAmendSpec`, `LifecycleAbandonSpec`, `LifecycleWrite`, `WriteRefused` | amend and abandon |
| `RecordCompletion`, `CompletionWrite` | the unguarded UPDATE and its entry |
| `LifecycleSupersedeSpec`, `SupersedeLock`, `SupersedeCommit`, `SupersedeRefused` | both `SELECT ... FOR UPDATE`, the checks, both UPDATEs, edge and entries |
| `SinceVersion`, `Undone` | the undoing loop of `GetSpecAtVersion`; `ListChanges` orders by version alone, so entries of one version come in any order and the result is a set |

| `edges`, `AddEdge`, `RemoveEdge` | the SUPERSEDES rows of `edges`, and the two RPCs by which clients write any edge (`internal/server/graph_handler.go`, `pg/graph.go`); `ClientEdges` are those they name, and `byHand` is a history variable with the edges that are there or missing by such a call |

Slugs are numbers in lexicographic order, because supersede compares them.
`MaxGrowth` bounds the versions that a spec gains over its initial one.

### `Slices`

| Model | Code |
|---|---|
| `stage`, `listed` | `specs.stage` and `decompose_output.SliceSlugs` of the parent |
| `slices` | table `slices`: status, assignee, `depends_on`; status "none" is "no row" |
| `edges`, `manual` | the rows of `edges` that touch a slice; `manual` is a history variable with the edges a client added or removed |
| `Decompose` | the handler's guarded stage UPDATE, which takes the parent's row, and the DELETEs of the edges of the pruned slices |
| `DecomposeCommit`, `Reconciled`, `OldDependsOn`, `NewDependsOn`, `OwnEdges`, `StoredSlugs` | the rest of `StoreDecomposeOutput` (`pg/authoring.go`): prune, update or create, rebuild DEPENDS_ON, store the list, commit |
| `ClaimSlice`, `CompleteSlice` | one guarded UPDATE each (`pg/slice.go`) |
| `AddEdge`, `AddEdgeInsert`, `RemoveEdge` | `pg/graph.go`: the existence checks, the INSERT, the DELETE |
| `Approve`, `LifecycleAmendSpec` | the way round to another decomposition, as the slices see it |

The pruning DELETEs are a step before the commit because an edge that another
transaction inserts after them is not seen by them. Slices of one parent only are
modelled; the body of a slice is its `depends_on`.

### `Lease`

The abstract specification: `holder` and `until` of each spec, and the calls that
are under way, each with the lease end that it asks for (`Submit`). Only `Serve` of
such a call and `Sweep` change a lease. By `Give` an unclaim or completion of the
holder, an amend or an abandon ends it; by `Take` a claim gets a spec whose lease is
not live; by `Renew` the end moves, to what the call asked for and to nothing else:
a heartbeat's for its own agent, and a claim's that did `Find` its agent to be the
holder at some time since it came. `Sweep` ends leases that have expired. `Pass` is
the clock.

The lease does *not* promise that a live lease keeps its end: the holder may have
changed between `Find` and `Renew`, since the UPDATE of `pg/claim.go:86` names no
agent, and the end asked for may have passed by then. The spec stays with its holder
all the same, until somebody else claims it or the sweeper comes.

`ImplementsLease` in `ClaimLease` maps the claims table to it (`heldBy` and
`heldUntil` are the rows, `CallOf` is what a request asks for and `served` the
calls under way): whatever the statements do, each commit is one of
these steps or none.

### `Decisions`, `Conversations`

| Model | Code |
|---|---|
| `dec`, `shaped`, `decided`, `decStage` | table `decisions`; the decisions that each spec's shape output names; the DECIDED_IN rows of `edges`; the citing spec's stage |
| `CreateDecision`, `DecisionAlreadyExists`, `StoreShapeOutput`, `MissingEdge`, `FreshEdges` | look up, insert; the unique slug decides a race (`pg/decision.go`, `pg/authoring.go`); the edges that a shape output adds to those there |
| `UpdateDecisionRead`, `UpdateDecisionWrite`, `VersionMatches`, `ErrConcurrentModification` | the unlocked read, the UPDATE with or without an expected version, the rehash under its lock |
| `AddDecidedIn`, `RemoveDecidedIn` | AddEdge and RemoveEdge of a DECIDED_IN edge by a client; `unlinked` and `overlooked` are history: the edges so removed, and those missing when a spec's last approval listed its decisions |
| `ApproveRequest`, `ListDecidedIn`, `acceptLinkedDecisions` | the approval's loop over the decisions to which its spec has an edge |
| `convs`, `convEdges`, `explains` | conversation entries, AUTHORED_VIA / CONTINUES and EXPLAINS edges |
| `RecordConversation`, `RecordConversationTail`, `RecordConversationInsert` | the spec, the unlocked tail, the INSERTs (`pg/conversation.go`) |
| `StageHandler`, `ApproveReject` | the handlers that record in the transaction of their transition |
| `StoreFindings...`, `FindingEdgesAfter` | DELETE, INSERT and edges of a replacement (`pg/findings.go`) |

A transaction's own writes are kept with its request (`own`) until `DecCommit` or
`ConvCommit`; rows that it has written are locked. The date of a log entry is its
insertion number, so entries may become visible out of order.

### `DependencyDrift`, `ExternalSync`, `ExportImport`

| Model | Code |
|---|---|
| `node`, `link` | content, stage and hash of specs and decisions; `content_hash_at_link` |
| `DriftAddEdge`, `DriftInsertEdge`, `Refreshed`, `LifecycleAcknowledgeDrift`, `DriftComplete` | who writes link hashes: what is read before, what is written at the commit |
| `DriftCheck`, `GetDependenciesWithEdgeData`, `checkSpec`, `Drifted` | the engine: edges by one statement, each upstream by another |
| `moments` | history: what was true while a check ran |
| `item`, `mapping` | the tracker's items; `sync_mappings` |
| `GetSyncMapping`, `Find`, `FindOrCreate`, `Push`, `CreateSyncMapping`, `AfterFailure` | one spec of a sync; a push or an INSERT may fail before or after it took effect |
| `Find`, `Strangers`, `overlap`, `missed`, `strayed` | the search is one of words in titles of open items, takes the first hit and compares no title (`internal/sync/github.go:131`, `beads.go:99`), so `Find` answers any item that exists or none; the histories say for which specs two searches came before a push, a search did not return the spec's item, or returned another's |
| `xdb`, `xfile`, `ximp` | the project, the exported document, the import's position |
| `Import`, `WipeProjectData`, `WriteLayers`, `ImportCreateSpec`, `Replay`, `RestoreStage`, `ImportDecision`, `RestoreStatus`, `ImportSlice`, `ImportEdge`, `ImportFinding`, `ImportConversation`, `ImportMapping` | `writeEntities` in its order, one step for each call of a loop; `Fail`, a warning or `ImportStops` at any of them |
| `XCreateSpec` to `XTalk`, `xgone`, `xfresh` | what users do before the export and meanwhile; history of what they took away and of the specs they created since the import looked |
| `collect`, `changelog`, `validateRefs`, `verifySignature`, `Verify` | pure functions of project and document, the changelog that storage calls leave included; a server without a key takes a signature as it is; `Retouched` is a document edited outside |

### `ApiKeys`, `Logins`, `Bearers`, `UsageTracker`

| Model | Code |
|---|---|
| `kKeys`, `LockUser`, `CountKeys`, `CreateAPIKeyForUser`, `OwnRevoke`, `RotateInsert` | `FOR UPDATE` on the user, the count, the insert; own rotation (`pg/users.go`) |
| `CreateAPIKey`, `InsertAPIKey`, `AdminReadOld`, `AdminRevoke`, `ListAPIKeys`, `ResyncRevoke` | the administrator's creation, rotation and resynchronisation, which do not lock the user; the list that the last one goes by has at most `ListLimit` keys |
| `DeleteUser`, `SnapshotKeys`, `DeleteCommit` | `SoftDeleteUser`: the UPDATE of the user, then one UPDATE of the keys that it sees |
| `FreeUser`, `FreeForKey` | the two strengths of the user's row lock: `FOR UPDATE` of a mint or an own rotation and the deletion's UPDATE exclude each other; the foreign key of an INSERT waits for the former only |
| `lFlows`, `ConsumeLoginFlow`, `handleCallback`, `handleCLIExchange`, `ExchangeCLICode` | flows and codes: DELETE ... RETURNING, FOR UPDATE and delete (`pg/web_auth.go`) |
| `LookupOIDCBinding`, `jitResolve`, `JITCreateHuman`, `applyLoginSync` | `materializeIdentity` |
| `bCache`, `cacheGet`, `cachePut`, `Introspect`, `Decide`, `Answer` | `internal/auth/introspection.go`, with a clock; `ProviderKinds` tells providers that know the token and report its `exp`, that know it and do not, and that do not know it |
| `resolveAPIKey`, `resolveSession`, `resolveJWT`, `LoadUser` | the resolver's branches, each lookup a step |
| `uQueue`, `uPending`, `Touch`, `drain`, `flushAll`, `TouchLastUsed`, `Close` | the channel, the map of a flush, the goroutine, and a write that may fail (`uFailed`), which is logged and not tried again |

### `KeyRing`

The abstract specification of an account's keys: `account`, of each key `status`,
`maker` and `source`, and of each deletion under way (`ending`) the keys that it `saw`
in use. A key comes by `Mint`, only below the quota and while no deletion is under way,
by `Create`, or by `Rotate` in the step that revokes its source, which must be in use;
the administrator's rotation, which counts no rows, may also `Replace` a key that is
revoked already. Keys go by `Revoke`, `Expire` and `Purge`; none is ever in use again.
A deletion does `Look` at the keys and then `Delete`s, which revokes every key that it
saw and that is still in use, or it does `GiveUp`.

A deletion is *not* promised to leave no key. Its UPDATE of the user sets no column of a
key and so takes `FOR NO KEY UPDATE`, with which the `FOR KEY SHARE` of an INSERT into
`api_keys` does not conflict: what an administrator creates or a rotation brings after
the look stays active. `Bearers` has what protects the server then: the credential of a
deleted user is refused.

`ImplementsKeyRing` in `ApiKeys` maps the rows to it (`statusOf`, `makerOf`, `sourceOf`,
`endingNow`, `sawOf`); locks, counts and lists are the implementation's own.

### `Access`, `Clients`

`procedureActions`, `basePolicy`, `Authorize` and `Intercepted` are the tables and
the decision. `ChangedBy` says what the handler of a procedure may change: the row of
the project, which `scopeStore` inserts when a request names a new one, reads included;
the project's data; accounts (`IdentityService`); the caller's own keys. A
tool or command of `Clients` is the arguments it insists on and the calls it
makes. `Invoke` checks the arguments; `Intercept` authorizes the next call by the role
that the caller has then; `Serve` runs its handler, which in `Miss` refuses or fails part way;
`Reassign` changes the role at any time, also between the last two. `cPast` and `cWrites`
count, from a demotion on, the calls that had passed the interceptor and those that
wrote. `StageAfter` and `AmendHint` give what an amend answers and what the funnel
accepts.

### `ManagedFiles`, `Constitution`, `GraphLint`

A managed file is whose text its managed part is, which text the sentinel vouches
for, and what is around it; `Classify` and `Rendered` are the strategies,
`SyncClassify`, `SyncWrite` and `RemoveSuperseded` the steps of a command under the
file's lock, which JSON files do without; the user edits at any time.
`MergeLayers` is one turn of the loop of `merge.Layers`: it takes the next entry of the
layer at hand or of a more specific one and applies `MergeScalar`, `MergeList` and
`MergeKeyed` to it; `Rebuilt` is the slice made from map and order at the end. `cSaid` is
the history of the entries read, so that the result can be compared with the entries
after any number of turns.
`RefreshConstitutionLayer`, `RefreshCompare` and `RefreshWrite` are a refresh, whose
source changes and beside which imports and updates write. `UpdateConstitution` stores
the source and the hash that come with a client's message, beside whatever content;
`cGiven` is the history of the layers whose hash came that way. `lintSpec`, `dfs` and
`dfsReturn` are the walk over what `GetDependencies` answers, in a project of at most
`MaxSpecsPerLint` specs. `GetReady`'s condition `provenance_type = 'authored'`
(`pg/graph.go:367`) is left out, since specs of another provenance never get approved
(`docs/superpowers/specs/2026-05-20-spec-provenance-model-design.md:223`).

### `ServerLifecycle`

`srv[v]` has the position of main, of the connecting and wiring goroutine (`wire`)
and of the shutdown goroutine (`down`), the handler in place, the store, and what
`/readyz` answers. `Dial` to `mintBootstrapKey` are `connectStore` and
`bootstrap.Ensure`; `Activate`, `buildAppHandler`, `SwapHandler`, `PublishStore` and
`RegisterCleanup` the closure that activates; `Probe` the ticker of the probes;
`BeginShutdown`, `Drain` and `RunCleanup` the end. `PeerCreates` and `PeerMints`
stand for another process that bootstraps the same database, and may stop between
the two.

## 4. Runs

Passing runs:

| Run | Bounds | Shows |
|---|---|---|
| `claim_race` | 1 spec, 2 agents, 2 requests of any kind, leases 1 and 2, clock to 3, version to 7 | `TypeOK`; `NoDanglingEdge`; `GuardedWriteCurrent` (an amend or abandon is applied to the version it was decided on); `LogNotAhead`; `ImplementsLease` (the refinement: no stale clock, slow request or sweep hands a live lease to another agent or deletes it, its end moves only to a time that a renewal under way asked for, and no claim appears that nobody asked for); `RewindsOnlyAmendable` |
| `claim_progress` | 1 agent, 2 requests, clock to 2, fair | `SweptClaimsReleased`, `RequestsFinish` |
| `spec_history` | 1 slug not yet created or approved, 2 intents, 2 requests, 5 versions more | `TypeOK`, `VersionIdentifiesRow`, `HashNamesRow`, `IntentReconstructed`; `FunnelOutputsPresent` through amends and re-authoring |
| `supersede` | 2 approved specs, 2 requests, 2 versions more each, a client that adds and removes one of the two edges; fair | `SupersessionLinked`; `ClosedButForCompletion`; `RequestsFinish`: opposite supersedes of specs that exist do not wait for each other |
| `records` | `Slices`: 2 slice IDs, 2 agents, 2 client edges, no counter. `Decisions`: 1 decision, 2 citing specs, 1 text, 2 statuses that clients set, a client that links and unlinks the decision at one of the specs, version to 3. `Conversations`: 2 passes, 3 stages, version to 3, 2 entries. 2 requests | `RecordsTypeOK`; `SliceReferencesExist` (the stored list, by which pruning goes, is the set of rows, and dependencies exist); `SiblingEdgesAgree`; `WorkKept` (re-decomposition does not undo a claim or a completion); `UpdatesSeeLast`; `ApprovedDecisionsSettled`; `LogWhole` |
| `exchange` | `DependencyDrift`: 2 specs, 1 decision, 1 edit. `ExternalSync`: 2 specs, 3 items, one of which is a stranger's. `ExportImport`: 2 specs, of which users link, analyse, discuss and synchronise one, 1 decision, 1 item, 1 action of a user meanwhile. 2 requests | `ExchangeTypeOK`; `ReportJustified`; `SyncedOnce`; `ImportSound` |
| `services` | keys: 3, quota 1, lists of 2; tracker: 2 keys, buffer 2; 2 flows, 2 users; clock to 3, cache and timeout 1; all tools and commands; 2 layers, of which a client writes one with a source and a hash of its own; merges of up to 4 entries with 3 keys (one empty) and 2 texts or a tombstone; all graphs of 3 specs. 2 requests | `ServicesTypeOK`, `CloseFlushes`, `LoginsSound`, `DeadNeverAccepted`, `ClientsFitServer`, `MergeFollowsPrecedence`, `LintCleanMeansReady`, `EditsSurvive`, `UnchangedMeansSame`; `ImplementsKeyRing` (the refinement: a mint that counted is still below the quota when it inserts, whoever creates and rotates meanwhile; a rotation's two writes show at once; a deletion revokes all that it found in use) |
| `server_lifecycle` | 1 server started twice, a peer that bootstraps, 2 refused credentials are fatal; fair | `ReadyMeansUsable`, `BecomesReady`, `StopsWhenTold` |

`records`, `exchange` and `services` each check several components that share no
variable: the initial state chooses the component in `focus`, and only that one
moves. The state space is then the sum of the components' and not their product,
and nothing is lost, because a property speaks of one component only.

Runs that refute what a comment of the code or a document says, each with a finding in
`PROJECT.json`:

| Run | Refuted | Why |
|---|---|---|
| `late_completion` | `CompletionHoldsClaim` | the claim check is an unlocked read nothing repeats |
| `stale_renewal` | `ClaimReplyNamesHolder` | a renewal picks the row by spec, not by agent |
| `hash_coverage` | `HashCoversOutputs` | `UpdateSpec` hashes without the stage outputs (`pg/spec.go:657`), which `site/docs/concepts/spec-graph.md:98` says the hash covers after every update |
| `import_round_trip` | `CleanImportRestoresStage` | storing an output does not move the stage, so a spec at shape, specify or decompose comes back as a spark |

Other places where the modelled code does less than a comment says, seen while the
model was built and kept here as notes: a heartbeat sets the expiry to now +
extension and so may move it back (`pg/claim.go:187`); supersede's first `FOR
UPDATE` locks nothing when the slug has no row yet, so two opposite supersedes can
meet at their UPDATEs if the spec is created in between (`pg/lifecycle.go:152`;
PostgreSQL breaks the deadlock, which is `Rollback`); a notes-only update makes no
changelog entry, and a stage handler makes two of one version with different
hashes, so `GetSpecAtVersion` cannot give back notes and hash of every version
(`pg/spec_version.go:59`); a claim may be taken on a closed spec and completes it
(`pg/execution.go:117`; `ClosedButForCompletion` says that nothing else does).

What else the models show of the code, each part of a module's actions and of no
property, because the code says nothing to the contrary or a comment accepts it:

* Claims and specs: the one sweeper is scoped to one project, so expired claims of
  other projects wait for the next claim; a claim that found its agent to be the
  holder and was then overtaken moves the end of the new holder's lease, into the past
  even (`pg/claim.go:86`); since `UpdateSpec` hashes without the outputs, a notes-only
  update changes the hash and raises drift downstream.
* Edges: `AddEdge` and `RemoveEdge` take every type of edge, so clients can make and
  delete SUPERSEDES edges that no row's links mention or that they do, and an approval
  leaves a decision proposed whose DECIDED_IN edge a client removed.
* Graph: `AddEdge` checks its nodes by unlocked reads and inserts later, so an edge
  to a pruned slice may stay; it refuses no cycle; a dependency on an abandoned spec
  is never ready. A drift check may miss an upstream that changes and changes back,
  and reports every upstream decision, in step or not, as "not found"
  (`internal/drift/drift.go:131`); the drift
  and lint engines get the unscoped store (`cmd/specgraph/serve.go:257`).
* Records: two conversations may continue the same entry; two replacements of one
  pass may leave both batches of findings.
* Sync: two syncs that search before either creates make two items; so does a search
  that misses the item, closed or not yet indexed; a search that returns another title's
  item maps the spec to it (`internal/sync/github.go:131`, `beads.go:99`).
* Import: no transaction surrounds it, so a failure after the wipe leaves part of
  the document; a document with slice edges or decision changes is refused by
  `validateRefs`; `StoreShapeOutput` re-creates decisions, so `CreateDecision` then
  aborts. Changelogs are not restored (`internal/export/engine.go:583`) and conversations
  get new versions, so `Verify` reports differences after a clean import.
* Keys: the administrator's rotation checks no affected rows, so two of them leave two
  successors; a key that is inserted after the deletion of its user has looked stays
  active, although `pg/users.go:284` says that the deletion revokes all active keys in
  the same transaction, and the resolver refuses it; the list that `ResyncUserRole`
  revokes by has at most 100 keys (`internal/server/identity_handler.go:672`);
  `RotateMyAPIKey` accepts an expired key, so a rotation may exceed the quota that mints
  keep.
* Logins: with synchronisation on, a login overwrites an administrator's concurrent
  change of role; a subject that was unbound is created again by its next login.
* Tokens and touches: an introspection answer without `exp` is cached for the full
  lifetime, past the token's expiry (`internal/auth/introspection.go:138`); the tracker's
  `Close` returns nil after writes that failed
  (`internal/auth/usagetracker/usagetracker.go:113`).
* Authorization: a read that names a new project inserts its row
  (`internal/server/project.go:52`).
* Server: a wiring that ends after the cleanup leaves its store open; the token of a
  bootstrap that a server made before it died is printed by nobody.
* Managed files: JSON files are merged without the lock; `doctor --fix` leaves
  edited files alone.
* Constitution: of two concurrent refreshes the last writer wins; a local import clears
  the source; `UpdateConstitution` believes the hash that comes with a message, so a
  client that sends back an edited layer with the hash it was served hides the edit from
  the next refresh (`internal/server/constitution_handler.go:115`); the `$delete`
  directive that `site/docs/concepts/ground-truth.md` describes is no part of the
  import.

### Bounds

Two requests are enough for every race listed: each is between one request that read and
one that wrote since. A handler is free again once it has replied, so the second request
may be followed by a third and a fourth kind of operation while the first is still under
way. One spec is enough except for supersede (two slugs) and for the scope of the
sweeper (one spec inside, one outside). Two slices are one that stays and one that is
pruned, with a dependency between them; a third adds no new relation. A decision cited
by two specs is the shared one; its statuses tell an overwritten update. Three
conversation stages are the first, one in the middle and the approval. Three items are
one for each spec, or two of one, and a stranger's. A quota of 1 with 3 keys has a mint,
a rotation and one too many, and lists of 2 one that is cut off. Four entries of a merge
are a key said, deleted and said again, and another key before, between or after. Graphs
of 3 specs have every shape of a cycle through DEPENDS_ON and BLOCKS, but not the
linter's limit of 1000 (`MaxCycleDepth`), beyond which it gives up with a message. Other
servers are `PeerCreates` and `PeerMints`, all that a second server does to the first.
Leases of 1 and 2 with a clock to 3 let a lease expire, be renewed, and expire again,
with requests that hold a clock up to three ticks old. `MaxVersion` leaves room for an
amend, a re-approval and a completion after the initial version; five versions more
(`MaxGrowth`) for a whole funnel, or for an amend and the way back to the approval, and
two for the supersede of a spec beside one other write; `RoomFor` and `RoomToBump` count
the requests under way so that the bound never cuts a transaction in two. Symmetry is
over agents and requests, in runs without liveness. Deadlock is not checked: with every
bound reached and every request answered, the system rests.

### Fairness

* The sweeper: its ticker fires for as long as the server runs, so a sweep that
  stays enabled is taken (weak fairness).
* A handler that can take its next statement takes it: goroutines are scheduled
  and the pool hands out connections (weak fairness).
* A statement that waits for a row lock: PostgreSQL queues the waiters of a row,
  so a lock freed again and again is had in the end (strong fairness).

* The server (`SLFairness`): goroutines are scheduled, a connection attempt ends,
  and timers fire (weak fairness of connecting, wiring, running and probing).
  `BecomesReady` assumes in addition that the database is up from some time on.

`Rollback`, `Tick` and the arrival of requests are not fair: a failure, a clock
that runs on or a client is never needed for progress; neither are signals, the
database's comings and goings, and the other server.

## 5. Proofs

Checked by TLAPS for every value of the constants; the assumptions are the named
`ASSUME`s of the modules, which TLC evaluates in the runs. They say that numbers are
numbers, that a bound or buffer is not zero where the code makes one, and that
`None` is no request, user, document or key. A component that a run checks beside
others has a specification of its own (`USpec`, `BSpec`, `LSpec`, `KSpec`, `CSpec`,
`CoSpec`, `MSpec`, `GSpec`, `DecSpec`, `ConvSpec`, `DriftSpec`, `SyncSpec`,
`ImportSpec`), and its theorems are about that one: the proofs do not use that the
run lets one component move at a time. The type theorems (`RecordsTyped`,
`ExchangeTyped`, `ServicesTyped`) are about the compositions.

The claims and the spec rows:

* `TypeCorrect` (`ClaimLeaseProofs`): `Spec => []TypeOK`. The types alone are not
  inductive: a step writes the row its request names, so `RequestOK` (a request
  under way names a spec and, where it will write one, an agent) goes with it.
* `EdgesFollowClaims` (`ClaimLeaseProofs`): `Spec => []NoDanglingEdge`, from
  `TypeOK /\ RequestOK /\ NoDanglingEdge`. The argument is per statement: a step
  that replaces or removes a claim row leaves at most the edge of the new holder,
  and the ones that delete an edge only can but shrink the set.
* `GuardedWritesCurrent`, `ChangelogBehindRow` and `RewindsAreAmends`
  (`ClaimLeaseProofs`) from `IInv`, which adds `RequestsFormed` (which
  operations can be at which statement, and that only an amend goes to a re-entry
  stage), `ClaimsInPast` (a claim's reading of the clock is at most the clock),
  `RowsOwned` (whoever is past its UPDATE has the row's lock and, if the UPDATE was
  guarded, the version it names is the row's) and `LogNotAhead` itself.
* `LeasesImplemented` (`ClaimLeaseProofs`): `Spec => ImplementsLease`. The initial
  states map to those of `Lease`; then one step per action. `ClaimsInPast` is what
  makes it go through: a lease that a stale request takes for expired has expired by
  the clock too. Each statement that changes a claim is a `Serve` of a call that is
  under way and gives the lease the end that this call asked for; a claim that is at its
  refresh has done `Find`, and a sweep takes expired leases only.
* `VersionsIdentifyRows` and `HashesNameRows` (`SpecLifecycleProofs`), from
  `IInv == Typed /\ RequestOK /\ VersionIdentifiesRow /\ HashNamesRow`. The two
  need each other: `UpdateWrite` computes the hash from the row it *read*, which
  is the hash of the row it writes only because the version guard makes the two
  the same; and the version names the row because every commit that changes it
  bumps the version (`SpecsGrow`), the output of a stage included, which is stored
  in the transaction of the transition. `QuietStep` proves that once for all
  actions that write a good row one version up and do not let a request believe
  it read something else.
* `RowsTyped`, `FunnelOutputsKept`, `SupersessionsLinked`, `IntentsReconstructed` and
  `ClosedStayClosed` (`SpecLifecycleProofs`) from `FullInv`. Every step leaves a slug
  alone or takes its row one version on (`Grown`), so most actions are proved once.
  `AllFilled` says of a row at any stage what `FunnelOutputsPresent` says of the
  funnel's, and that no row is at a stage which nothing enters, so that only an approved
  spec is amended; `TargetsOK` that an abandon goes to abandoned; `FreeIsBlank` that a
  slug without a row has no links either. `SupersessionsLinked` is about `Linked`, the
  edges as they would be without what clients did to them by hand: `AddEdge` and
  `RemoveEdge` leave it as it is, and a supersede, which writes its edge anew, takes the
  edge out of `byHand`. `IntentsReconstructed` is an induction along the steps and not
  over the versions: `PastOK` (the history has one row a version, the last is the
  current one) and `IntentNumbered` (no entry that records an intent is ahead of the
  row) make the entry of a new version the newest, and undoing it leads back to the
  state before the step, for which all versions are already known to come out.
* `StagesProofs`: the lemmas on `stageIndex` and `PrecedingAuthStage` the others
  cite.
* `ReferencesResolve`, `EdgesFollowDecomposition` and `WorkIsKept`
  (`SlicesProofs`), from one invariant. Beside the three properties it needs
  `PruneOK` (between its two steps a Decompose keeps the parent's row, what it has
  deleted touches pruned slices only, and an edge of a pruned slice that appeared
  since is a client's), `InsertOK` (whoever inserts has an edge to insert),
  `BareSlices` (an ID without a row has no dependencies, so that a slice pruned
  and created again starts clean) and `OpenFree` (an open slice has no assignee,
  which is why a claim cannot take one away). `CommitIInv` is the heart: the edges
  left after pruning and clearing, with the new ones, are those of the new
  decomposition.

What is recorded beside the rows (`RecordsProofs`):

* `UpdatesSeeTheLast` and `ApprovalsSettleDecisions`, from `DecInv`. A decision's row
  is changed under its lock only and keeps its version or gains one; an update that
  read a row of at least the version it expects, and wrote over a row of exactly
  that version, read the row it wrote over. An approval has settled the decisions
  its loop is done with (`OwnFine` for what it has not committed yet), and who
  unsettles one has set it back to proposed. The loop's list is the edges that were there
  when it was read; a decision of the shape output that is not among them had lost its
  edge to a client (`unlinked`), which is then recorded as overlooked.
* `LogsStayWhole`, from `ConvInv`: a conversation's number is drawn once and later
  than the numbers of all that are committed, so that the edges which a
  transaction brings along are those of its own conversation alone.

What compares the project with a copy of it (`ExchangeProofs`):

* `SyncedOnceHolds`, from `SyncInv`: who creates an item for a spec that nobody else
  pushes and that no search missed knows that there is none, and who maps a spec holds
  an item that exists, its own unless a search strayed, also after an answer was lost.
* `ReportsJustified`, from `DriftInv`: while a check has an edge still to look at, either
  the history has a moment at which edge and upstream disagreed, or both are what
  they were when the edges were read. No step changes the hash of an upstream and
  that of another spec's edge to it at once, which is the reason why the reports
  are justified although they come from several statements. Of a decision all that is
  kept is that the edge was there.
* `ImportsAreSound`, from `XInv`: `Restored` says for each phase of the import what the
  phases before it have brought back, for the loop in hand which of its calls are done,
  and that only a user takes any of it away before the import returns (`xgone`).

The services (`ServicesProofs`, `ServerLifecycleProofs`):

* `ClosedTrackerFlushed`, from `UInv`: a touch that is owed is in the channel or with the
  goroutine or its last write failed, and from the last flush on the channel has only
  touches made after Close.
* `DeadCredentialsRefused`, from `BInv`: what is dead stays dead, and a cached answer
  outlives neither an expiry that its provider reports nor, by more than a timeout and a
  cache lifetime, an expiry that it does not report or a revocation (`CacheBounded`),
  because the provider decided after it was asked.
* `LoginsStaySound`, from `LInv`: a callback past `ConsumeLoginFlow` is the only one that
  carries its flow (`FlowsCarried`), and an exchange holds the code's row.
* `QuotasHold`, from `KInv`: a mint has the user's row from its count to its insert, so
  the count is still an upper bound then; a rotation has the row of the old key,
  which is revoked for good when the successor comes. The mints are a finite set and
  the step is one of cardinalities (`MintsKept`, `MintsFinite`).
* `KeysImplementRing`: `KSpec => ImplementsKeyRing`. It needs `RingInv` beside `KInv`: a
  mint about to insert has counted all active keys and not only mints, and holds the
  user's row, which a deletion of an active account holds while it looks and revokes
  (`Guarded`), so that the two exclude each other; a rotation about to insert has locked a key
  in use, or is the administrator's and the key is revoked; and a row is locked by no
  request but such a rotation, so that its commit revokes no other key. One lemma
  (`OthersRing`) has what a step of one request leaves true of another; then one lemma
  per group of actions names the step of `KeyRing` that it is, or shows that it is none.
* `LayersMergeByPrecedence`, from `MergeInv`. What a loop computes from a sequence would be
  an induction over the sequence, which the provers cannot do; with one step for each
  entry and the entries read kept as history it is an invariant of the steps, for every
  set of keys and texts and any number of entries. `KeyedKnown` is stronger than the
  property in what it says of absent keys: each was deleted after its last mention, if it
  has one (`Gone`), which is why a key that is said again comes in anew, behind the others
  (`EntersLast`). That the order has each key once follows from the keys having come in
  one after the other (`OrderedOnce`), and it makes `removeString`, which removes the first
  occurrence, remove all there is (`RemovedOnce`). `InOrder` (later entries are of no less
  specific layers) turns "last" into "most specific". `ListKnown` and `ScalarKnown` are the
  same for strings (said first) and for scalars and maps (said last).
* `UnchangedLayersAreSame`, from `CoInv`: a row's hash is that of its entry, or that of no
  document where the row has no source, or it came with a client's message (`cGiven`).
* `UserEditsSurvive`, from `MInv`: a command that has read a file which nobody changed
  since may write its plan, because the plan keeps what the user wrote (`CmdFine`).
* `CleanGraphsGetReady`, from `GInv`. A set of specs is grounded if it holds what its
  specs wait for and each part of it has a spec that waits for nothing in that part. As
  long as the walk flags nothing, the specs that it has left are grounded, and a union
  of grounded sets is grounded. This takes the place of an induction over paths. Every
  spec starts a walk, because the project has no more than a run lists (`LintAssumption`).
* `FrontEndsFit`, from `ClInv`: the role counts when a call passes the interceptor and
  not when the tool was chosen, so the policy's table decides what readers can change,
  and of the calls that a demotion meets only the one that had passed can write
  (`cPast`); and from the tables of tools and commands only what was invoked as an
  amend, with a re-entry stage, calls `TransitionAmend`.
* `ServicesTyped` needs bounds that no other proof does: the channel's size (`UBound`),
  the age of a question (`BBound`), and that keys are numbered as they come, so that a
  key comes from an earlier one (`KBound`).
* `ReadyServersUsable`, from `SLInv`: what each step of the wiring has seen done before
  it (`Good`), which the steps of the other servers keep because none takes the
  administrator or its key away.

Only model-checked:

* liveness (`SweptClaimsReleased`, `RequestsFinish`, `BecomesReady`, `StopsWhenTold`):
  fairness and ENABLED are out of the prover's reach.

## 6. Not modelled

* Safety flags, the text of prompts and provenance detail, which stage handlers
  store and nothing modelled reads. The steel-thread check of a decomposition.
* Slice IDs with a `/` (whose child slugs may meet), and the text of a slice.
* Execution events (progress, blocker), which only append rows; the transitive,
  impact, critical-path and full-graph queries, which only read.
* Creation entries record each initial field as a change from nothing; they are at
  version 1 and are never undone, so their changes are left out.
* In an import: notes and the status of a slice, whose calls follow the pattern of sync
  mappings (an error is a warning), and execution events, which are refused for want of
  a claim, with a warning.
* Paging of users and of keys for display, service accounts, an administrator's
  binding of a subject; policies of a deployment's own.
* Hash collisions, clock skew between servers, the text of fields, formatting.
* Change notification (one subscriber, which logs), schema migrations (a library,
  before the server serves), authoring rules (text), the rate limiter (a library),
  rendering, telemetry, docker, signatures and secrets: libraries, cryptography and
  I/O.
