------------------------------- MODULE Access -------------------------------
(***************************************************************************)
(* Which role may call which procedure: the table of internal/auth/        *)
(* actions.go, the policies of internal/auth/policies/base.cedar and the   *)
(* engine, authorizer and interceptor that apply them, and what the        *)
(* handlers of internal/server change when they are let run.               *)
(***************************************************************************)
EXTENDS Naturals, Sequences

Roles == {"reader", "writer", "admin"}
knownVerbs == {"read", "write", "delete", "manage", "self"}

\* procedureActions, one entry for each domain and verb.
procedureActions ==
    [spec_read |-> {"GetSpec", "ListSpecs", "ListChanges", "CompareVersions"},
     spec_write |-> {"CreateSpec", "UpdateSpec"},
     decision_read |-> {"GetDecision", "ListDecisions"},
     decision_write |-> {"CreateDecision", "UpdateDecision"},
     graph_read |-> {"GetFullGraph", "GetDependencies", "GetTransitiveDeps", "GetImpact",
                     "GetReady", "GetCriticalPath", "ListEdges"},
     graph_write |-> {"AddEdge"},
     graph_delete |-> {"RemoveEdge"},
     claim_write |-> {"ClaimSpec", "Heartbeat", "UnclaimSpec"},
     constitution_read |-> {"GetConstitution", "EmitToolFiles"},
     constitution_write |-> {"UpdateConstitution", "RefreshConstitutionLayer"},
     authoring_read |-> {"GetPrompts", "ListConversations"},
     authoring_write |-> {"Spark", "Shape", "Specify", "Decompose", "Approve", "RecordConversation"},
     execution_read |-> {"GenerateBundle", "GetPrime", "GetExecutionEvents"},
     execution_write |-> {"ReportProgress", "ReportBlocker", "ReportCompletion"},
     lifecycle_read |-> {"CheckDrift", "Lint"},
     lifecycle_write |-> {"AcknowledgeDrift", "TransitionAmend", "TransitionSupersede", "TransitionAbandon"},
     sync_read |-> {"GetSyncStatus"},
     sync_write |-> {"SyncBeads", "SyncGitHub"},
     analytical_pass_write |-> {"RunAnalyticalPass", "StoreFindings"},
     analytical_pass_read |-> {"ListFindings", "ListProjectFindings"},
     export_read |-> {"ExportProject", "VerifyExport"},
     export_write |-> {"ImportProject"},
     slice_read |-> {"ListSlices", "GetSlice"},
     slice_write |-> {"ClaimSlice", "CompleteSlice"},
     identity_read |-> {"Whoami"},
     user_manage |-> {"ListUsers", "GetUser", "UpdateUserRole", "SoftDeleteUser", "PurgeUser",
                      "ResyncUserRole"},
     serviceaccount_manage |-> {"CreateServiceAccount"},
     apikey_manage |-> {"CreateAPIKey", "RevokeAPIKey", "RotateAPIKey", "ListAPIKeys"},
     oidc_manage |-> {"ListOIDCBindings", "UnbindOIDC"},
     apikey_self |-> {"CreateMyAPIKey", "ListMyAPIKeys", "RotateMyAPIKey", "RevokeMyAPIKey"}]

exemptProcedures == {"Health"}

\* actionVerb: the suffix of an action, tabulated.
actionVerb ==
    [a \in DOMAIN procedureActions |->
        IF a \in {"spec_read", "decision_read", "graph_read", "constitution_read", "authoring_read",
                  "execution_read", "lifecycle_read", "sync_read", "analytical_pass_read",
                  "export_read", "slice_read", "identity_read"} THEN "read"
        ELSE IF a = "graph_delete" THEN "delete"
        ELSE IF a = "apikey_self" THEN "self"
        ELSE IF a \in {"user_manage", "serviceaccount_manage", "apikey_manage", "oidc_manage"} THEN "manage"
        ELSE "write"]

\* base.cedar: a role is permitted whole groups of actions, by verb.
basePolicy ==
    [read |-> Roles, write |-> {"writer", "admin"}, delete |-> {"admin"},
     manage |-> {"admin"}, self |-> Roles]

ActionForProcedure(p) == {a \in DOMAIN procedureActions : p \in procedureActions[a]}

\* Evaluate: denied unless a policy permits.
Evaluate(role, action) == role \in basePolicy[actionVerb[action]]

\* Mutant: acknowledging drift is filed under the verb of checking it.
AuthorizeDriftAsRead(role, p) ==
    \E a \in ActionForProcedure(p) : Evaluate(role, IF p = "AcknowledgeDrift" THEN "lifecycle_read" ELSE a)

\* Authorize: a procedure without an action is an error, never a permission.
Authorize(role, p) == \E a \in ActionForProcedure(p) : Evaluate(role, a)

\* The interceptor: exempt procedures run for anyone, the others for an
\* authenticated and authorized identity.
Intercepted(role, p) == p \in exemptProcedures \/ (role \in Roles /\ Authorize(role, p))

----------------------------------------------------------------------------
(* What the handlers let through by the interceptor change.                *)

SpecService ==
    [reads |-> {"GetSpec", "ListSpecs", "ListChanges", "CompareVersions"}, writes |-> {"CreateSpec", "UpdateSpec"}]
DecisionService == [reads |-> {"GetDecision", "ListDecisions"}, writes |-> {"CreateDecision", "UpdateDecision"}]
EdgeService == [reads |-> {"ListEdges"}, writes |-> {"AddEdge", "RemoveEdge"}]
GraphService ==
    [reads |-> {"GetFullGraph", "GetDependencies", "GetTransitiveDeps", "GetImpact", "GetReady",
                "GetCriticalPath"},
     writes |-> {}]
ClaimService == [reads |-> {}, writes |-> {"ClaimSpec", "Heartbeat", "UnclaimSpec"}]
ConstitutionService ==
    [reads |-> {"GetConstitution", "EmitToolFiles"}, writes |-> {"UpdateConstitution", "RefreshConstitutionLayer"}]
AuthoringService ==
    [reads |-> {"GetPrompts", "ListConversations"},
     writes |-> {"Spark", "Shape", "Specify", "Decompose", "Approve", "RecordConversation"}]
BundleService == [reads |-> {"GenerateBundle", "GetPrime"}, writes |-> {}]
ExecutionService ==
    [reads |-> {"GetExecutionEvents"}, writes |-> {"ReportProgress", "ReportBlocker", "ReportCompletion"}]
LifecycleService ==
    [reads |-> {}, writes |-> {"TransitionAmend", "TransitionSupersede", "TransitionAbandon"}]
DriftService == [reads |-> {"CheckDrift", "Lint"}, writes |-> {"AcknowledgeDrift"}]
SyncService == [reads |-> {}, writes |-> {"SyncBeads", "SyncGitHub"}]
SyncStatus == [reads |-> {"GetSyncStatus"}, writes |-> {}]
\* RunAnalyticalPass composes a prompt and stores nothing.
AnalyticalPassService == [reads |-> {"RunAnalyticalPass"}, writes |-> {}]
FindingsService == [reads |-> {"ListFindings", "ListProjectFindings"}, writes |-> {"StoreFindings"}]
ExportService == [reads |-> {"ExportProject", "VerifyExport"}, writes |-> {"ImportProject"}]
SliceService == [reads |-> {"ListSlices", "GetSlice"}, writes |-> {"ClaimSlice", "CompleteSlice"}]

Services ==
    {SpecService, DecisionService, EdgeService, GraphService, ClaimService, ConstitutionService,
     AuthoringService, BundleService, ExecutionService, LifecycleService, DriftService, SyncService,
     SyncStatus, AnalyticalPassService, FindingsService, ExportService, SliceService}

ProjectWrites == UNION {s.writes : s \in Services}

\* Accounts and their keys: the caller's own keys are anyone's to change.
IdentityService ==
    [reads |-> {"Whoami", "ListUsers", "GetUser", "ListAPIKeys", "ListMyAPIKeys", "ListOIDCBindings"},
     writes |-> {"UpdateUserRole", "SoftDeleteUser", "PurgeUser", "ResyncUserRole", "CreateServiceAccount",
                 "CreateAPIKey", "RevokeAPIKey", "RotateAPIKey", "UnbindOIDC"},
     own |-> {"CreateMyAPIKey", "RotateMyAPIKey", "RevokeMyAPIKey"}]

\* Before a handler reads or writes anything of a project it scopes the store,
\* which inserts the project's row if there is none, for a read too.
scopeStore == UNION {s.reads \cup s.writes : s \in Services} \ {"GetPrompts"}

\* What a procedure may change.
ChangedBy == [row |-> scopeStore, data |-> ProjectWrites,
              accounts |-> IdentityService.writes, own_keys |-> IdentityService.own]
Changes(p) == {k \in DOMAIN ChangedBy : p \in ChangedBy[k]}
=============================================================================
