------------------------------ MODULE Clients ------------------------------
(***************************************************************************)
(* The two front ends of the server: the MCP server (internal/mcp) and the *)
(* command line (cmd/specgraph).  A tool or a command checks its arguments *)
(* and then makes its remote calls one after the other.  Each call is      *)
(* authenticated and authorized afresh and then served: the caller's role  *)
(* may change between two of them, and while one is being served.          *)
(*                                                                         *)
(* Each table gives, for every action of a tool and every command of a     *)
(* group, the arguments it insists on and the procedures it calls.         *)
(* Arguments that only shape the request, output formats and printing are  *)
(* left out.                                                               *)
(***************************************************************************)
EXTENDS Handlers, Access, Stages

Op(needs, calls) == [needs |-> needs, calls |-> calls]

----------------------------------------------------------------------------
(* MCP tools, by file.                                                     *)

\* An unknown provenance, or a detail or stage output that does not parse, is
\* refused like a missing argument.
specCreate == Op({"slug", "intent", "known provenance", "well-formed outputs"}, <<"CreateSpec">>)
specVersions ==
    [update |-> Op({"slug"}, <<"UpdateSpec">>), changes |-> Op({"slug"}, <<"ListChanges">>),
     compare |-> Op({"slug", "from_version", "to_version"}, <<"CompareVersions">>)]
specTool ==
    [get |-> Op({"slug"}, <<"GetSpec">>), list |-> Op({}, <<"ListSpecs">>), create |-> specCreate,
     update |-> specVersions.update, changes |-> specVersions.changes, compare |-> specVersions.compare]
decisionTool ==
    [get |-> Op({"slug"}, <<"GetDecision">>), list |-> Op({}, <<"ListDecisions">>),
     create |-> Op({"slug", "title", "decision"}, <<"CreateDecision">>),
     update |-> Op({"slug"}, <<"UpdateDecision">>)]
edgeTool ==
    [add |-> Op({"from_slug", "to_slug", "edge_type"}, <<"AddEdge">>),
     remove |-> Op({"from_slug", "to_slug", "edge_type"}, <<"RemoveEdge">>),
     list |-> Op({"slug"}, <<"ListEdges">>)]
graphQueryTool ==
    [dependencies |-> Op({"slug"}, <<"GetDependencies">>), impact |-> Op({"slug"}, <<"GetImpact">>),
     transitive_deps |-> Op({"slug"}, <<"GetTransitiveDeps">>), ready |-> Op({}, <<"GetReady">>),
     critical_path |-> Op({"slug"}, <<"GetCriticalPath">>), full |-> Op({}, <<"GetFullGraph">>)]
constitutionTool ==
    [get |-> Op({}, <<"GetConstitution">>), update |-> Op({"constitution"}, <<"UpdateConstitution">>)]
findingsTool == [list |-> Op({"slug"}, <<"ListFindings">>)]
healthTool == [health |-> Op({}, <<"Health">>)]
authorTool ==
    [spark |-> Op({"slug", "output"}, <<"Spark">>), shape |-> Op({"slug", "output"}, <<"Shape">>),
     specify |-> Op({"slug", "output"}, <<"Specify">>), decompose |-> Op({"slug", "output"}, <<"Decompose">>)]
authorLifecycle ==
    [approve |-> Op({"slug", "exchanges"}, <<"Approve">>),
     amend |-> Op({"slug", "re_entry_stage", "reason"}, <<"TransitionAmend">>),
     supersede |-> Op({"slug", "new_slug"}, <<"TransitionSupersede">>)]
conversationTool == [list |-> Op({"slug"}, <<"ListConversations">>)]
analyticalPassTool ==
    [run |-> Op({"slug", "pass_type"}, <<"RunAnalyticalPass">>),
     store |-> Op({"slug", "findings", "pass_type"}, <<"StoreFindings">>)]
\* author_start_stage and the stage prompts compose from three reads.
stagePrompts == [start |-> Op({"stage"}, <<"GetConstitution", "GetSpec", "GetDependencies">>)]
analyticalPrompts == [pass |-> Op({"spec_slug"}, <<"RunAnalyticalPass">>)]
driftTool ==
    [check |-> Op({}, <<"CheckDrift">>), acknowledge |-> Op({"slug", "note"}, <<"AcknowledgeDrift">>)]
lintTool == [lint |-> Op({}, <<"Lint">>)]
syncTool ==
    [beads |-> Op({}, <<"SyncBeads">>), github |-> Op({}, <<"SyncGitHub">>), status |-> Op({}, <<"GetSyncStatus">>)]
exportTool ==
    [export |-> Op({"project_slug"}, <<"ExportProject">>), import |-> Op({"data"}, <<"ImportProject">>),
     verify |-> Op({"data"}, <<"VerifyExport">>)]
claimTool ==
    [claim |-> Op({"spec_slug", "agent"}, <<"ClaimSpec">>), unclaim |-> Op({"spec_slug", "agent"}, <<"UnclaimSpec">>),
     heartbeat |-> Op({"spec_slug", "agent"}, <<"Heartbeat">>)]
sliceTool ==
    [list |-> Op({"parent_slug"}, <<"ListSlices">>), get |-> Op({"slug"}, <<"GetSlice">>),
     claim |-> Op({"slug", "assignee"}, <<"ClaimSlice">>), complete |-> Op({"slug"}, <<"CompleteSlice">>)]
bundleTool == [bundle |-> Op({"slug"}, <<"GenerateBundle">>)]
primeTool == [prime |-> Op({"slug"}, <<"GetPrime">>)]
reportTool ==
    [progress |-> Op({"slug", "agent", "message"}, <<"ReportProgress">>),
     blocker |-> Op({"slug", "agent", "description"}, <<"ReportBlocker">>),
     completion |-> Op({"slug", "agent"}, <<"ReportCompletion">>)]
executionEventsTool == [events |-> Op({"slug"}, <<"GetExecutionEvents">>)]
\* The skill catalogue is compiled into the binary: no remote call.
skillTools == [list |-> Op({}, <<>>), get |-> Op({"name"}, <<>>), search |-> Op({}, <<>>)]
resources ==
    [spec |-> Op({"slug"}, <<"GetSpec">>), specs |-> Op({}, <<"ListSpecs">>),
     decision |-> Op({"slug"}, <<"GetDecision">>), constitution |-> Op({}, <<"GetConstitution">>),
     graph |-> Op({}, <<"GetFullGraph">>), ready |-> Op({}, <<"GetReady">>),
     findings |-> Op({}, <<"ListProjectFindings">>), changes |-> Op({"slug"}, <<"ListChanges">>)]
primeResources == [project |-> Op({}, <<"GetPrime">>), spec |-> Op({"slug"}, <<"GetPrime">>)]

\* The profile a tool asks for.
coreTools == {specTool, decisionTool, edgeTool, graphQueryTool, constitutionTool, findingsTool,
              healthTool, skillTools, resources, primeResources, stagePrompts, analyticalPrompts}
authoringTools == {authorTool, authorLifecycle, conversationTool, analyticalPassTool,
                   driftTool, lintTool, syncTool, exportTool}
executionTools == {claimTool, sliceTool, bundleTool, primeTool, reportTool, executionEventsTool}

\* Each profile includes the ones below it.  The server registers the tools of
\* the widest profile for everyone; a narrower profile only shadows some of
\* them with the same handlers, so it hides nothing from a caller.
Profile == [core |-> 0, authoring |-> 1, execution |-> 2]
ToolsForProfile(profile) ==
    coreTools \cup (IF Profile[profile] >= Profile.authoring THEN authoringTools ELSE {})
        \cup (IF Profile[profile] >= Profile.execution THEN executionTools ELSE {})

----------------------------------------------------------------------------
(* Commands, by file.                                                      *)

createCommand == Op({"slug", "intent", "known provenance", "readable output files"}, <<"CreateSpec">>)
specCommands ==
    [create |-> createCommand, update |-> Op({"slug"}, <<"UpdateSpec">>),
     list |-> Op({}, <<"ListSpecs">>), show |-> Op({"slug"}, <<"GetSpec">>)]
changesCommands ==
    [list |-> Op({"slug"}, <<"ListChanges">>), compare |-> Op({"slug"}, <<"CompareVersions">>)]
decisionCreate == [create |-> Op({"slug", "title"}, <<"CreateDecision">>)]
decisionCommands ==
    [list |-> Op({}, <<"ListDecisions">>), show |-> Op({"slug"}, <<"GetDecision">>)]
edgeCommands ==
    [add |-> Op({"from", "to", "type"}, <<"AddEdge">>), remove |-> Op({"from", "to", "type"}, <<"RemoveEdge">>),
     list |-> Op({"slug"}, <<"ListEdges">>)]
graphCommands ==
    [deps |-> Op({"slug"}, <<"GetDependencies">>), transitive |-> Op({"slug"}, <<"GetTransitiveDeps">>),
     ready |-> Op({}, <<"GetReady">>), critical_path |-> Op({"slug"}, <<"GetCriticalPath">>),
     impact |-> Op({"slug"}, <<"GetImpact">>)]
claimCommands ==
    [claim |-> Op({"slug", "agent"}, <<"ClaimSpec">>), unclaim |-> Op({"slug", "agent"}, <<"UnclaimSpec">>)]
sliceCommands ==
    [list |-> Op({"parent"}, <<"ListSlices">>), get |-> Op({"slug"}, <<"GetSlice">>),
     claim |-> Op({"slug", "assignee"}, <<"ClaimSlice">>), complete |-> Op({"slug"}, <<"CompleteSlice">>)]
reportCommands ==
    [progress |-> Op({"slug", "agent", "message"}, <<"ReportProgress">>),
     blocker |-> Op({"slug", "agent", "description"}, <<"ReportBlocker">>),
     completion |-> Op({"slug", "agent"}, <<"ReportCompletion">>)]
progressCommand == [progress |-> Op({"slug"}, <<"GetExecutionEvents">>)]
bundleCommand == [bundle |-> Op({"slug"}, <<"GenerateBundle">>)]
primeCommand == [prime |-> Op({}, <<"GetPrime">>)]
sparkCommand == [spark |-> Op({"slug"}, <<"Spark">>)]
shapeCommand == [shape |-> Op({"slug"}, <<"Shape">>)]
specifyCommand == [specify |-> Op({"slug"}, <<"Specify">>)]
decomposeCommand == [decompose |-> Op({"slug"}, <<"Decompose">>)]
approveCommand == [approve |-> Op({"slug", "conversation"}, <<"Approve">>)]
lifecycleCommands ==
    [amend |-> Op({"slug", "reason", "re-entry"}, <<"TransitionAmend">>),
     supersede |-> Op({"slug", "with"}, <<"TransitionSupersede">>),
     abandon |-> Op({"slug", "reason"}, <<"TransitionAbandon">>)]
driftCommands ==
    [drift |-> Op({}, <<"CheckDrift">>), ack |-> Op({"slug", "note", "upstream-or-all"}, <<"AcknowledgeDrift">>)]
lintCommand == [lint |-> Op({}, <<"Lint">>)]
conversationCommands ==
    [record |-> Op({"slug", "stage", "json-file"}, <<"RecordConversation">>),
     list |-> Op({"slug"}, <<"ListConversations">>)]
findingsCommands ==
    [list |-> Op({"slug"}, <<"ListFindings">>),
     store |-> Op({"slug", "pass-type", "json-file"}, <<"StoreFindings">>)]
passCommand == [run |-> Op({"slug", "pass-type"}, <<"RunAnalyticalPass">>)]
constitutionCommands ==
    [show |-> Op({}, <<"GetConstitution">>), emit |-> Op({"format"}, <<"EmitToolFiles">>)]
constitutionImport ==
    [import |-> Op({"path"}, <<"UpdateConstitution">>),
     import_url |-> Op({"layer"}, <<"RefreshConstitutionLayer">>)]
\* sync asks for every layer and refreshes those that have a source: two here.
constitutionSync ==
    [sync |-> Op({}, <<"GetConstitution", "GetConstitution", "RefreshConstitutionLayer",
                       "RefreshConstitutionLayer">>)]
exportCommands ==
    [export |-> Op({"project"}, <<"ExportProject">>), import |-> Op({"file"}, <<"ImportProject">>),
     verify |-> Op({"file"}, <<"VerifyExport">>)]
syncCommands ==
    [beads |-> Op({}, <<"SyncBeads">>), github |-> Op({}, <<"SyncGitHub">>), status |-> Op({}, <<"GetSyncStatus">>)]
statusCommand == [status |-> Op({}, <<"Health">>)]
whoamiCommand == [whoami |-> Op({}, <<"Whoami">>)]
userCommands ==
    [list |-> Op({}, <<"ListUsers">>), show |-> Op({"id"}, <<"GetUser">>),
     set_role |-> Op({"id", "role"}, <<"UpdateUserRole">>), resync |-> Op({"id", "role"}, <<"ResyncUserRole">>),
     delete |-> Op({"id"}, <<"SoftDeleteUser">>), purge |-> Op({"id"}, <<"PurgeUser">>)]
oidcCommands ==
    [list |-> Op({"user"}, <<"ListOIDCBindings">>), unbind |-> Op({"id", "user"}, <<"UnbindOIDC">>)]
\* Without --user a command works on the caller's own keys.
apiKeyCommands ==
    [list |-> Op({}, <<"ListMyAPIKeys">>), list_of |-> Op({"user"}, <<"ListAPIKeys">>),
     create |-> Op({}, <<"CreateMyAPIKey">>), create_for |-> Op({"user"}, <<"CreateAPIKey">>)]
apiKeyRetire ==
    [revoke |-> Op({"id"}, <<"RevokeMyAPIKey">>), revoke_any |-> Op({"id"}, <<"RevokeAPIKey">>),
     rotate |-> Op({"id"}, <<"RotateMyAPIKey">>), rotate_any |-> Op({"id"}, <<"RotateAPIKey">>)]

commands ==
    {specCommands, changesCommands, decisionCreate, decisionCommands, edgeCommands, graphCommands, claimCommands,
     sliceCommands, reportCommands, progressCommand, bundleCommand, primeCommand, sparkCommand,
     shapeCommand, specifyCommand, decomposeCommand, approveCommand, lifecycleCommands,
     driftCommands, lintCommand, conversationCommands, findingsCommands, passCommand,
     constitutionCommands, constitutionImport, constitutionSync, exportCommands, syncCommands, statusCommand,
     whoamiCommand, userCommands, oidcCommands, apiKeyCommands, apiKeyRetire}

----------------------------------------------------------------------------
(* One caller, the spec it works on, and an administrator who may change   *)
(* the caller's role.                                                      *)

VARIABLES
    cRole,     \* the caller's effective role
    cFront,    \* the front end in use: "mcp", the tools, or "cli", the commands
    cCall,     \* the tool call or command under way
    cStage,    \* the stage of the spec, None before it is sparked
    cHint,     \* the next author action that the last reply recommends
    cEffect,   \* what the last call changed, and the role it was let in under
    cPast,     \* history: was a call already let in when the caller got its role? 1 or 0
    cWrites    \* history: calls that wrote since the caller became a reader

cHist == <<cPast, cWrites>>
cVars == <<cRole, cFront, cCall, cStage, cHint, cEffect, cHist>>

\* granted is the role with which the interceptor let the next call in, None
\* when it has not judged it yet.
NoCall == [calls |-> <<>>, reentry |-> None, granted |-> None]
Tools(front) == IF front = "mcp" THEN ToolsForProfile("execution") ELSE commands
AllOps == UNION {{tool[a] : a \in DOMAIN tool} : tool \in Tools("mcp") \cup Tools("cli")}
\* The calls that are left of a tool call or command.
CallsLeft == {SubSeq(op.calls, i, Len(op.calls)) : op \in AllOps, i \in 1 .. 5}

CTypeOK ==
    /\ cRole \in Roles
    /\ cFront \in {"mcp", "cli"}
    /\ cCall.calls \in CallsLeft
    /\ cCall.reentry \in ReEntryStages \cup {None}
    /\ cCall.granted \in Roles \cup {None}
    /\ cStage \in SpecStage \cup {None}
    /\ cHint \in ReEntryStages \cup {None}
    /\ cEffect \in [role : Roles, changed : SUBSET DOMAIN ChangedBy]
    /\ cPast \in 0 .. 1 /\ cWrites \in 0 .. 1

CInit ==
    /\ cRole \in Roles
    /\ cFront \in {"mcp", "cli"}
    /\ cCall = NoCall
    /\ cStage \in SpecStage \cup {None}
    /\ cHint = None
    /\ cEffect = [role |-> "reader", changed |-> {}]
    /\ cPast = 0 /\ cWrites = 0

\* A call with every argument it needs goes ahead.  With one missing it is
\* refused before anything is sent, which changes nothing.
Invoke(tool, a) ==
    /\ cCall.calls = <<>>
    /\ \E given \in {{}, tool[a].needs} : tool[a].needs \subseteq given
    /\ \E re \in IF tool[a].calls = <<"TransitionAmend">> THEN ReEntryStages ELSE {None} :
         cCall' = [calls |-> tool[a].calls, reentry |-> re, granted |-> None]
    /\ cHint' = None
    /\ UNCHANGED <<cRole, cFront, cStage, cEffect, cHist>>

\* Where the funnel stages and the lifecycle operations take the spec, None
\* when the handler refuses.
StageAfter(p, re) ==
    CASE p = "Spark" -> IF cStage = None THEN "spark" ELSE None
      [] p = "Shape" -> IF cStage = "spark" THEN "shape" ELSE None
      [] p = "Specify" -> IF cStage = "shape" THEN "specify" ELSE None
      [] p = "Decompose" -> IF cStage = "specify" THEN "decompose" ELSE None
      [] p = "Approve" -> IF cStage = "decompose" THEN "approved" ELSE None
      [] p = "TransitionAmend" -> IF cStage \in AmendEligible THEN PrecedingAuthStage(re) ELSE None
      [] OTHER -> cStage

\* handleAmend recommends the author action of the re-entry stage, except for
\* spark, which no author action can repeat.
AmendHint(p, re) == IF p = "TransitionAmend" /\ re # "spark" THEN re ELSE None

\* A refused call ends the command; only sync goes on with the next layer.
AfterRefusal(calls) == IF Head(calls) = "RefreshConstitutionLayer" THEN Tail(calls) ELSE <<>>

\* The interceptor resolves the caller's identity and judges its role.
Intercept ==
    /\ cCall.calls # <<>> /\ cCall.granted = None
    /\ cCall' = IF Intercepted(cRole, Head(cCall.calls))
                THEN [cCall EXCEPT !.granted = cRole]
                ELSE [NoCall EXCEPT !.calls = AfterRefusal(cCall.calls)]
    /\ UNCHANGED <<cRole, cFront, cStage, cHint, cEffect, cHist>>

\* The handler has changed this much, whatever the caller's role is by now.
Leave(changed) ==
    /\ cEffect' = [role |-> cCall.granted, changed |-> changed]
    /\ cWrites' = IF cRole = "reader" /\ changed \cap {"data", "accounts"} # {}
                  THEN cWrites + 1 ELSE cWrites
    /\ UNCHANGED <<cRole, cFront, cPast>>

Serve ==
    /\ cCall.granted # None
    /\ LET p == Head(cCall.calls)
           after == StageAfter(p, cCall.reentry)
       IN /\ after # None
          /\ cStage' = after
          /\ cHint' = AmendHint(p, cCall.reentry)
          /\ Leave(Changes(p))
    /\ cCall' = [NoCall EXCEPT !.calls = Tail(cCall.calls)]

\* The handler refuses or fails, and may have come part of the way.  To the
\* prompts and to sync a layer or a spec that is not there is no failure.
Miss ==
    /\ cCall.granted # None
    /\ \E changed \in SUBSET Changes(Head(cCall.calls)) : Leave(changed)
    /\ \/ cCall' = [NoCall EXCEPT !.calls = AfterRefusal(cCall.calls)]
       \/ /\ Head(cCall.calls) \in {"GetConstitution", "GetSpec"}
          /\ cCall' = [NoCall EXCEPT !.calls = Tail(cCall.calls)]
    /\ UNCHANGED <<cStage, cHint>>

\* An administrator changes the caller's role.
Reassign(role) ==
    /\ role # cRole
    /\ cRole' = role
    /\ cPast' = IF cCall.granted = None THEN 0 ELSE 1
    /\ cWrites' = 0
    /\ UNCHANGED <<cFront, cCall, cStage, cHint, cEffect>>

CNext ==
    \/ \E tool \in Tools(cFront) : \E a \in DOMAIN tool : Invoke(tool, a)
    \/ Intercept \/ Serve \/ Miss
    \/ \E role \in Roles : Reassign(role)

CSpec == CInit /\ [][CNext]_cVars

----------------------------------------------------------------------------
\* The action table, base.cedar and the handlers of internal/server agree: a
\* call that was let in for a reader changes nothing but the row that scoping
\* inserts for a new project, and the caller's own keys.
ReadersChangeLittle == cEffect.role = "reader" => cEffect.changed \subseteq {"row", "own_keys"}

\* interceptor.go NewAuthInterceptor: a demotion takes hold in the middle of a command.
\* Of the calls of a caller that has become a reader only the one that had
\* passed the interceptor by then may still write; those that come after it are
\* refused, whatever the command was when it began.
DemotionHolds == cRole = "reader" => cWrites <= cPast

\* tools_authoring.go handleAmend, lifecycle_handler.go TransitionAmend: when an
\* amend's reply recommends an author action, the funnel accepts that action at
\* the stage where the amend left the spec.
AmendHintWorks ==
    cHint # None =>
        \E p \in {"Shape", "Specify", "Decompose"} :
            /\ authorTool[cHint].calls = <<p>>
            /\ StageAfter(p, None) # None

\* What the tools and the commands assume of the server holds of it: a reader
\* changes next to nothing, a role is judged anew for every call of a command,
\* and the next step that a reply names can be taken.
ClientsFitServer == ReadersChangeLittle /\ DemotionHolds /\ AmendHintWorks
=============================================================================
