------------------------------- MODULE Logins -------------------------------
(***************************************************************************)
(* Interactive login: internal/server/auth_oidc_handler.go,                *)
(* internal/auth/identitystore.go and loginsync.go, over                   *)
(* internal/storage/postgres/web_auth.go and users.go.                     *)
(*                                                                         *)
(* One subject of one identity provider.  A flow is started, its callback  *)
(* consumes it and resolves the subject to a user, creating the user at    *)
(* the first login; a browser flow then gets a session, a command-line     *)
(* flow a code that is exchanged for one.  Callbacks and exchanges may be  *)
(* repeated, late and concurrent.  Cookies, random values, redirects and   *)
(* the provider's own protocol are left out.                               *)
(***************************************************************************)
EXTENDS Handlers, Naturals, FiniteSets

CONSTANTS
    Flows,        \* login flows that may be started
    LoginUsers    \* user ids that may be created

ASSUME LoginsAssumption == None \notin LoginUsers

LoginRoles == {"reader", "writer"}

VARIABLES
    lConfig,    \* login_sync.enabled, and the role that the claims map to, if any
    lFlows,     \* oidc_login_flows and cli_login_codes
    lUsers,     \* users
    lBinding,   \* oidc_bindings: the subject's user
    lSessions,  \* web_sessions: for which flow and user
    lReq,       \* what each request is doing
    lSetRole,   \* history: the role that the last change of role gave each user
    lUnbound    \* history: users whose binding an administrator removed

lVars == <<lConfig, lFlows, lUsers, lBinding, lSessions, lReq, lSetRole, lUnbound>>

NoUser == [status |-> "none", role |-> "reader", named |-> FALSE]
LIdle == [step |-> "idle", flow |-> None, user |-> None, role |-> "reader", named |-> FALSE]

LTypeOK ==
    /\ lConfig.sync \in BOOLEAN /\ lConfig.mapped \in LoginRoles \cup {None}
    /\ \A f \in Flows :
         /\ lFlows[f].status \in {"new", "open", "consumed", "coded", "spent", "expired"}
         /\ lFlows[f].cli \in BOOLEAN
         /\ lFlows[f].user \in LoginUsers \cup {None}
         /\ lFlows[f].lock \in Requests \cup {None}
    /\ \A u \in LoginUsers : lUsers[u].status \in {"none", "active", "deleted"} /\ lUsers[u].role \in LoginRoles
    /\ lBinding \in LoginUsers \cup {None}
    /\ lSetRole \in [LoginUsers -> LoginRoles]
    /\ lUnbound \subseteq LoginUsers

LInit ==
    /\ lConfig \in [sync : BOOLEAN, mapped : LoginRoles \cup {None}]
    /\ lFlows = [f \in Flows |-> [status |-> "new", cli |-> FALSE, user |-> None, lock |-> None]]
    /\ lUsers = [u \in LoginUsers |-> NoUser]
    /\ lBinding = None
    /\ lSessions = {}
    /\ lReq = [q \in Requests |-> LIdle]
    /\ lSetRole = [u \in LoginUsers |-> "reader"]
    /\ lUnbound = {}

Go(q, fields) == lReq' = [lReq EXCEPT ![q] = fields]
LoginFail(q) == Go(q, LIdle)

----------------------------------------------------------------------------
(* The flow.                                                               *)

handleStart(f, cli) ==
    /\ lFlows[f].status = "new"
    /\ lFlows' = [lFlows EXCEPT ![f].status = "open", ![f].cli = cli]
    /\ UNCHANGED <<lConfig, lUsers, lBinding, lSessions, lReq, lSetRole, lUnbound>>

\* A flow or a code passes its expires_at; the sweeper may delete it then.
FlowExpires(f) ==
    /\ lFlows[f].status \in {"open", "coded"} /\ lFlows[f].lock = None
    /\ lFlows' = [lFlows EXCEPT ![f].status = "expired"]
    /\ UNCHANGED <<lConfig, lUsers, lBinding, lSessions, lReq, lSetRole, lUnbound>>

\* Mutant: the flow is looked up and left in place.
ConsumeLoginFlowKept(q, f) ==
    /\ lReq[q].step = "idle" /\ lFlows[f].status = "open"
    /\ Go(q, [LIdle EXCEPT !.step = "lookup", !.flow = f])
    /\ UNCHANGED <<lConfig, lFlows, lUsers, lBinding, lSessions, lSetRole, lUnbound>>

\* DELETE ... RETURNING: the callback that deletes the row goes on, any other
\* finds nothing.  A wrong state or a failed exchange ends it, flow spent.
ConsumeLoginFlow(q, f) ==
    /\ lReq[q].step = "idle" /\ lFlows[f].status = "open"
    /\ lFlows' = [lFlows EXCEPT ![f].status = "consumed"]
    /\ \/ Go(q, [LIdle EXCEPT !.step = "lookup", !.flow = f])
       \/ LoginFail(q)
    /\ UNCHANGED <<lConfig, lUsers, lBinding, lSessions, lSetRole, lUnbound>>

----------------------------------------------------------------------------
(* materializeIdentity.                                                    *)

LookupOIDCBinding(q) ==
    /\ lReq[q].step = "lookup"
    /\ Go(q, IF lBinding = None THEN [lReq[q] EXCEPT !.step = "jit"]
                                ELSE [lReq[q] EXCEPT !.step = "read user", !.user = lBinding])
    /\ UNCHANGED <<lConfig, lFlows, lUsers, lBinding, lSessions, lSetRole, lUnbound>>

JITRole == IF lConfig.mapped # None THEN lConfig.mapped ELSE "reader"

\* JITCreateHuman: the unique (issuer, subject) lets one insert through; the
\* others roll their user back and read the winner's, which an administrator
\* may have unbound by then.
JITCreateHuman(q) ==
    /\ lReq[q].step = "jit"
    /\ IF lBinding # None
       THEN /\ Go(q, [lReq[q] EXCEPT !.step = "finish", !.user = lBinding])
            /\ UNCHANGED <<lUsers, lBinding, lSetRole>>
       ELSE \E u \in LoginUsers :
              /\ lUsers[u].status = "none"
              /\ \E named \in BOOLEAN :
                   lUsers' = [lUsers EXCEPT ![u] = [status |-> "active", role |-> JITRole, named |-> named]]
              /\ lSetRole' = [lSetRole EXCEPT ![u] = JITRole]
              /\ lBinding' = u
              /\ Go(q, [lReq[q] EXCEPT !.step = "finish", !.user = u])
    /\ UNCHANGED <<lConfig, lFlows, lSessions, lUnbound>>

\* The gates before it: an email domain outside the allowlist is refused.  The
\* rate limit is for bearer tokens only.  A failed insert is transient.
jitResolve(q) ==
    \/ JITCreateHuman(q)
    \/ /\ lReq[q].step = "jit"
       /\ LoginFail(q)
       /\ UNCHANGED <<lConfig, lFlows, lUsers, lBinding, lSessions, lSetRole, lUnbound>>

GetUserByID(q) ==
    /\ lReq[q].step = "read user"
    /\ LET u == lUsers[lReq[q].user]
       IN IF u.status # "active" THEN LoginFail(q)
          ELSE Go(q, [lReq[q] EXCEPT !.step = "sync", !.role = u.role, !.named = u.named])
    /\ UNCHANGED <<lConfig, lFlows, lUsers, lBinding, lSessions, lSetRole, lUnbound>>

\* resolveLoginRole: without mappings the role that was read, else the mapped
\* role.
resolveLoginRole(q) == IF lConfig.mapped = None THEN lReq[q].role ELSE lConfig.mapped

\* UpdateDisplayNameOnLogin.
WriteName(q) == [lUsers[lReq[q].user] EXCEPT !.named = TRUE]

\* reconcileDisplayName: the claims bring a name to a user who has none yet.
\* With login sync an email outside the allowlist is refused, and the name, email
\* and role are written together if one of them differs from what was read;
\* without it the name alone is.  A user that is not active any more is refused;
\* another failure to write is fatal for a lowered role only.
applyLoginSync(q) ==
    /\ lReq[q].step = "sync"
    /\ \E claimName, newEmail, outside, fails \in BOOLEAN :
         LET u == lReq[q].user
             nameChanged == claimName /\ ~lReq[q].named
             role == resolveLoginRole(q)
             write == IF lConfig.sync THEN nameChanged \/ newEmail \/ role # lReq[q].role ELSE nameChanged
             lowered == lConfig.sync /\ role = "reader" /\ lReq[q].role = "writer"
         IN IF lConfig.sync /\ outside
            THEN LoginFail(q) /\ UNCHANGED <<lUsers, lSetRole>>
            ELSE IF ~write
            THEN Go(q, [lReq[q] EXCEPT !.step = "finish"]) /\ UNCHANGED <<lUsers, lSetRole>>
            ELSE IF lUsers[u].status # "active" \/ (fails /\ lowered)
            THEN LoginFail(q) /\ UNCHANGED <<lUsers, lSetRole>>
            ELSE IF fails
            THEN Go(q, [lReq[q] EXCEPT !.step = "finish"]) /\ UNCHANGED <<lUsers, lSetRole>>
            ELSE /\ lUsers' = [lUsers EXCEPT ![u] =
                       IF lConfig.sync THEN [lUsers[u] EXCEPT !.role = role, !.named = @ \/ nameChanged]
                                        ELSE WriteName(q)]
                 /\ lSetRole' = IF lConfig.sync /\ role # lReq[q].role THEN [lSetRole EXCEPT ![u] = role] ELSE lSetRole
                 /\ Go(q, [lReq[q] EXCEPT !.step = "finish"])
    /\ UNCHANGED <<lConfig, lFlows, lBinding, lSessions, lUnbound>>

----------------------------------------------------------------------------
(* Sessions and command-line codes.                                        *)

NewSession(f, u) == [flow |-> f, user |-> u, serial |-> Cardinality({s \in lSessions : s.flow = f})]

\* CreateSession or CreateCLICode: both refuse a user who is not active.
handleCallback(q) ==
    /\ lReq[q].step = "finish"
    /\ LET f == lReq[q].flow
           u == lReq[q].user
       IN IF lUsers[u].status # "active" THEN UNCHANGED <<lFlows, lSessions>>
          ELSE IF lFlows[f].cli
          THEN /\ lFlows' = [lFlows EXCEPT ![f].status = "coded", ![f].user = u]
               /\ UNCHANGED lSessions
          ELSE /\ lSessions' = lSessions \cup {NewSession(f, u)}
               /\ UNCHANGED lFlows
    /\ LoginFail(q)
    /\ UNCHANGED <<lConfig, lUsers, lBinding, lSetRole, lUnbound>>

\* ExchangeCLICode: SELECT ... FOR UPDATE of a code that has not expired.  A
\* wrong challenge rolls back and leaves the code.
handleCLIExchange(q, f) ==
    /\ lReq[q].step = "idle" /\ lFlows[f].status = "coded" /\ lFlows[f].lock = None
    /\ lFlows' = [lFlows EXCEPT ![f].lock = q]
    /\ Go(q, [LIdle EXCEPT !.step = "exchange", !.flow = f, !.user = lFlows[f].user])
    /\ UNCHANGED <<lConfig, lUsers, lBinding, lSessions, lSetRole, lUnbound>>

\* The session is inserted and the code deleted together, or, for a user who is
\* not active, neither.
ExchangeCLICode(q) ==
    /\ lReq[q].step = "exchange"
    /\ LET f == lReq[q].flow
       IN \/ /\ lUsers[lReq[q].user].status = "active"
             /\ lSessions' = lSessions \cup {NewSession(f, lReq[q].user)}
             /\ lFlows' = [lFlows EXCEPT ![f].status = "spent", ![f].lock = None]
          \/ lFlows' = [lFlows EXCEPT ![f].lock = None] /\ UNCHANGED lSessions
    /\ LoginFail(q)
    /\ UNCHANGED <<lConfig, lUsers, lBinding, lSetRole, lUnbound>>

----------------------------------------------------------------------------
(* What an administrator does meanwhile.                                   *)

UpdateUserRole(u, role) ==
    /\ lUsers[u].status = "active" /\ lUsers[u].role # role
    /\ lUsers' = [lUsers EXCEPT ![u].role = role]
    /\ lSetRole' = [lSetRole EXCEPT ![u] = role]
    /\ UNCHANGED <<lConfig, lFlows, lBinding, lSessions, lReq, lUnbound>>

LSoftDeleteUser(u) ==
    /\ lUsers[u].status = "active"
    /\ lUsers' = [lUsers EXCEPT ![u].status = "deleted"]
    /\ UNCHANGED <<lConfig, lFlows, lBinding, lSessions, lReq, lSetRole, lUnbound>>

UnbindOIDC ==
    /\ lBinding # None
    /\ lBinding' = None
    /\ lUnbound' = lUnbound \cup {lBinding}
    /\ UNCHANGED <<lConfig, lFlows, lUsers, lSessions, lReq, lSetRole>>

LNext ==
    \/ \E f \in Flows : FlowExpires(f) \/ \E cli \in BOOLEAN : handleStart(f, cli)
    \/ \E q \in Requests :
         \/ LookupOIDCBinding(q) \/ jitResolve(q) \/ GetUserByID(q) \/ applyLoginSync(q)
         \/ handleCallback(q) \/ ExchangeCLICode(q)
         \/ \E f \in Flows : ConsumeLoginFlow(q, f) \/ handleCLIExchange(q, f)
    \/ \E u \in LoginUsers : LSoftDeleteUser(u) \/ \E role \in LoginRoles : UpdateUserRole(u, role)
    \/ UnbindOIDC

LSpec == LInit /\ [][LNext]_lVars

----------------------------------------------------------------------------
\* web_auth.go ConsumeLoginFlow and ExchangeCLICode: however often a callback or
\* an exchange is repeated, one login flow never opens two sessions.
FlowOpensOneSession ==
    \A s, t \in lSessions : s.flow = t.flow => s = t

\* users.go JITCreateHuman: simultaneous first logins of one subject leave one
\* user; every other user of it is one that an administrator unbound.
NoOrphanUser ==
    \A u \in LoginUsers : lUsers[u].status # "none" => u = lBinding \/ u \in lUnbound

\* users.go UpdateDisplayNameOnLogin: a login that only brings a display name
\* never undoes a change of role made since it read the user.
RoleSurvivesNaming ==
    ~lConfig.sync => \A u \in LoginUsers : lUsers[u].status # "none" => lUsers[u].role = lSetRole[u]

\* web_auth.go, users.go: overlapping, repeated and late logins open one session
\* for each flow, and leave the users as first logins and administrators made them.
LoginsSound == FlowOpensOneSession /\ NoOrphanUser /\ RoleSurvivesNaming
=============================================================================
