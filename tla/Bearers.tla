------------------------------ MODULE Bearers ------------------------------
(***************************************************************************)
(* Resolving a bearer credential: internal/auth/identitystore.go and       *)
(* introspection.go, over the lookups of internal/storage/postgres.        *)
(*                                                                         *)
(* One user and one credential: an API key, a web session, a signed token  *)
(* or an opaque token, which its identity provider is asked about and      *)
(* whose answer is cached.  Time is a counter.  Requests present the       *)
(* credential while it expires and is revoked and while the user is        *)
(* deleted.  Secrets and signatures are taken as matching; the first login *)
(* of a subject is in Logins.                                              *)
(***************************************************************************)
EXTENDS Handlers, Naturals, Sequences

CONSTANTS
    MaxTime,      \* bound: the last tick of the clock
    TTLCap,       \* introspectionTTLCap, in ticks
    AskTimeout    \* introspectionTimeout, in ticks

ASSUME BearersAssumption == MaxTime \in Nat /\ TTLCap \in Nat \ {0} /\ AskTimeout \in Nat

CredKinds == {"apikey", "session", "jwt", "opaque"}
Times == 0 .. MaxTime
Never == MaxTime + 1

\* A provider that does not know the token, one that says when it expires, and
\* one that leaves exp out of its answers (RFC 7662 makes it optional).
ProviderKinds == {"foreign", "timed", "untimed"}

VARIABLES
    now,
    bDeleted,    \* users.deleted_at is set
    bKind,       \* the kind of the credential
    bExpires,    \* when the credential expires, Never if it does not
    bRevoked,    \* when the credential was revoked, Never if it was not
    bSwept,      \* the session's row was deleted
    bProviders,  \* the configured introspectors, in order: what they say of the opaque token
    bCache,      \* each introspector's cache entry for the token: when it expires, 0 if absent
    bReq         \* what each request is doing

bVars == <<now, bDeleted, bKind, bExpires, bRevoked, bSwept, bProviders, bCache, bReq>>

BSteps == {"idle", "lookup", "introspect", "ask", "answered", "binding", "user", "accepted", "refused", "transient"}
BIdle == [step |-> "idle", late |-> FALSE, p |-> 1, asked |-> 0,
          active |-> FALSE, decisive |-> FALSE]

BTypeOK ==
    /\ now \in Times /\ bDeleted \in BOOLEAN /\ bSwept \in BOOLEAN
    /\ bKind \in CredKinds /\ bExpires \in 0 .. Never /\ bRevoked \in 0 .. Never
    /\ bProviders \in Seq(ProviderKinds)
    /\ bCache \in [DOMAIN bProviders -> 0 .. MaxTime + TTLCap]
    /\ \A q \in Requests :
         /\ bReq[q].step \in BSteps
         /\ bReq[q].p \in 1 .. Len(bProviders) + 1 /\ bReq[q].asked \in Times

BInit ==
    /\ now = 0
    /\ bDeleted = FALSE
    /\ bKind \in CredKinds
    /\ bExpires \in Times \cup {Never}
    /\ bRevoked = Never
    /\ bSwept = FALSE
    /\ bProviders \in {<<"timed">>, <<"foreign", "timed">>, <<"untimed">>}
    /\ bCache = [p \in DOMAIN bProviders |-> 0]
    /\ bReq = [q \in Requests |-> BIdle]

Expired == bExpires <= now
Timed == \A p \in DOMAIN bProviders : bProviders[p] # "untimed"

\* The moment from which the provider calls the token inactive.
Ends == IF bExpires < bRevoked THEN bExpires ELSE bRevoked

Resolving(q, step) == bReq' = [bReq EXCEPT ![q] = [BIdle EXCEPT !.late = bReq[q].late, !.step = step]]

----------------------------------------------------------------------------
(* What must no longer be let in when a request begins: a user that was    *)
(* deleted, a credential that has expired, a key or a session that was     *)
(* revoked, and an opaque token that ended longer ago than an answer may   *)
(* be under way and may then be cached.  The cache knows the expiry of an  *)
(* opaque token only from a provider that says it.                         *)
Dead ==
    \/ bDeleted
    \/ Expired /\ (bKind = "opaque" => Timed)
    \/ bKind \in {"apikey", "session"} /\ bRevoked # Never
    \/ bKind = "opaque" /\ now >= Ends + AskTimeout + TTLCap

----------------------------------------------------------------------------
(* The resolver.                                                           *)

\* The prefix of the token tells its kind; only an opaque one is sent to the providers.
Resolve(q) ==
    /\ bReq[q].step \in {"idle", "accepted", "refused", "transient"}
    /\ bReq' = [bReq EXCEPT ![q] = [BIdle EXCEPT !.late = Dead,
                                     !.step = IF bKind = "opaque" THEN "introspect" ELSE "lookup"]]
    /\ UNCHANGED <<now, bKind, bDeleted, bExpires, bRevoked, bSwept, bProviders, bCache>>

\* A backend error, at any read, is an outcome that may be retried.  A signed
\* token is verified without one.
ErrTransient(q) ==
    /\ bReq[q].step \in {"lookup", "binding", "user"}
    /\ bReq[q].step = "lookup" => bKind # "jwt"
    /\ Resolving(q, "transient")
    /\ UNCHANGED <<now, bKind, bDeleted, bExpires, bRevoked, bSwept, bProviders, bCache>>

resolveAPIKey(q) ==
    /\ bReq[q].step = "lookup" /\ bKind = "apikey"
    /\ Resolving(q, IF bRevoked # Never \/ Expired THEN "refused" ELSE "user")
    /\ UNCHANGED <<now, bKind, bDeleted, bExpires, bRevoked, bSwept, bProviders, bCache>>

resolveSession(q) ==
    /\ bReq[q].step = "lookup" /\ bKind = "session"
    /\ Resolving(q, IF bSwept \/ bRevoked # Never \/ Expired THEN "refused" ELSE "user")
    /\ UNCHANGED <<now, bKind, bDeleted, bExpires, bRevoked, bSwept, bProviders, bCache>>

\* A signed token cannot be revoked: it is good until it expires.
resolveJWT(q) ==
    /\ bReq[q].step = "lookup" /\ bKind = "jwt"
    /\ Resolving(q, IF Expired THEN "refused" ELSE "binding")
    /\ UNCHANGED <<now, bKind, bDeleted, bExpires, bRevoked, bSwept, bProviders, bCache>>

\* The binding names the user whose row is read next.
materializeIdentity(q) ==
    /\ bReq[q].step = "binding"
    /\ Resolving(q, "user")
    /\ UNCHANGED <<now, bKind, bDeleted, bExpires, bRevoked, bSwept, bProviders, bCache>>

LoadUser(q) ==
    /\ bReq[q].step = "user"
    /\ Resolving(q, IF bDeleted THEN "refused" ELSE "accepted")
    /\ UNCHANGED <<now, bKind, bDeleted, bExpires, bRevoked, bSwept, bProviders, bCache>>

----------------------------------------------------------------------------
(* Introspection: the providers are tried in order.                        *)

\* Past the last provider: refused if one of them said no, else worth a retry.
IntrospectionOver(q) ==
    /\ bReq[q].step = "introspect" /\ bReq[q].p > Len(bProviders)
    /\ Resolving(q, IF bReq[q].decisive THEN "refused" ELSE "transient")
    /\ UNCHANGED <<now, bKind, bDeleted, bExpires, bRevoked, bSwept, bProviders, bCache>>

\* The rate limiter says no, the call fails or times out, or the answer is unusable.
NonDecisive(q) ==
    /\ bReq[q].step \in {"introspect", "ask", "answered"} /\ bReq[q].p <= Len(bProviders)
    /\ bReq' = [bReq EXCEPT ![q].step = "introspect", ![q].p = @ + 1]
    /\ UNCHANGED <<now, bKind, bDeleted, bExpires, bRevoked, bSwept, bProviders, bCache>>

cacheGet(p) == bCache[p] > now

\* A cached answer is always an active one.
IntrospectCached(q) ==
    /\ bReq[q].step = "introspect" /\ bReq[q].p <= Len(bProviders)
    /\ cacheGet(bReq[q].p)
    /\ Resolving(q, "binding")
    /\ UNCHANGED <<now, bKind, bDeleted, bExpires, bRevoked, bSwept, bProviders, bCache>>

Introspect(q) ==
    /\ bReq[q].step = "introspect" /\ bReq[q].p <= Len(bProviders)
    /\ ~cacheGet(bReq[q].p)
    /\ bReq' = [bReq EXCEPT ![q].step = "ask", ![q].asked = now]
    /\ bCache' = [bCache EXCEPT ![bReq[q].p] = 0]
    /\ UNCHANGED <<now, bKind, bDeleted, bExpires, bRevoked, bSwept, bProviders>>

\* The provider makes up its mind; its answer is under way.
Decide(q) ==
    /\ bReq[q].step = "ask"
    /\ bReq' = [bReq EXCEPT ![q].step = "answered",
                             ![q].active = /\ bProviders[bReq[q].p] # "foreign"
                                           /\ bRevoked = Never
                                           /\ ~Expired]
    /\ UNCHANGED <<now, bKind, bDeleted, bExpires, bRevoked, bSwept, bProviders, bCache>>

\* Mutant: an answer is kept for the full cap, past the token's own expiry.
cachePutForCap(p, cache) == [cache EXCEPT ![p] = now + TTLCap]

cachePut(p, cache) ==
    LET until == IF bProviders[p] # "untimed" /\ bExpires < now + TTLCap THEN bExpires ELSE now + TTLCap
    IN  IF until > now THEN [cache EXCEPT ![p] = until] ELSE cache

\* The answer arrives within the client's timeout.  A token that is bound to
\* another resource (the choice of "introspect" for an active one) is passed over.
Answer(q) ==
    /\ bReq[q].step = "answered" /\ now <= bReq[q].asked + AskTimeout
    /\ bCache' = IF bReq[q].active THEN cachePut(bReq[q].p, bCache) ELSE bCache
    /\ \/ /\ bReq[q].active
          /\ Resolving(q, "binding")
       \/ bReq' = [bReq EXCEPT ![q].step = "introspect", ![q].p = @ + 1, ![q].decisive = TRUE]
    /\ UNCHANGED <<now, bKind, bDeleted, bExpires, bRevoked, bSwept, bProviders>>

----------------------------------------------------------------------------
(* The rest of the world.                                                  *)

Tick ==
    /\ now < MaxTime
    /\ now' = now + 1
    /\ UNCHANGED <<bKind, bDeleted, bExpires, bRevoked, bSwept, bProviders, bCache, bReq>>

\* RevokeAPIKey, a logout, or a revocation at the provider.
Revoke ==
    /\ bKind # "jwt" /\ bRevoked = Never
    /\ bRevoked' = now
    /\ UNCHANGED <<now, bKind, bDeleted, bExpires, bSwept, bProviders, bCache, bReq>>

BDeleteUser ==
    /\ ~bDeleted
    /\ bDeleted' = TRUE
    /\ UNCHANGED <<now, bKind, bExpires, bRevoked, bSwept, bProviders, bCache, bReq>>

DeleteExpiredSessions ==
    /\ bKind = "session" /\ Expired /\ ~bSwept
    /\ bSwept' = TRUE
    /\ UNCHANGED <<now, bKind, bDeleted, bExpires, bRevoked, bProviders, bCache, bReq>>

BNext ==
    \/ \E q \in Requests :
         \/ Resolve(q) \/ ErrTransient(q) \/ resolveAPIKey(q) \/ resolveSession(q) \/ resolveJWT(q)
         \/ materializeIdentity(q) \/ LoadUser(q)
         \/ IntrospectionOver(q) \/ NonDecisive(q) \/ IntrospectCached(q)
         \/ Introspect(q) \/ Decide(q) \/ Answer(q)
    \/ Tick \/ Revoke \/ BDeleteUser \/ DeleteExpiredSessions

BSpec == BInit /\ [][BNext]_bVars

\* A request that begins when its user or its credential is dead is never let
\* in: not by a cached answer, by an answer that was under way, or by a row
\* that another step of the request had read.  For an opaque token the promise
\* holds one timeout and one cache lifetime after its revocation; after its
\* expiry it holds at once if the provider says when that is, and one timeout
\* and one cache lifetime later if it does not (introspection.go cachePut caps
\* an entry by exp only when the answer has one).
DeadNeverAccepted == \A q \in Requests : bReq[q].late => bReq[q].step # "accepted"
=============================================================================
