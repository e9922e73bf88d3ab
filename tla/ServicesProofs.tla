--------------------------- MODULE ServicesProofs ---------------------------
(***************************************************************************)
(* Proofs about the services beside the spec store, each for its own       *)
(* specification and every value of the constants: the usage tracker,      *)
(* bearer credentials, logins, API keys, the constitution's layers, the    *)
(* files kept in a project, the linter, the front ends, and the types of   *)
(* all of them in their composition.                                       *)
(***************************************************************************)
EXTENDS MCServices, StagesProofs, FiniteSetTheorems, SequenceTheorems, WellFoundedInduction, TLAPS

(***************************************************************************)
(* The usage tracker.  A touch that is owed is in the channel, with the    *)
(* goroutine, or lost with a write that failed; from the last flush on,    *)
(* whatever comes into the channel was touched after Close.                *)
(***************************************************************************)
Queued(queue) == {queue[i] : i \in 1..Len(queue)}

UInv ==
    /\ uQueue \in Seq(UsedKeys) /\ uPending \subseteq UsedKeys /\ uFailed \subseteq UsedKeys
    /\ uDrain \in [at : {"select", "collect", "write", "exited"}, last : BOOLEAN]
    /\ uClose \in {"open", "waiting", "nil", "ctx.Err"}
    /\ uOwed \subseteq Queued(uQueue) \cup uPending \cup uFailed /\ uFailed \subseteq uOwed
    /\ uDrain.last => Closed
    /\ uDrain.at = "select" => uPending = {} /\ ~uDrain.last
    /\ uDrain.at = "exited" => uPending = {} /\ uDrain.last
    /\ uDrain.last /\ uDrain.at \in {"write", "exited"} => Queued(uQueue) \subseteq uLate
    /\ uClose = "nil" => uDrain.at = "exited"

\* What is in the channel after a touch, and after the oldest is taken out.
LEMMA QueuedAppend ==
    ASSUME NEW S, NEW q \in Seq(S), NEW k
    PROVE  Queued(Append(q, k)) = Queued(q) \cup {k}
<1>1. Len(Append(q, k)) = Len(q) + 1 /\ Len(q) \in Nat
  OBVIOUS
<1>2. \A i \in 1..Len(q) : Append(q, k)[i] = q[i]
  OBVIOUS
<1>3. Append(q, k)[Len(q) + 1] = k
  OBVIOUS
<1>4. ASSUME NEW i \in 1..(Len(q) + 1) PROVE Append(q, k)[i] \in Queued(q) \cup {k}
  <2>1. CASE i = Len(q) + 1
    BY <1>3, <2>1
  <2>2. CASE i \in 1..Len(q)
    BY <1>2, <2>2 DEF Queued
  <2> QED BY <1>1, <2>1, <2>2
<1>5. ASSUME NEW i \in 1..Len(q) PROVE q[i] \in Queued(Append(q, k))
  <2>1. i \in 1..Len(Append(q, k)) /\ Append(q, k)[i] = q[i]
    BY <1>1, <1>2
  <2> QED BY <2>1 DEF Queued
<1>6. k \in Queued(Append(q, k))
  <2>1. Len(q) + 1 \in 1..Len(Append(q, k))
    BY <1>1
  <2> QED BY <1>3, <2>1 DEF Queued
<1> QED BY <1>1, <1>4, <1>5, <1>6 DEF Queued

LEMMA QueuedTail ==
    ASSUME NEW S, NEW q \in Seq(S), q # <<>>
    PROVE  Tail(q) \in Seq(S) /\ Queued(q) = Queued(Tail(q)) \cup {Head(q)}
<1>1. /\ Tail(q) \in Seq(S) /\ Len(Tail(q)) = Len(q) - 1 /\ Len(q) \in Nat /\ Len(q) > 0
      /\ Head(q) = q[1]
  OBVIOUS
<1>2. \A i \in 1..(Len(q) - 1) : Tail(q)[i] = q[i + 1]
  OBVIOUS
<1>3. ASSUME NEW i \in 1..Len(q) PROVE q[i] \in Queued(Tail(q)) \cup {Head(q)}
  <2>1. CASE i = 1
    BY <1>1, <2>1
  <2>2. CASE i # 1
    <3>1. i - 1 \in 1..Len(Tail(q)) /\ Tail(q)[i - 1] = q[i]
      BY <1>1, <1>2, <2>2
    <3> QED BY <3>1 DEF Queued
  <2> QED BY <2>1, <2>2
<1>4. ASSUME NEW i \in 1..Len(Tail(q)) PROVE Tail(q)[i] \in Queued(q)
  <2>1. i + 1 \in 1..Len(q) /\ Tail(q)[i] = q[i + 1]
    BY <1>1, <1>2
  <2> QED BY <2>1 DEF Queued
<1>5. Head(q) \in Queued(q)
  <2>1. 1 \in 1..Len(q)
    BY <1>1
  <2> QED BY <1>1, <2>1 DEF Queued
<1> QED BY <1>1, <1>3, <1>4, <1>5 DEF Queued

\* Initially nothing is owed.
LEMMA UInitInv == UInit => UInv
BY DEF UInit, UInv, Closed, Queued

\* Every step keeps the invariant.
LEMMA UNextInv == UInv /\ [UNext]_uVars => UInv'
<1> SUFFICES ASSUME UInv, [UNext]_uVars PROVE UInv'
  OBVIOUS
<1> USE DEF UInv
<1>1. CASE UNCHANGED uVars
  BY <1>1 DEF uVars, Closed, Queued
<1>2. ASSUME NEW k \in UsedKeys, Touch(k) PROVE UInv'
  <2>1. CASE /\ uQueue' = Append(uQueue, k)
             /\ uOwed' = uOwed \cup {k} /\ uFailed' = uFailed \ {k}
             /\ uLate' = IF Closed THEN uLate \cup {k} ELSE uLate
    <3>1. Queued(uQueue') = Queued(uQueue) \cup {k}
      BY <2>1, QueuedAppend
    <3>2. uQueue' \in Seq(UsedKeys)
      BY <2>1
    <3>3. UNCHANGED <<uPending, uDrain, uClose>>
      BY <1>2 DEF Touch
    <3>4. uDrain.last => k \in uLate'
      BY <2>1
    <3>5. uLate \subseteq uLate'
      BY <2>1
    <3> QED BY <1>2, <2>1, <3>1, <3>2, <3>3, <3>4, <3>5 DEF Closed, Touch
  <2>2. CASE UNCHANGED <<uQueue, uOwed, uFailed, uLate>>
    BY <1>2, <2>2 DEF Touch, Closed
  <2> QED BY <1>2, <2>1, <2>2 DEF Touch
<1>3. ASSUME NEW k \in UsedKeys, TouchLastUsed(k) PROVE UInv'
  <2>1. /\ uDrain.at = "write" /\ uPending' = uPending \ {k}
        /\ UNCHANGED <<uQueue, uClose, uLate>> /\ k \in uPending
    BY <1>3 DEF TouchLastUsed
  <2> DEFINE at == IF uPending = {k} THEN flushed ELSE "write"
  <2>2. /\ uDrain' = [uDrain EXCEPT !.at = at]
        /\ \/ at = "write"
           \/ at = "select" /\ ~uDrain.last /\ uPending = {k}
           \/ at = "exited" /\ uDrain.last /\ uPending = {k}
    BY <1>3 DEF TouchLastUsed, flushed
  <2> HIDE DEF at
  <2>3. uDrain'.at = at /\ uDrain'.last = uDrain.last
        /\ uDrain' \in [at : {"select", "collect", "write", "exited"}, last : BOOLEAN]
    BY <2>2
  <2>4. /\ uOwed' \subseteq Queued(uQueue)' \cup uPending' \cup uFailed' /\ uFailed' \subseteq uOwed'
        /\ uPending' \subseteq UsedKeys /\ uFailed' \subseteq UsedKeys
    <3>1. Range(uQueue) \subseteq Queued(uQueue)
      BY DEF Range, Queued
    <3>2. CASE uOwed' = uOwed \ {k} /\ uFailed' = uFailed \ {k}
      BY <2>1, <3>2
    <3>3. CASE UNCHANGED uOwed /\ uFailed' = IF k \in uOwed /\ k \notin Range(uQueue)
                                             THEN uFailed \cup {k} ELSE uFailed
      BY <2>1, <3>1, <3>3
    <3> QED BY <1>3, <2>1, <3>2, <3>3 DEF TouchLastUsed
  <2>5. uPending = {k} => uPending' = {}
    BY <2>1
  <2>6. uDrain'.last => Closed'
    BY <2>1, <2>3 DEF Closed
  <2>7. (uDrain'.at = "select" => uPending' = {} /\ ~uDrain'.last)
        /\ (uDrain'.at = "exited" => uPending' = {} /\ uDrain'.last)
    BY <2>2, <2>3, <2>5
  <2>8. uDrain'.last => Queued(uQueue)' \subseteq uLate'
    BY <2>1, <2>3
  <2>9. uClose' # "nil"
    BY <2>1
  <2> QED BY <2>1, <2>3, <2>4, <2>6, <2>7, <2>8, <2>9
<1>4. CASE drain
  <2>1. /\ uDrain.at = "select"
        /\ UNCHANGED <<uQueue, uPending, uClose, uOwed, uFailed, uLate>>
    BY <1>4 DEF drain
  <2>2. PICK last \in {FALSE, Closed} : uDrain' = [at |-> "collect", last |-> last]
    BY <1>4 DEF drain
  <2>3. last \in BOOLEAN /\ (last => Closed)
    BY <2>2 DEF Closed
  <2>4. /\ uDrain' \in [at : {"select", "collect", "write", "exited"}, last : BOOLEAN]
        /\ uDrain'.at = "collect" /\ uDrain'.last = last
    BY <2>2, <2>3
  <2>5. uDrain'.last => Closed'
    BY <2>1, <2>3, <2>4 DEF Closed
  <2>6. uClose # "nil"
    BY <2>1
  <2> QED BY <2>1, <2>4, <2>5, <2>6
<1>5. CASE flushAll
  <2>1. Queued(uQueue) = Queued(uQueue') \cup {Head(uQueue)} /\ uQueue' \in Seq(UsedKeys)
    BY <1>5, QueuedTail DEF flushAll
  <2>2. Head(uQueue) \in UsedKeys
    BY <1>5 DEF flushAll
  <2> QED BY <1>5, <2>1, <2>2 DEF flushAll, Closed
<1>6. CASE Drained
  <2>1. Queued(uQueue) = {}
    BY <1>6 DEF Drained, Queued
  <2> QED BY <1>6, <2>1 DEF Drained, flushed, Closed
<1>7. CASE Close
  BY <1>7 DEF Close, Closed
<1>8. CASE CloseReturns
  BY <1>8 DEF CloseReturns, Closed
<1> QED BY <1>1, <1>2, <1>3, <1>4, <1>5, <1>6, <1>7, <1>8 DEF UNext

\* In every reachable state: when Close has returned nil, every touch that was
\* taken before it was called has been written, or its write was tried and
\* failed, whatever the size of the buffer and whichever flush was under way
\* when it was called.
THEOREM ClosedTrackerFlushed == USpec => []CloseFlushes
<1>1. UInv => CloseFlushes
  BY DEF UInv, CloseFlushes
<1> QED BY <1>1, UInitInv, UNextInv, PTL DEF USpec
-----------------------------------------------------------------------------
(***************************************************************************)
(* Bearer credentials.  Whatever is dead stays dead, so a request that     *)
(* began late is late at every read it makes.  A cached answer is never    *)
(* kept past an expiry that the provider said, nor for longer than one     *)
(* timeout and one cache lifetime after the token's end, because the       *)
(* provider decided after the request asked and before the token ended.    *)
(***************************************************************************)
BRequest == [step : BSteps, late : BOOLEAN, p : Nat \ {0}, asked : Nat,
             active : BOOLEAN, decisive : BOOLEAN]

\* A request x, when Dead is dead, the user deleted is del, the clock is t and
\* the credential of this kind ends at end.
FineReq(x, dead, del, t, end, kind) ==
    /\ x \in BRequest
    /\ x.late => dead
    /\ x.late /\ x.step \in {"binding", "user"} => del
    /\ x.late => x.step # "accepted"
    /\ x.step \in {"ask", "answered"} => x.asked <= t
    /\ x.step = "answered" /\ x.active => x.asked <= end /\ (x.late => del)
    /\ x.step \in {"introspect", "ask", "answered"} => kind = "opaque"
    /\ x.step = "lookup" => kind # "opaque"

BTyped ==
    /\ now \in Nat /\ now <= MaxTime /\ bDeleted \in BOOLEAN /\ bSwept \in BOOLEAN
    /\ bKind \in CredKinds /\ bExpires \in Nat /\ bRevoked \in Nat
    /\ bRevoked <= now \/ bRevoked = Never
    /\ bProviders \in Seq(ProviderKinds)
    /\ bCache \in [1..Len(bProviders) -> Nat]
    /\ bReq \in [Requests -> BRequest]

CacheBounded ==
    \A p \in 1..Len(bProviders) :
        /\ bProviders[p] # "untimed" => bCache[p] <= bExpires
        /\ bCache[p] <= now + TTLCap
        /\ bCache[p] <= Ends + AskTimeout + TTLCap

BInv ==
    /\ BTyped
    /\ CacheBounded
    /\ \A q \in Requests : FineReq(bReq[q], Dead, bDeleted, now, Ends, bKind)

\* The clock, the user and the credential stay as they are.
WorldSame == UNCHANGED <<now, bKind, bDeleted, bExpires, bRevoked, bSwept, bProviders>>

\* A step of one request.
LEMMA OneBearer ==
    ASSUME BInv, NEW q \in Requests, NEW x,
           FineReq(x, Dead, bDeleted, now, Ends, bKind),
           bReq' = [bReq EXCEPT ![q] = x],
           UNCHANGED <<now, bKind, bDeleted, bExpires, bRevoked, bSwept, bProviders, bCache>>
    PROVE  BInv'
<1>1. Dead' <=> Dead
  BY DEF Dead, Expired, Timed, Ends
<1>2. BTyped'
  BY DEF BInv, BTyped, FineReq
<1>3. CacheBounded'
  BY DEF BInv, CacheBounded, Ends
<1>4. ASSUME NEW r \in Requests
      PROVE  FineReq(bReq'[r], Dead', bDeleted', now', Ends', bKind')
  <2>1. bReq'[r] \in {bReq[r], x}
    BY DEF BInv, BTyped
  <2>2. FineReq(bReq'[r], Dead, bDeleted, now, Ends, bKind)
    BY <2>1 DEF BInv
  <2> QED BY <1>1, <2>2 DEF FineReq, Ends
<1> QED BY <1>2, <1>3, <1>4 DEF BInv

\* A request that begins or goes on at a step.
LEMMA BegunFields ==
    ASSUME NEW l \in BOOLEAN, NEW st \in BSteps
    PROVE  LET x == [BIdle EXCEPT !.late = l, !.step = st] IN
           x \in BRequest /\ x.late = l /\ x.step = st
<1> DEFINE x == [BIdle EXCEPT !.late = l, !.step = st]
<1>1. BIdle \in BRequest
  BY DEF BIdle, BRequest, BSteps
<1> QED BY <1>1 DEF BRequest

\* A request that goes on to another read, or is over.
LEMMA ResolvingFine ==
    ASSUME BInv, NEW q \in Requests, NEW step \in BSteps, Resolving(q, step),
           step \in {"refused", "transient", "binding", "user", "accepted"},
           step \in {"binding", "user"} /\ bReq[q].late => bDeleted,
           bReq[q].late => step # "accepted",
           UNCHANGED <<now, bKind, bDeleted, bExpires, bRevoked, bSwept, bProviders, bCache>>
    PROVE  BInv'
<1> DEFINE x == [BIdle EXCEPT !.late = bReq[q].late, !.step = step]
<1>1. bReq' = [bReq EXCEPT ![q] = x]
  BY DEF Resolving
<1>2. FineReq(bReq[q], Dead, bDeleted, now, Ends, bKind) /\ bReq[q] \in BRequest
  BY DEF BInv, BTyped
<1>3. x \in BRequest /\ x.late = bReq[q].late /\ x.step = step
  <2>1. bReq[q].late \in BOOLEAN
    BY <1>2 DEF BRequest
  <2> QED BY <2>1, BegunFields
<1> HIDE DEF x
<1>4. FineReq(x, Dead, bDeleted, now, Ends, bKind)
  BY <1>2, <1>3 DEF FineReq
<1> QED BY <1>1, <1>4, OneBearer

\* The initial states satisfy the invariant.
LEMMA BInitInv == BInit => BInv
<1> SUFFICES ASSUME BInit PROVE BInv
  OBVIOUS
<1>1. /\ MaxTime \in Nat /\ TTLCap \in Nat /\ AskTimeout \in Nat
  BY BearersAssumption
<1>2. bProviders \in Seq(ProviderKinds)
  <2>1. \A b, c \in ProviderKinds : <<b>> \in Seq(ProviderKinds) /\ <<b, c>> \in Seq(ProviderKinds)
    OBVIOUS
  <2> QED BY <2>1 DEF BInit, ProviderKinds
<1>3. DOMAIN bProviders = 1..Len(bProviders)
  BY <1>2
<1>4. BIdle \in BRequest /\ BIdle.step = "idle" /\ ~BIdle.late
  BY DEF BIdle, BRequest, BSteps
<1>5. bCache = [p \in 1..Len(bProviders) |-> 0] /\ bReq = [q \in Requests |-> BIdle]
  BY <1>3 DEF BInit
<1>6. BTyped
  <2>0. now \in Nat /\ now <= MaxTime
    BY <1>1 DEF BInit
  <2>1. /\ bDeleted \in BOOLEAN /\ bSwept \in BOOLEAN
        /\ bKind \in CredKinds /\ bRevoked = Never
    BY DEF BInit
  <2>2. bExpires \in Nat /\ Never \in Nat
    BY <1>1 DEF BInit, Times, Never
  <2>3. bCache \in [1..Len(bProviders) -> Nat] /\ bReq \in [Requests -> BRequest]
    BY <1>4, <1>5
  <2> QED BY <1>2, <2>0, <2>1, <2>2, <2>3 DEF BTyped
<1>7. CacheBounded
  <2>1. Ends \in Nat
    BY <1>6 DEF BTyped, Ends
  <2> QED BY <1>1, <1>5, <1>6, <2>1 DEF CacheBounded, BTyped
<1>8. \A q \in Requests : FineReq(bReq[q], Dead, bDeleted, now, Ends, bKind)
  BY <1>4, <1>5 DEF FineReq
<1> QED BY <1>6, <1>7, <1>8 DEF BInv

\* The reads of a request.
LEMMA BReadInv ==
    ASSUME BInv, NEW q \in Requests,
           \/ Resolve(q) \/ ErrTransient(q) \/ resolveAPIKey(q) \/ resolveSession(q)
           \/ resolveJWT(q) \/ materializeIdentity(q) \/ LoadUser(q)
           \/ IntrospectionOver(q)
    PROVE  BInv'
<1>0. FineReq(bReq[q], Dead, bDeleted, now, Ends, bKind) /\ bReq[q] \in BRequest
  BY DEF BInv, BTyped
<1>1. CASE Resolve(q)
  <2> DEFINE first == IF bKind = "opaque" THEN "introspect" ELSE "lookup"
             x == [BIdle EXCEPT !.late = Dead, !.step = first]
  <2>0. first \in BSteps
    BY DEF BSteps
  <2> DEFINE dead == Dead
  <2>9. dead \in BOOLEAN
    BY DEF BInv, BTyped, Dead
  <2> HIDE DEF dead, first
  <2>1. x \in BRequest /\ x.late = dead /\ x.step = first
    BY <2>0, <2>9, BegunFields DEF dead
  <2> USE DEF dead, first
  <2>2. bReq' = [bReq EXCEPT ![q] = x]
        /\ UNCHANGED <<now, bKind, bDeleted, bExpires, bRevoked, bSwept, bProviders, bCache>>
    BY <1>1 DEF Resolve
  <2> HIDE DEF x
  <2>3. FineReq(x, Dead, bDeleted, now, Ends, bKind)
    BY <2>1 DEF FineReq
  <2> QED BY <2>2, <2>3, OneBearer
<1>2. CASE ErrTransient(q)
  BY <1>2, ResolvingFine DEF ErrTransient, BSteps
<1>3. CASE resolveAPIKey(q)
  <2>1. bRevoked # Never \/ Expired \/ (bReq[q].late => bDeleted)
    BY <1>0, <1>3 DEF resolveAPIKey, FineReq, Dead
  <2> QED BY <1>3, <2>1, ResolvingFine DEF resolveAPIKey, BSteps
<1>4. CASE resolveSession(q)
  <2>1. bRevoked # Never \/ Expired \/ (bReq[q].late => bDeleted)
    BY <1>0, <1>4 DEF resolveSession, FineReq, Dead
  <2> QED BY <1>4, <2>1, ResolvingFine DEF resolveSession, BSteps
<1>5. CASE resolveJWT(q)
  <2>1. Expired \/ (bReq[q].late => bDeleted)
    BY <1>0, <1>5 DEF resolveJWT, FineReq, Dead
  <2> QED BY <1>5, <2>1, ResolvingFine DEF resolveJWT, BSteps
<1>6. CASE materializeIdentity(q)
  <2>1. bReq[q].late => bDeleted
    BY <1>0, <1>6 DEF materializeIdentity, FineReq
  <2> QED BY <1>6, <2>1, ResolvingFine DEF materializeIdentity, BSteps
<1>7. CASE LoadUser(q)
  <2>1. bReq[q].late => bDeleted
    BY <1>0, <1>7 DEF LoadUser, FineReq
  <2> QED BY <1>7, <2>1, ResolvingFine DEF LoadUser, BSteps
<1>8. CASE IntrospectionOver(q)
  BY <1>8, ResolvingFine DEF IntrospectionOver, BSteps
<1> QED BY <1>1, <1>2, <1>3, <1>4, <1>5, <1>6, <1>7, <1>8

\* A request that goes on to the next provider.
LEMMA NextProvider ==
    ASSUME NEW r \in BRequest
    PROVE  LET x == [r EXCEPT !.step = "introspect", !.p = r.p + 1] IN
           x \in BRequest /\ x.late = r.late /\ x.step = "introspect"
<1> DEFINE n == r.p + 1
           x == [r EXCEPT !.step = "introspect", !.p = n]
<1>1. n \in Nat \ {0}
  BY DEF BRequest
<1> HIDE DEF n
<1>2. x \in BRequest /\ x.late = r.late /\ x.step = "introspect"
  BY <1>1 DEF BRequest, BSteps
<1> QED BY <1>2 DEF n

\* A request that is with a provider changes fields of its own.
LEMMA BNonDecisiveInv ==
    ASSUME BInv, NEW q \in Requests, NonDecisive(q)
    PROVE  BInv'
<1>0. FineReq(bReq[q], Dead, bDeleted, now, Ends, bKind) /\ bReq[q] \in BRequest
      /\ bReq \in [Requests -> BRequest]
  BY DEF BInv, BTyped
<1> DEFINE n == bReq[q].p + 1
           x == [bReq[q] EXCEPT !.step = "introspect", !.p = n]
<1>1. bReq' = [bReq EXCEPT ![q] = x]
  BY <1>0 DEF NonDecisive
<1>2. x \in BRequest /\ x.late = bReq[q].late /\ x.step = "introspect"
  BY <1>0, NextProvider
<1> HIDE DEF x
<1>3. FineReq(x, Dead, bDeleted, now, Ends, bKind)
  BY <1>0, <1>2 DEF FineReq, NonDecisive
<1> QED BY <1>1, <1>3, OneBearer DEF NonDecisive

\* A cached answer is not given to a request that began late.
LEMMA BCachedInv ==
    ASSUME BInv, NEW q \in Requests, IntrospectCached(q)
    PROVE  BInv'
<1>0. FineReq(bReq[q], Dead, bDeleted, now, Ends, bKind) /\ bReq[q] \in BRequest
  BY DEF BInv, BTyped
<1>1. bReq[q].p \in 1..Len(bProviders)
  BY <1>0 DEF BRequest, IntrospectCached, BInv, BTyped
<1> DEFINE c == bCache[bReq[q].p]
<1>2. /\ c > now /\ c \in Nat /\ c <= Ends + AskTimeout + TTLCap
      /\ bProviders[bReq[q].p] # "untimed" => c <= bExpires
  BY <1>1 DEF IntrospectCached, cacheGet, BInv, BTyped, CacheBounded
<1> HIDE DEF c
<1>3. (Expired => ~Timed) /\ ~(now >= Ends + AskTimeout + TTLCap)
  <2>1. Ends \in Nat /\ now \in Nat /\ bExpires \in Nat
    BY DEF BInv, BTyped, Ends
  <2>2. Expired => bProviders[bReq[q].p] = "untimed"
    BY <1>2, <2>1 DEF Expired
  <2>3. bReq[q].p \in DOMAIN bProviders
    BY <1>1 DEF BInv, BTyped
  <2> QED BY <1>2, <2>1, <2>2, <2>3, BearersAssumption DEF Timed
<1>4. bKind = "opaque"
  BY <1>0 DEF FineReq, IntrospectCached
<1>5. bReq[q].late => bDeleted
  BY <1>0, <1>3, <1>4 DEF FineReq, Dead
<1> QED BY <1>5, ResolvingFine DEF IntrospectCached, BSteps

\* The provider is asked, and decides.
LEMMA BAskInv ==
    ASSUME BInv, NEW q \in Requests, Introspect(q) \/ Decide(q)
    PROVE  BInv'
<1>0. /\ FineReq(bReq[q], Dead, bDeleted, now, Ends, bKind) /\ bReq[q] \in BRequest
      /\ bReq \in [Requests -> BRequest]
  BY DEF BInv, BTyped
<1>1. CASE Introspect(q)
  <2> DEFINE x == [bReq[q] EXCEPT !.step = "ask", !.asked = now]
  <2>1. bReq' = [bReq EXCEPT ![q] = x] /\ WorldSame
    BY <1>0, <1>1 DEF Introspect, WorldSame
  <2>2. now \in Nat
    BY DEF BInv, BTyped
  <2>3. x \in BRequest /\ x.late = bReq[q].late /\ x.step = "ask" /\ x.asked = now
    BY <1>0, <2>2 DEF BRequest, BSteps
  <2> HIDE DEF x
  <2>4. FineReq(x, Dead, bDeleted, now, Ends, bKind)
    BY <1>0, <1>1, <2>2, <2>3 DEF FineReq, Introspect
  <2>5. /\ bCache' \in [1..Len(bProviders) -> Nat]
        /\ \A p \in 1..Len(bProviders) : bCache'[p] \in {0, bCache[p]}
    BY <1>1 DEF Introspect, BInv, BTyped
  <2>6. CacheBounded'
    <3>1. \A p \in 1..Len(bProviders) : bCache[p] \in Nat
      BY DEF BInv, BTyped
    <3>2. Ends \in Nat /\ Ends' = Ends
      BY <2>1 DEF BInv, BTyped, Ends, WorldSame
    <3> QED BY <2>1, <2>5, <3>1, <3>2, BearersAssumption
            DEF CacheBounded, WorldSame, BInv, BTyped
  <2>7. Dead' <=> Dead
    BY <2>1 DEF Dead, Expired, Timed, Ends, WorldSame
  <2>8. ASSUME NEW r \in Requests
        PROVE  FineReq(bReq'[r], Dead', bDeleted', now', Ends', bKind')
    <3>1. FineReq(bReq'[r], Dead, bDeleted, now, Ends, bKind)
      BY <1>0, <2>1, <2>4 DEF BInv
    <3> QED BY <2>1, <2>7, <3>1 DEF FineReq, WorldSame, Ends
  <2>9. bReq' \in [Requests -> BRequest]
    BY <1>0, <2>1, <2>3
  <2>10. BTyped'
    BY <2>1, <2>5, <2>9 DEF BInv, BTyped, WorldSame
  <2> QED BY <2>6, <2>8, <2>10 DEF BInv
<1>2. CASE Decide(q)
  <2> DEFINE yes == bProviders[bReq[q].p] # "foreign" /\ bRevoked = Never /\ ~Expired
             x == [bReq[q] EXCEPT !.step = "answered", !.active = yes]
  <2>1. bReq' = [bReq EXCEPT ![q] = x]
    BY <1>0, <1>2 DEF Decide
  <2>2. yes => bRevoked = Never /\ ~Expired
    OBVIOUS
  <2>3. yes \in BOOLEAN
    OBVIOUS
  <2> HIDE DEF yes
  <2>4. /\ x \in BRequest /\ x.late = bReq[q].late /\ x.step = "answered"
        /\ x.asked = bReq[q].asked /\ x.active = yes
    BY <1>0, <2>3 DEF BRequest, BSteps
  <2> HIDE DEF x
  <2>5. bReq[q].asked \in Nat /\ bReq[q].asked <= now /\ bKind = "opaque"
    BY <1>0, <1>2 DEF FineReq, Decide, BRequest
  <2>6. yes => bReq[q].asked <= Ends /\ now < Ends
    BY <2>2, <2>5, BearersAssumption DEF BInv, BTyped, Never, Ends, Expired
  <2>7. yes /\ bReq[q].late => bDeleted
    <3>0. Ends \in Nat
      BY DEF BInv, BTyped, Ends
    <3>1. yes => ~(now >= Ends + AskTimeout + TTLCap)
      BY <2>6, <3>0, BearersAssumption DEF BInv, BTyped
    <3> QED BY <1>0, <2>2, <2>5, <3>1 DEF FineReq, Dead
  <2>8. FineReq(x, Dead, bDeleted, now, Ends, bKind)
    BY <1>0, <2>4, <2>5, <2>6, <2>7 DEF FineReq
  <2> QED BY <1>2, <2>1, <2>8, OneBearer DEF Decide
<1> QED BY <1>1, <1>2

\* An answer that is let in is cached no longer than the token may live.
LEMMA BAnswerInv ==
    ASSUME BInv, NEW q \in Requests, Answer(q)
    PROVE  BInv'
<1>0. /\ FineReq(bReq[q], Dead, bDeleted, now, Ends, bKind) /\ bReq[q] \in BRequest
      /\ bReq \in [Requests -> BRequest]
  BY DEF BInv, BTyped
<1>1. WorldSame /\ bReq[q].step = "answered" /\ now <= bReq[q].asked + AskTimeout
  BY DEF Answer, WorldSame
<1>2. /\ now \in Nat /\ bExpires \in Nat /\ Ends \in Nat /\ bReq[q].asked \in Nat
      /\ TTLCap \in Nat /\ AskTimeout \in Nat
  BY <1>0, BearersAssumption DEF BInv, BTyped, BRequest, Ends
<1> DEFINE at == bReq[q].p
           until == IF bProviders[at] # "untimed" /\ bExpires < now + TTLCap THEN bExpires ELSE now + TTLCap
<1>3. bCache' \in {bCache, [bCache EXCEPT ![at] = until]}
      /\ (bCache' # bCache => bReq[q].active)
  BY DEF Answer, cachePut
<1>4. until \in Nat /\ (bProviders[at] # "untimed" => until <= bExpires) /\ until <= now + TTLCap
  BY <1>2
<1>5. bReq[q].active => until <= Ends + AskTimeout + TTLCap
  <2>1. bReq[q].active => bReq[q].asked <= Ends
    BY <1>0, <1>1 DEF FineReq
  <2> HIDE DEF until
  <2> QED BY <1>1, <1>2, <1>4, <2>1
<1> HIDE DEF until, at
<1>6. /\ bCache' \in [1..Len(bProviders) -> Nat]
      /\ \A p \in 1..Len(bProviders) :
           bCache'[p] = bCache[p] \/ (bCache'[p] = until /\ p = at /\ bReq[q].active)
  <2>1. bCache \in [1..Len(bProviders) -> Nat]
    BY DEF BInv, BTyped
  <2>2. CASE bCache' = bCache
    BY <2>1, <2>2
  <2>3. CASE bCache' = [bCache EXCEPT ![at] = until] /\ bReq[q].active
    BY <1>4, <2>1, <2>3
  <2> QED BY <1>3, <2>2, <2>3
<1>7. CacheBounded'
  BY <1>1, <1>4, <1>5, <1>6 DEF CacheBounded, WorldSame, BInv, Ends
<1>8. Dead' <=> Dead
  BY <1>1 DEF Dead, Expired, Timed, Ends, WorldSame
<1>9. ASSUME NEW x \in BRequest, bReq' = [bReq EXCEPT ![q] = x],
             FineReq(x, Dead, bDeleted, now, Ends, bKind)
      PROVE  BInv'
  <2>1. ASSUME NEW r \in Requests
        PROVE  FineReq(bReq'[r], Dead', bDeleted', now', Ends', bKind')
    <3>1. FineReq(bReq'[r], Dead, bDeleted, now, Ends, bKind)
      BY <1>0, <1>9 DEF BInv
    <3> QED BY <1>1, <1>8, <3>1 DEF FineReq, WorldSame, Ends
  <2>2. bReq' \in [Requests -> BRequest]
    BY <1>0, <1>9
  <2>3. BTyped'
    BY <1>1, <1>6, <2>2 DEF BInv, BTyped, WorldSame
  <2> QED BY <1>7, <2>1, <2>3 DEF BInv
<1>10. CASE bReq[q].active /\ Resolving(q, "binding")
  <2> DEFINE x == [BIdle EXCEPT !.late = bReq[q].late, !.step = "binding"]
  <2>1. bReq[q].late \in BOOLEAN /\ "binding" \in BSteps
    BY <1>0 DEF BRequest, BSteps
  <2>2. x \in BRequest /\ x.late = bReq[q].late /\ x.step = "binding"
    BY <2>1, BegunFields
  <2>3. bReq' = [bReq EXCEPT ![q] = x]
    BY <1>10 DEF Resolving
  <2> HIDE DEF x
  <2>4. FineReq(x, Dead, bDeleted, now, Ends, bKind)
    BY <1>0, <1>1, <1>10, <2>2 DEF FineReq
  <2> QED BY <1>9, <2>2, <2>3, <2>4
<1>11. CASE bReq' = [bReq EXCEPT ![q].step = "introspect", ![q].p = @ + 1, ![q].decisive = TRUE]
  <2> DEFINE y == [bReq[q] EXCEPT !.step = "introspect", !.p = bReq[q].p + 1]
             x == [y EXCEPT !.decisive = TRUE]
  <2>0. y \in BRequest /\ y.late = bReq[q].late /\ y.step = "introspect"
    BY <1>0, NextProvider
  <2>1. bReq' = [bReq EXCEPT ![q] = x]
    BY <1>0, <1>11
  <2> HIDE DEF y
  <2>2. x \in BRequest /\ x.late = bReq[q].late /\ x.step = "introspect"
    <3> DEFINE b == TRUE
    <3>1. b \in BOOLEAN
      OBVIOUS
    <3> HIDE DEF b
    <3>2. [y EXCEPT !.decisive = b] \in BRequest
      BY <2>0, <3>1 DEF BRequest
    <3>3. x \in BRequest
      BY <3>2 DEF b
    <3>4. x.late = y.late /\ x.step = y.step
      BY <2>0 DEF BRequest
    <3> QED BY <2>0, <3>3, <3>4
  <2> HIDE DEF x
  <2>3. FineReq(x, Dead, bDeleted, now, Ends, bKind)
    BY <1>0, <1>1, <2>2 DEF FineReq
  <2> QED BY <1>9, <2>1, <2>2, <2>3
<1> QED BY <1>10, <1>11 DEF Answer

\* Time passes, the credential is revoked, the user or the row deleted: what
\* is dead stays dead.
LEMMA BWorldInv ==
    ASSUME BInv, Tick \/ Revoke \/ BDeleteUser \/ DeleteExpiredSessions \/ UNCHANGED bVars
    PROVE  BInv'
<1>0. /\ now \in Nat /\ now <= MaxTime /\ bExpires \in Nat /\ bRevoked \in Nat
      /\ MaxTime \in Nat /\ TTLCap \in Nat /\ AskTimeout \in Nat
      /\ bRevoked <= now \/ bRevoked = Never
  BY BearersAssumption DEF BInv, BTyped
<1>1. UNCHANGED <<bKind, bExpires, bProviders, bCache, bReq>>
  BY DEF Tick, Revoke, BDeleteUser, DeleteExpiredSessions, bVars
<1>2. /\ now' \in Nat /\ now' >= now /\ now' <= MaxTime
      /\ bRevoked' \in Nat /\ (bRevoked' <= now' \/ bRevoked' = Never)
      /\ bRevoked' = bRevoked \/ (bRevoked = Never /\ bRevoked' = now)
  BY <1>0 DEF Tick, Revoke, BDeleteUser, DeleteExpiredSessions, bVars, Never
<1>3. (bDeleted => bDeleted') /\ bDeleted' \in BOOLEAN /\ bSwept' \in BOOLEAN
  BY DEF BInv, BTyped, Tick, Revoke, BDeleteUser, DeleteExpiredSessions, bVars
<1>4. BTyped'
  BY <1>1, <1>2, <1>3 DEF BInv, BTyped
<1>10. /\ Ends \in Nat /\ Ends' \in Nat
       /\ Ends' = Ends \/ (now <= Ends' /\ now < Ends)
       /\ Ends' = Ends \/ Ends' = now
  BY <1>0, <1>1, <1>2 DEF Ends, Never
<1>5. CacheBounded'
  <2> SUFFICES ASSUME NEW p \in 1..Len(bProviders)
               PROVE  /\ bProviders[p] # "untimed" => bCache[p] <= bExpires
                      /\ bCache[p] <= now' + TTLCap
                      /\ bCache[p] <= Ends' + AskTimeout + TTLCap
    BY <1>1 DEF CacheBounded
  <2>1. /\ bCache[p] \in Nat /\ (bProviders[p] # "untimed" => bCache[p] <= bExpires)
        /\ bCache[p] <= now + TTLCap /\ bCache[p] <= Ends + AskTimeout + TTLCap
    BY DEF BInv, BTyped, CacheBounded
  <2> QED BY <1>0, <1>2, <1>10, <2>1
<1>6. Dead => Dead'
  <2>1. Expired => Expired'
    BY <1>0, <1>1, <1>2 DEF Expired
  <2>2. bRevoked # Never => bRevoked' # Never
    BY <1>0, <1>2 DEF Never
  <2>3. now >= Ends + AskTimeout + TTLCap => now' >= Ends' + AskTimeout + TTLCap
    <3>1. now >= Ends + AskTimeout + TTLCap => Ends' = Ends
      BY <1>0, <1>10
    <3>2. now >= Ends + AskTimeout + TTLCap => now' >= Ends + AskTimeout + TTLCap
      BY <1>0, <1>2, <1>10
    <3> QED BY <3>1, <3>2
  <2>4. Never' = Never
    BY DEF Never
  <2>5. Timed' <=> Timed
    BY <1>1 DEF Timed
  <2> QED BY <1>1, <1>3, <2>1, <2>2, <2>3, <2>4, <2>5 DEF Dead
<1>7. ASSUME NEW r \in Requests
      PROVE  FineReq(bReq'[r], Dead', bDeleted', now', Ends', bKind')
  <2> DEFINE x == bReq[r]
  <2>1. FineReq(x, Dead, bDeleted, now, Ends, bKind) /\ x \in BRequest
    BY DEF BInv, BTyped
  <2>2. x.asked \in Nat
    BY <2>1 DEF BRequest
  <2> HIDE DEF x
  <2>3. x.step \in {"ask", "answered"} => x.asked <= now'
    BY <1>0, <1>2, <2>1, <2>2 DEF FineReq
  <2>4. x.step = "answered" /\ x.active => x.asked <= Ends'
    BY <1>0, <1>10, <2>1, <2>2 DEF FineReq
  <2>5. FineReq(x, Dead', bDeleted', now', Ends', bKind')
    BY <1>1, <1>3, <1>6, <2>1, <2>3, <2>4 DEF FineReq
  <2> QED BY <1>1, <2>5 DEF x
<1> QED BY <1>4, <1>5, <1>7 DEF BInv

\* Every step keeps the invariant.
LEMMA BNextInv == BInv /\ [BNext]_bVars => BInv'
BY BReadInv, BNonDecisiveInv, BCachedInv, BAskInv, BAnswerInv, BWorldInv DEF BNext

\* In every reachable state, no request that began when its user or its
\* credential was dead has been let in, for every timeout and cache lifetime
\* and any number of requests and providers' answers under way.
THEOREM DeadCredentialsRefused == BSpec => []DeadNeverAccepted
<1>1. BInv => DeadNeverAccepted
  BY DEF BInv, FineReq, DeadNeverAccepted
<1> QED BY <1>1, BInitInv, BNextInv, PTL DEF BSpec

(***************************************************************************)
(* Logins.  A callback that goes on after it consumed its flow carries     *)
(* that flow alone, and until it is done the flow has no session; an       *)
(* exchange holds the code's row.                                          *)
(***************************************************************************)
LFlow == [status : {"new", "open", "consumed", "coded", "spent", "expired"},
          cli : BOOLEAN, user : LoginUsers \cup {None}, lock : Requests \cup {None}]
LUser == [status : {"none", "active", "deleted"}, role : LoginRoles, named : BOOLEAN]
LCarry == {"lookup", "jit", "read user", "sync", "finish"}
LRequest == [step : LCarry \cup {"idle", "exchange"}, flow : Flows \cup {None},
             user : LoginUsers \cup {None}, role : LoginRoles, named : BOOLEAN]

LTyped ==
    /\ lConfig \in [sync : BOOLEAN, mapped : LoginRoles \cup {None}]
    /\ lFlows \in [Flows -> LFlow]
    /\ lUsers \in [LoginUsers -> LUser]
    /\ lBinding \in LoginUsers \cup {None}
    /\ lReq \in [Requests -> LRequest]
    /\ lSetRole \in [LoginUsers -> LoginRoles]

\* No session was opened for the flow.
Sessionless(f, sessions) == \A s \in sessions : s.flow # f

\* The request x of q fits the flows and the sessions there are.
FineLogin(q, x, flows, sessions) ==
    /\ x.step \in LCarry => /\ x.flow \in Flows /\ flows[x.flow].status = "consumed"
                            /\ Sessionless(x.flow, sessions)
    /\ x.step = "exchange" => /\ x.flow \in Flows /\ flows[x.flow].status = "coded"
                              /\ flows[x.flow].lock = q
    /\ x.step \in {"read user", "sync", "finish"} => x.user \in LoginUsers

FlowsCarried ==
    /\ \A q \in Requests : FineLogin(q, lReq[q], lFlows, lSessions)
    /\ \A q, r \in Requests :
         lReq[q].step \in LCarry /\ lReq[r].step \in LCarry /\ lReq[q].flow = lReq[r].flow => q = r
    /\ \A f \in Flows : lFlows[f].status \in {"new", "open", "coded"} => Sessionless(f, lSessions)

LInv == LTyped /\ FlowsCarried /\ LoginsSound

\* A request goes on with the flow it has, or is over.
LEMMA LoginGoesOn ==
    ASSUME LTyped, FlowsCarried, NEW q \in Requests, NEW x \in LRequest,
           lReq' = [lReq EXCEPT ![q] = x],
           x.step # "exchange",
           x.step \in LCarry => lReq[q].step \in LCarry /\ x.flow = lReq[q].flow,
           x.step \in {"read user", "sync", "finish"} => x.user \in LoginUsers,
           lFlows' = lFlows, lSessions' = lSessions
    PROVE  FlowsCarried' /\ lReq' \in [Requests -> LRequest]
<1>1. lReq' \in [Requests -> LRequest] /\ lReq \in [Requests -> LRequest]
  BY DEF LTyped
<1>2. \A r \in Requests : lReq'[r] = IF r = q THEN x ELSE lReq[r]
  BY <1>1
<1>3. FineLogin(q, x, lFlows, lSessions)
  BY DEF FlowsCarried, FineLogin
<1>4. \A r \in Requests : FineLogin(r, lReq'[r], lFlows', lSessions')
  BY <1>2, <1>3 DEF FlowsCarried
<1>5. \A r, p \in Requests :
         lReq'[r].step \in LCarry /\ lReq'[p].step \in LCarry /\ lReq'[r].flow = lReq'[p].flow => r = p
  <2>1. \A r \in Requests :
           lReq'[r].step \in LCarry => lReq[r].step \in LCarry /\ lReq'[r].flow = lReq[r].flow
    BY <1>2
  <2> QED BY <2>1 DEF FlowsCarried
<1> QED BY <1>1, <1>4, <1>5 DEF FlowsCarried

\* The idle request.
LEMMA LIdleRequest == LIdle \in LRequest /\ LIdle.step = "idle"
BY DEF LIdle, LRequest, LoginRoles, LCarry

\* The initial states satisfy the invariant.
LEMMA LInitInv == LInit => LInv
<1> SUFFICES ASSUME LInit PROVE LInv
  OBVIOUS
<1>1. LTyped
  <2>1. [status |-> "new", cli |-> FALSE, user |-> None, lock |-> None] \in LFlow
    BY DEF LFlow
  <2>2. NoUser \in LUser
    BY DEF NoUser, LUser, LoginRoles
  <2> QED BY <2>1, <2>2, LIdleRequest DEF LInit, LTyped, LoginRoles
<1>2. FlowsCarried
  BY LIdleRequest DEF LInit, FlowsCarried, FineLogin, Sessionless, LCarry
<1>3. LoginsSound
  BY DEF LInit, LoginsSound, FlowOpensOneSession, NoOrphanUser, RoleSurvivesNaming, NoUser
<1> QED BY <1>1, <1>2, <1>3 DEF LInv

\* A flow changes where no request carries it and nobody has its row.
LEMMA LFlowInv ==
    ASSUME LInv, NEW f \in Flows,
           FlowExpires(f) \/ \E cli \in BOOLEAN : handleStart(f, cli)
    PROVE  LInv'
<1>1. PICK st \in {"open", "expired"}, c \in BOOLEAN :
         lFlows' = [lFlows EXCEPT ![f] = [lFlows[f] EXCEPT !.status = st, !.cli = c]]
  <2>0. lFlows \in [Flows -> LFlow] /\ lFlows[f] \in LFlow
    BY DEF LInv, LTyped
  <2>1. CASE FlowExpires(f)
    <3>1. lFlows' = [lFlows EXCEPT ![f] = [lFlows[f] EXCEPT !.status = "expired"]]
      BY <2>0, <2>1 DEF FlowExpires
    <3>2. [lFlows[f] EXCEPT !.status = "expired"]
            = [lFlows[f] EXCEPT !.status = "expired", !.cli = lFlows[f].cli]
      BY <2>0 DEF LFlow
    <3>3. lFlows[f].cli \in BOOLEAN
      BY <2>0 DEF LFlow
    <3> QED BY <3>1, <3>2, <3>3
  <2>2. ASSUME NEW cli \in BOOLEAN, handleStart(f, cli)
        PROVE  lFlows' = [lFlows EXCEPT ![f] = [lFlows[f] EXCEPT !.status = "open", !.cli = cli]]
    BY <2>0, <2>2 DEF handleStart
  <2> QED BY <2>1, <2>2
<1>2. /\ lFlows[f].status \in {"new", "open", "coded"}
      /\ lFlows[f].status = "coded" => lFlows[f].lock = None
      /\ UNCHANGED <<lConfig, lUsers, lBinding, lSessions, lReq, lSetRole, lUnbound>>
  BY DEF FlowExpires, handleStart
<1> DEFINE y == [lFlows[f] EXCEPT !.status = st, !.cli = c]
<1>3. y \in LFlow /\ y.status = st /\ y.lock = lFlows[f].lock
  BY DEF LInv, LTyped, LFlow
<1> HIDE DEF y
<1>4. lFlows' \in [Flows -> LFlow]
      /\ \A g \in Flows : lFlows'[g] = IF g = f THEN y ELSE lFlows[g]
  BY <1>1, <1>3 DEF LInv, LTyped, y
<1>5. LTyped'
  BY <1>2, <1>4 DEF LInv, LTyped
<1>6. ASSUME NEW q \in Requests PROVE FineLogin(q, lReq[q], lFlows', lSessions)
  <2>1. FineLogin(q, lReq[q], lFlows, lSessions)
    BY DEF LInv, FlowsCarried
  <2>2. lReq[q].step \in LCarry \cup {"exchange"} => lReq[q].flow # f
    BY <1>2, <2>1, NoneAssumption DEF FineLogin
  <2> QED BY <1>4, <2>1, <2>2 DEF FineLogin
<1>7. \A g \in Flows : lFlows'[g].status \in {"new", "open", "coded"} => Sessionless(g, lSessions)
  BY <1>2, <1>4 DEF LInv, FlowsCarried
<1>8. FlowsCarried'
  BY <1>2, <1>6, <1>7 DEF LInv, FlowsCarried
<1>9. LoginsSound'
  BY <1>2 DEF LInv, LoginsSound, FlowOpensOneSession, NoOrphanUser, RoleSurvivesNaming
<1> QED BY <1>5, <1>8, <1>9 DEF LInv

\* A callback consumes its flow, and carries it or stops.
LEMMA LConsumeInv ==
    ASSUME LInv, NEW q \in Requests, NEW f \in Flows, ConsumeLoginFlow(q, f)
    PROVE  LInv'
<1> DEFINE z == [LIdle EXCEPT !.step = "lookup", !.flow = f]
           y == [lFlows[f] EXCEPT !.status = "consumed"]
<1>1. PICK x \in {z, LIdle} : lReq' = [lReq EXCEPT ![q] = x]
  BY DEF ConsumeLoginFlow, Go, LoginFail
<1>2. z \in LRequest /\ z.step = "lookup" /\ z.flow = f
  BY LIdleRequest DEF LRequest, LCarry
<1>3. lFlows' = [lFlows EXCEPT ![f] = y] /\ lFlows[f].status = "open"
      /\ UNCHANGED <<lConfig, lUsers, lBinding, lSessions, lSetRole, lUnbound>>
  BY DEF ConsumeLoginFlow, LInv, LTyped
<1>4. y \in LFlow /\ y.status = "consumed"
  BY DEF LInv, LTyped, LFlow
<1> HIDE DEF y, z
<1>5. x \in LRequest /\ ((x.step = "lookup" /\ x.flow = f) \/ x.step = "idle")
  BY <1>1, <1>2, LIdleRequest
<1>6. /\ lFlows' \in [Flows -> LFlow] /\ lReq' \in [Requests -> LRequest]
      /\ \A g \in Flows : lFlows'[g] = IF g = f THEN y ELSE lFlows[g]
      /\ \A r \in Requests : lReq'[r] = IF r = q THEN x ELSE lReq[r]
  BY <1>1, <1>3, <1>4, <1>5 DEF LInv, LTyped
<1>7. LTyped'
  BY <1>3, <1>6 DEF LInv, LTyped
<1>8. \A r \in Requests : lReq[r].step \in LCarry \cup {"exchange"} => lReq[r].flow # f
  BY <1>3 DEF LInv, FlowsCarried, FineLogin
<1>9. ASSUME NEW r \in Requests PROVE FineLogin(r, lReq'[r], lFlows', lSessions)
  <2>1. CASE r = q
    <3>1. Sessionless(f, lSessions)
      BY <1>3 DEF LInv, FlowsCarried
    <3> QED BY <1>4, <1>5, <1>6, <2>1, <3>1 DEF FineLogin, LCarry
  <2>2. CASE r # q
    <3>1. FineLogin(r, lReq[r], lFlows, lSessions)
      BY DEF LInv, FlowsCarried
    <3> QED BY <1>6, <1>8, <2>2, <3>1 DEF FineLogin
  <2> QED BY <2>1, <2>2
<1>10. ASSUME NEW r \in Requests, NEW p \in Requests, lReq'[r].step \in LCarry,
              lReq'[p].step \in LCarry, lReq'[r].flow = lReq'[p].flow
       PROVE  r = p
  <2>1. ~(x.step = "idle" /\ x.step \in LCarry)
    BY DEF LCarry
  <2>2. r = q => lReq'[r].flow = f
    BY <1>5, <1>6, <1>10, <2>1
  <2>3. p = q => lReq'[p].flow = f
    BY <1>5, <1>6, <1>10, <2>1
  <2>4. CASE r # q /\ p # q
    BY <1>6, <1>10, <2>4 DEF LInv, FlowsCarried
  <2> QED BY <1>6, <1>8, <1>10, <2>2, <2>3, <2>4
<1>11. FlowsCarried'
  <2>1. \A g \in Flows : lFlows'[g].status \in {"new", "open", "coded"} => Sessionless(g, lSessions)
    BY <1>4, <1>6 DEF LInv, FlowsCarried
  <2> QED BY <1>3, <1>9, <1>10, <2>1 DEF FlowsCarried
<1>12. LoginsSound'
  BY <1>3 DEF LInv, LoginsSound, FlowOpensOneSession, NoOrphanUser, RoleSurvivesNaming
<1> QED BY <1>7, <1>11, <1>12 DEF LInv

\* The binding and the user are read.
LEMMA LReadInv ==
    ASSUME LInv, NEW q \in Requests, LookupOIDCBinding(q) \/ GetUserByID(q)
    PROVE  LInv'
<1>0. LTyped /\ FlowsCarried /\ lReq[q] \in LRequest
      /\ UNCHANGED <<lConfig, lFlows, lUsers, lBinding, lSessions, lSetRole, lUnbound>>
  BY DEF LInv, LTyped, LookupOIDCBinding, GetUserByID
<1>1. SUFFICES FlowsCarried' /\ lReq' \in [Requests -> LRequest]
  <2>1. LoginsSound'
    BY <1>0 DEF LInv, LoginsSound, FlowOpensOneSession, NoOrphanUser, RoleSurvivesNaming
  <2> QED BY <1>0, <2>1 DEF LInv, LTyped
<1>2. CASE LookupOIDCBinding(q) /\ lBinding = None
  <2> DEFINE x == [lReq[q] EXCEPT !.step = "jit"]
  <2>1. x \in LRequest /\ x.step = "jit" /\ x.flow = lReq[q].flow
    BY <1>0 DEF LRequest, LCarry
  <2>2. lReq' = [lReq EXCEPT ![q] = x] /\ lReq[q].step \in LCarry
    BY <1>2 DEF LookupOIDCBinding, Go, LCarry
  <2> HIDE DEF x
  <2> QED BY <1>0, <2>1, <2>2, LoginGoesOn
<1>3. CASE LookupOIDCBinding(q) /\ lBinding # None
  <2> DEFINE x == [lReq[q] EXCEPT !.step = "read user", !.user = lBinding]
  <2>1. x \in LRequest /\ x.step = "read user" /\ x.flow = lReq[q].flow /\ x.user = lBinding
    BY <1>0 DEF LRequest, LCarry, LTyped
  <2>2. lReq' = [lReq EXCEPT ![q] = x] /\ lReq[q].step \in LCarry
    BY <1>3 DEF LookupOIDCBinding, Go, LCarry
  <2>3. lBinding \in LoginUsers
    BY <1>0, <1>3 DEF LTyped
  <2> HIDE DEF x
  <2> QED BY <1>0, <2>1, <2>2, <2>3, LoginGoesOn
<1>4. CASE GetUserByID(q) /\ lUsers[lReq[q].user].status # "active"
  BY <1>0, <1>4, LIdleRequest, LoginGoesOn DEF GetUserByID, LoginFail, Go, LCarry
<1>5. CASE GetUserByID(q) /\ lUsers[lReq[q].user].status = "active"
  <2>0. lReq[q].user \in LoginUsers
    BY <1>0, <1>5 DEF FlowsCarried, FineLogin, GetUserByID
  <2> DEFINE u == lUsers[lReq[q].user]
             x == [lReq[q] EXCEPT !.step = "sync", !.role = u.role, !.named = u.named]
  <2>1. u \in LUser
    BY <1>0, <2>0 DEF LTyped
  <2>2. lReq' = [lReq EXCEPT ![q] = x] /\ lReq[q].step \in LCarry
    BY <1>5 DEF GetUserByID, Go, LCarry
  <2> HIDE DEF u
  <2>3. u.role \in LoginRoles /\ u.named \in BOOLEAN
    BY <2>1 DEF LUser
  <2>4. x \in LRequest /\ x.step = "sync" /\ x.flow = lReq[q].flow /\ x.user = lReq[q].user
    BY <1>0, <2>3 DEF LRequest, LCarry
  <2> HIDE DEF x
  <2> QED BY <1>0, <2>0, <2>2, <2>4, LoginGoesOn
<1> QED BY <1>2, <1>3, <1>4, <1>5

\* A first login leaves one user behind, bound, with the role it was given.
LEMMA LJitInv ==
    ASSUME LInv, NEW q \in Requests, jitResolve(q)
    PROVE  LInv'
<1>0. /\ LTyped /\ FlowsCarried /\ LoginsSound /\ lReq[q] \in LRequest
      /\ lReq[q].step = "jit" /\ lReq[q].step \in LCarry
      /\ UNCHANGED <<lConfig, lFlows, lSessions, lUnbound>>
  BY DEF LInv, LTyped, jitResolve, JITCreateHuman, LCarry
<1>1. ASSUME NEW u \in LoginUsers, lReq' = [lReq EXCEPT ![q] = [lReq[q] EXCEPT !.step = "finish", !.user = u]]
      PROVE  FlowsCarried' /\ lReq' \in [Requests -> LRequest]
  <2> DEFINE x == [lReq[q] EXCEPT !.step = "finish", !.user = u]
  <2>1. x \in LRequest /\ x.step = "finish" /\ x.flow = lReq[q].flow /\ x.user = u
    BY <1>0 DEF LRequest, LCarry
  <2> HIDE DEF x
  <2>2. lReq' = [lReq EXCEPT ![q] = x]
    BY <1>1 DEF x
  <2> QED BY <1>0, <2>1, <2>2, LoginGoesOn
<1>2. CASE LoginFail(q) /\ UNCHANGED <<lUsers, lBinding, lSetRole>>
  <2>1. FlowsCarried' /\ lReq' \in [Requests -> LRequest]
    BY <1>0, <1>2, LIdleRequest, LoginGoesOn DEF LoginFail, Go, LCarry
  <2>2. LoginsSound'
    BY <1>0, <1>2 DEF LoginsSound, FlowOpensOneSession, NoOrphanUser, RoleSurvivesNaming
  <2> QED BY <1>0, <1>2, <2>1, <2>2 DEF LInv, LTyped
<1>3. CASE JITCreateHuman(q) /\ lBinding # None
  <2>1. /\ lReq' = [lReq EXCEPT ![q] = [lReq[q] EXCEPT !.step = "finish", !.user = lBinding]]
        /\ UNCHANGED <<lUsers, lBinding, lSetRole>> /\ lBinding \in LoginUsers
    BY <1>0, <1>3 DEF JITCreateHuman, Go, LTyped
  <2>2. FlowsCarried' /\ lReq' \in [Requests -> LRequest]
    BY <1>1, <2>1
  <2>3. LoginsSound'
    BY <1>0, <2>1 DEF LoginsSound, FlowOpensOneSession, NoOrphanUser, RoleSurvivesNaming
  <2> QED BY <1>0, <2>1, <2>2, <2>3 DEF LInv, LTyped
<1>4. CASE JITCreateHuman(q) /\ lBinding = None
  <2> DEFINE New(n) == [status |-> "active", role |-> JITRole, named |-> n]
  <2>1. PICK u \in LoginUsers, n \in BOOLEAN :
          /\ lUsers' = [lUsers EXCEPT ![u] = New(n)]
          /\ lSetRole' = [lSetRole EXCEPT ![u] = JITRole]
          /\ lBinding' = u
          /\ lReq' = [lReq EXCEPT ![q] = [lReq[q] EXCEPT !.step = "finish", !.user = u]]
    BY <1>4 DEF JITCreateHuman, Go
  <2>2. JITRole \in LoginRoles
    BY <1>0 DEF JITRole, LTyped, LoginRoles
  <2>3. New(n) \in LUser /\ New(n).role = JITRole
    BY <2>2 DEF LUser
  <2> HIDE DEF New
  <2>4. /\ lUsers' \in [LoginUsers -> LUser] /\ lSetRole' \in [LoginUsers -> LoginRoles]
        /\ \A v \in LoginUsers : lUsers'[v] = IF v = u THEN New(n) ELSE lUsers[v]
        /\ \A v \in LoginUsers : lSetRole'[v] = IF v = u THEN JITRole ELSE lSetRole[v]
    BY <1>0, <2>1, <2>2, <2>3 DEF LTyped
  <2>5. FlowsCarried' /\ lReq' \in [Requests -> LRequest]
    BY <1>1, <2>1
  <2>6. NoOrphanUser'
    <3>1. \A v \in LoginUsers : lUsers[v].status # "none" => v \in lUnbound
      BY <1>0, <1>4, LoginsAssumption DEF LoginsSound, NoOrphanUser
    <3> QED BY <1>0, <2>1, <2>4, <3>1 DEF NoOrphanUser
  <2>7. RoleSurvivesNaming'
    BY <1>0, <2>3, <2>4 DEF LoginsSound, RoleSurvivesNaming
  <2>8. FlowOpensOneSession'
    BY <1>0 DEF LoginsSound, FlowOpensOneSession
  <2> QED BY <1>0, <2>1, <2>4, <2>5, <2>6, <2>7, <2>8 DEF LInv, LTyped, LoginsSound
<1> QED BY <1>2, <1>3, <1>4 DEF jitResolve

\* What a login writes, and what it makes of the request.
LEMMA LSyncInv ==
    ASSUME LInv, NEW q \in Requests, applyLoginSync(q)
    PROVE  LInv'
<1>0. /\ LTyped /\ FlowsCarried /\ LoginsSound /\ lReq[q] \in LRequest
      /\ lReq[q].step = "sync" /\ lReq[q].step \in LCarry
      /\ UNCHANGED <<lConfig, lFlows, lBinding, lSessions, lUnbound>>
  BY DEF LInv, LTyped, applyLoginSync, LCarry
<1>1. lReq[q].user \in LoginUsers
  BY <1>0 DEF FlowsCarried, FineLogin
<1> DEFINE u == lReq[q].user
           x == [lReq[q] EXCEPT !.step = "finish"]
           role == resolveLoginRole(q)
           Synced(c) == [lUsers[u] EXCEPT !.role = role, !.named = @ \/ (c /\ ~lReq[q].named)]
<1>2. PICK c \in BOOLEAN :
        /\ lReq' = [lReq EXCEPT ![q] = LIdle] \/ lReq' = [lReq EXCEPT ![q] = x]
        /\ \/ UNCHANGED <<lUsers, lSetRole>>
           \/ /\ lUsers' = [lUsers EXCEPT ![u] = IF lConfig.sync THEN Synced(c) ELSE WriteName(q)]
              /\ lSetRole' = IF lConfig.sync /\ role # lReq[q].role
                             THEN [lSetRole EXCEPT ![u] = role] ELSE lSetRole
  BY DEF applyLoginSync, Go, LoginFail
<1>3. x \in LRequest /\ x.step = "finish" /\ x.flow = lReq[q].flow /\ x.user = u
  BY <1>0 DEF LRequest, LCarry
<1> HIDE DEF x
<1>4. FlowsCarried' /\ lReq' \in [Requests -> LRequest]
  <2>1. CASE lReq' = [lReq EXCEPT ![q] = LIdle]
    BY <1>0, <2>1, LIdleRequest, LoginGoesOn DEF LCarry
  <2>2. CASE lReq' = [lReq EXCEPT ![q] = x]
    BY <1>0, <1>1, <1>3, <2>2, LoginGoesOn
  <2> QED BY <1>2, <2>1, <2>2
<1>5. role \in LoginRoles
  BY <1>0 DEF resolveLoginRole, LTyped, LRequest
<1>6. lUsers[u] \in LUser
  BY <1>0, <1>1 DEF LTyped
<1> DEFINE y == IF lConfig.sync THEN Synced(c) ELSE WriteName(q)
<1>7. y \in LUser /\ y.status = lUsers[u].status /\ (~lConfig.sync => y.role = lUsers[u].role)
  <2> DEFINE n == lUsers[u].named \/ (c /\ ~lReq[q].named)
  <2>1. n \in BOOLEAN
    OBVIOUS
  <2>2. Synced(c) = [lUsers[u] EXCEPT !.role = role, !.named = n]
    BY <1>6 DEF LUser
  <2> HIDE DEF n, role
  <2>3. /\ [lUsers[u] EXCEPT !.role = role, !.named = n] \in LUser
        /\ [lUsers[u] EXCEPT !.role = role, !.named = n].status = lUsers[u].status
    BY <1>5, <1>6, <2>1 DEF LUser
  <2>4. /\ WriteName(q).status = lUsers[u].status
        /\ WriteName(q).role = lUsers[u].role
    BY <1>6 DEF LUser, WriteName
  <2>5. WriteName(q) \in LUser
    <3> DEFINE t == TRUE
    <3>1. t \in BOOLEAN
      OBVIOUS
    <3> HIDE DEF t
    <3>2. [lUsers[u] EXCEPT !.named = t] \in LUser
      BY <1>6, <3>1 DEF LUser
    <3> QED BY <3>2 DEF t, WriteName
  <2>6. CASE lConfig.sync
    BY <2>2, <2>3, <2>6 DEF role
  <2>7. CASE ~lConfig.sync
    BY <2>4, <2>5, <2>7
  <2> QED BY <2>6, <2>7
<1> HIDE DEF y, role
<1>8. /\ lUsers' \in [LoginUsers -> LUser] /\ lSetRole' \in [LoginUsers -> LoginRoles]
      /\ \A v \in LoginUsers : lUsers'[v].status = lUsers[v].status
      /\ ~lConfig.sync => /\ lSetRole' = lSetRole
                          /\ \A v \in LoginUsers : lUsers'[v].role = lUsers[v].role
  <2>1. CASE UNCHANGED <<lUsers, lSetRole>>
    BY <1>0, <2>1 DEF LTyped
  <2>2. CASE /\ lUsers' = [lUsers EXCEPT ![u] = y]
             /\ lSetRole' = IF lConfig.sync /\ role # lReq[q].role
                            THEN [lSetRole EXCEPT ![u] = role] ELSE lSetRole
    BY <1>0, <1>1, <1>5, <1>7, <2>2 DEF LTyped
  <2> QED BY <1>2, <2>1, <2>2 DEF y, role
<1>9. LoginsSound'
  <2>1. FlowOpensOneSession' /\ NoOrphanUser'
    BY <1>0, <1>8 DEF LoginsSound, FlowOpensOneSession, NoOrphanUser
  <2>2. RoleSurvivesNaming'
    BY <1>0, <1>8 DEF LoginsSound, RoleSurvivesNaming
  <2> QED BY <2>1, <2>2 DEF LoginsSound
<1> QED BY <1>0, <1>4, <1>8, <1>9 DEF LInv, LTyped

\* A request that has a flow to itself changes its row, and may open the one
\* session of it.
LEMMA FlowSettled ==
    ASSUME LInv, NEW q \in Requests, NEW x \in LRequest, NEW f \in Flows, NEW y \in LFlow,
           lReq' = [lReq EXCEPT ![q] = x], lFlows' = [lFlows EXCEPT ![f] = y],
           \A r \in Requests : r # q /\ lReq[r].step \in LCarry \cup {"exchange"} => lReq[r].flow # f,
           x.step = "idle" \/ (x.step = "exchange" /\ x.flow = f /\ y.status = "coded" /\ y.lock = q),
           \/ lSessions' = lSessions
           \/ /\ \E u : lSessions' = lSessions \cup {NewSession(f, u)}
              /\ y.status \notin {"new", "open", "coded"},
           y.status \in {"new", "open", "coded"} \/ lSessions' # lSessions => Sessionless(f, lSessions),
           UNCHANGED <<lConfig, lUsers, lBinding, lSetRole, lUnbound>>
    PROVE  LInv'
<1>1. /\ lFlows' \in [Flows -> LFlow] /\ lReq' \in [Requests -> LRequest]
      /\ \A g \in Flows : lFlows'[g] = IF g = f THEN y ELSE lFlows[g]
      /\ \A r \in Requests : lReq'[r] = IF r = q THEN x ELSE lReq[r]
  BY DEF LInv, LTyped
<1>2. \A s \in lSessions' : s \in lSessions \/ (s.flow = f /\ lSessions' # lSessions)
  <2>1. CASE lSessions' = lSessions
    BY <2>1
  <2>2. ASSUME NEW u, lSessions' = lSessions \cup {NewSession(f, u)}
        PROVE  \A s \in lSessions' : s \in lSessions \/ s.flow = f
    <3>1. NewSession(f, u).flow = f
      BY DEF NewSession
    <3> HIDE DEF NewSession
    <3> QED BY <2>2, <3>1
  <2> QED BY <2>1, <2>2
<1>3. \A g \in Flows : g # f /\ Sessionless(g, lSessions) => Sessionless(g, lSessions')
  BY <1>2 DEF Sessionless
<1>4. ASSUME NEW r \in Requests PROVE FineLogin(r, lReq'[r], lFlows', lSessions')
  <2>1. CASE r = q
    BY <1>1, <2>1 DEF FineLogin, LCarry
  <2>2. CASE r # q
    <3>1. FineLogin(r, lReq[r], lFlows, lSessions)
      BY DEF LInv, FlowsCarried
    <3> QED BY <1>1, <1>3, <2>2, <3>1 DEF FineLogin
  <2> QED BY <2>1, <2>2
<1>5. \A r, p \in Requests :
         lReq'[r].step \in LCarry /\ lReq'[p].step \in LCarry /\ lReq'[r].flow = lReq'[p].flow => r = p
  <2>1. x.step \notin LCarry
    BY DEF LCarry
  <2> QED BY <1>1, <2>1 DEF LInv, FlowsCarried
<1>6. \A g \in Flows : lFlows'[g].status \in {"new", "open", "coded"} => Sessionless(g, lSessions')
  BY <1>1, <1>3 DEF LInv, FlowsCarried
<1>7. FlowOpensOneSession'
  <2>0. FlowOpensOneSession
    BY DEF LInv, LoginsSound
  <2>1. CASE lSessions' = lSessions
    BY <2>0, <2>1 DEF FlowOpensOneSession
  <2>2. CASE lSessions' # lSessions
    <3>1. PICK u : lSessions' = lSessions \cup {NewSession(f, u)}
      BY <2>2
    <3>2. NewSession(f, u).flow = f /\ Sessionless(f, lSessions)
      BY <2>2 DEF NewSession
    <3> HIDE DEF NewSession
    <3> QED BY <2>0, <3>1, <3>2 DEF FlowOpensOneSession, Sessionless
  <2> QED BY <2>1, <2>2
<1>8. NoOrphanUser' /\ RoleSurvivesNaming'
  BY DEF LInv, LoginsSound, NoOrphanUser, RoleSurvivesNaming
<1>9. LTyped'
  BY <1>1 DEF LInv, LTyped
<1> QED BY <1>4, <1>5, <1>6, <1>7, <1>8, <1>9 DEF LInv, FlowsCarried, LoginsSound

\* The end of a callback.
LEMMA LCallbackInv ==
    ASSUME LInv, NEW q \in Requests, handleCallback(q)
    PROVE  LInv'
<1> DEFINE f == lReq[q].flow
           u == lReq[q].user
           coded == [lFlows[f] EXCEPT !.status = "coded", !.user = u]
<1>0. FineLogin(q, lReq[q], lFlows, lSessions) /\ lReq[q].step = "finish" /\ lReq[q].step \in LCarry
  BY DEF LInv, FlowsCarried, handleCallback, LCarry
<1>1. /\ f \in Flows /\ lFlows[f].status = "consumed" /\ Sessionless(f, lSessions)
      /\ u \in LoginUsers /\ lFlows[f] \in LFlow /\ lFlows \in [Flows -> LFlow]
  BY <1>0 DEF FineLogin, LInv, LTyped
<1>2. \A r \in Requests : r # q /\ lReq[r].step \in LCarry \cup {"exchange"} => lReq[r].flow # f
  BY <1>0, <1>1 DEF LInv, FlowsCarried, FineLogin
<1>3. lReq' = [lReq EXCEPT ![q] = LIdle] /\ UNCHANGED <<lConfig, lUsers, lBinding, lSetRole, lUnbound>>
  BY DEF handleCallback, LoginFail, Go
<1>4. coded \in LFlow /\ coded.status = "coded"
  BY <1>1 DEF LFlow
<1>5. lFlows = [lFlows EXCEPT ![f] = lFlows[f]]
  BY <1>1
<1>6. \/ lFlows' = lFlows /\ lSessions' = lSessions
      \/ lFlows' = [lFlows EXCEPT ![f] = coded] /\ lSessions' = lSessions
      \/ lFlows' = lFlows /\ lSessions' = lSessions \cup {NewSession(f, u)}
  <2>1. CASE lUsers[u].status # "active"
    BY <2>1 DEF handleCallback
  <2>2. CASE lUsers[u].status = "active" /\ lFlows[f].cli
    BY <1>1, <2>2 DEF handleCallback
  <2>3. CASE lUsers[u].status = "active" /\ ~lFlows[f].cli
    BY <2>3 DEF handleCallback
  <2> QED BY <2>1, <2>2, <2>3
<1> DEFINE same == lFlows[f]
<1>a. /\ same \in LFlow /\ same.status \notin {"new", "open", "coded"}
      /\ lFlows' = lFlows => lFlows' = [lFlows EXCEPT ![f] = same]
  BY <1>1, <1>5
<1> HIDE DEF f, u, coded, same
<1>7. CASE lFlows' = lFlows /\ lSessions' = lSessions
  <2>1. lFlows' = [lFlows EXCEPT ![f] = same] /\ lSessions' = lSessions
    BY <1>a, <1>7
  <2>2. f \in Flows /\ same \in LFlow /\ same.status \notin {"new", "open", "coded"}
        /\ LIdle \in LRequest /\ LIdle.step = "idle"
    BY <1>1, <1>a, LIdleRequest
  <2> QED BY <1>2, <1>3, <2>1, <2>2, FlowSettled
<1>8. CASE lFlows' = [lFlows EXCEPT ![f] = coded] /\ lSessions' = lSessions
  BY <1>1, <1>2, <1>3, <1>4, <1>8, LIdleRequest, FlowSettled
<1>9. CASE lFlows' = lFlows /\ lSessions' = lSessions \cup {NewSession(f, u)}
  <2>1. \E v : lSessions' = lSessions \cup {NewSession(f, v)}
    BY <1>9
  <2>2. lFlows' = [lFlows EXCEPT ![f] = same]
    BY <1>a, <1>9
  <2>3. f \in Flows /\ same \in LFlow /\ same.status \notin {"new", "open", "coded"}
        /\ LIdle \in LRequest /\ LIdle.step = "idle" /\ Sessionless(f, lSessions)
    BY <1>1, <1>a, LIdleRequest
  <2> QED BY <1>2, <1>3, <2>1, <2>2, <2>3, FlowSettled
<1> QED BY <1>6, <1>7, <1>8, <1>9

\* An exchange begins: it has the code's row.
LEMMA LCLIExchangeInv ==
    ASSUME LInv, NEW q \in Requests, NEW f \in Flows, handleCLIExchange(q, f)
    PROVE  LInv'
<1> DEFINE x == [LIdle EXCEPT !.step = "exchange", !.flow = f, !.user = lFlows[f].user]
           y == [lFlows[f] EXCEPT !.lock = q]
<1>1. lFlows[f] \in LFlow /\ lFlows \in [Flows -> LFlow]
  BY DEF LInv, LTyped
<1>2. /\ lReq' = [lReq EXCEPT ![q] = x] /\ lFlows' = [lFlows EXCEPT ![f] = y]
      /\ lFlows[f].status = "coded" /\ lFlows[f].lock = None
      /\ UNCHANGED <<lConfig, lUsers, lBinding, lSessions, lSetRole, lUnbound>>
  BY <1>1 DEF handleCLIExchange, Go
<1>3. x \in LRequest /\ x.step = "exchange" /\ x.flow = f
  <2>1. lFlows[f].user \in LoginUsers \cup {None}
    BY <1>1 DEF LFlow
  <2> QED BY <2>1, LIdleRequest DEF LRequest
<1>4. y \in LFlow /\ y.status = "coded" /\ y.lock = q
  BY <1>1, <1>2 DEF LFlow
<1>5. \A r \in Requests : r # q /\ lReq[r].step \in LCarry \cup {"exchange"} => lReq[r].flow # f
  BY <1>2, NoneAssumption DEF LInv, FlowsCarried, FineLogin
<1>6. Sessionless(f, lSessions)
  BY <1>2 DEF LInv, FlowsCarried
<1> HIDE DEF x, y
<1> QED BY <1>2, <1>3, <1>4, <1>5, <1>6, FlowSettled

\* An exchange ends.
LEMMA LExchangedInv ==
    ASSUME LInv, NEW q \in Requests, ExchangeCLICode(q)
    PROVE  LInv'
<1> DEFINE f == lReq[q].flow
           spent == [lFlows[f] EXCEPT !.status = "spent", !.lock = None]
           free == [lFlows[f] EXCEPT !.lock = None]
<1>0. /\ FineLogin(q, lReq[q], lFlows, lSessions) /\ lReq[q].step = "exchange"
      /\ lFlows \in [Flows -> LFlow]
  BY DEF LInv, LTyped, FlowsCarried, ExchangeCLICode
<1>1. f \in Flows /\ lFlows[f].status = "coded" /\ lFlows[f].lock = q /\ lFlows[f] \in LFlow
  BY <1>0 DEF FineLogin
<1>2. /\ spent \in LFlow /\ spent.status = "spent"
      /\ free \in LFlow /\ free.status = "coded"
  BY <1>1 DEF LFlow
<1>3. \/ lFlows' = [lFlows EXCEPT ![f] = spent]
         /\ lSessions' = lSessions \cup {NewSession(f, lReq[q].user)}
      \/ lFlows' = [lFlows EXCEPT ![f] = free] /\ lSessions' = lSessions
  BY <1>0, <1>1 DEF ExchangeCLICode
<1>4. lReq' = [lReq EXCEPT ![q] = LIdle] /\ UNCHANGED <<lConfig, lUsers, lBinding, lSetRole, lUnbound>>
  BY DEF ExchangeCLICode, LoginFail, Go
<1>5. \A r \in Requests : r # q /\ lReq[r].step \in LCarry \cup {"exchange"} => lReq[r].flow # f
  BY <1>1 DEF LInv, FlowsCarried, FineLogin
<1>6. Sessionless(f, lSessions)
  BY <1>1 DEF LInv, FlowsCarried
<1> HIDE DEF f, spent, free
<1>7. CASE /\ lFlows' = [lFlows EXCEPT ![f] = spent]
           /\ lSessions' = lSessions \cup {NewSession(f, lReq[q].user)}
  BY <1>1, <1>2, <1>4, <1>5, <1>6, <1>7, LIdleRequest, FlowSettled
<1>8. CASE lFlows' = [lFlows EXCEPT ![f] = free] /\ lSessions' = lSessions
  BY <1>1, <1>2, <1>4, <1>5, <1>6, <1>8, LIdleRequest, FlowSettled
<1> QED BY <1>3, <1>7, <1>8

\* An administrator changes a role, deletes a user or removes the binding.
LEMMA LAdminInv ==
    ASSUME LInv,
           \/ \E u \in LoginUsers : LSoftDeleteUser(u) \/ \E role \in LoginRoles : UpdateUserRole(u, role)
           \/ UnbindOIDC \/ UNCHANGED lVars
    PROVE  LInv'
<1>0. LTyped /\ LoginsSound /\ FlowsCarried /\ UNCHANGED <<lConfig, lFlows, lSessions, lReq>>
  BY DEF LInv, LSoftDeleteUser, UpdateUserRole, UnbindOIDC, lVars
<1>1. FlowsCarried' /\ FlowOpensOneSession'
  BY <1>0 DEF FlowsCarried, LoginsSound, FlowOpensOneSession
<1>2. CASE UnbindOIDC \/ UNCHANGED lVars
  <2>1. NoOrphanUser' /\ RoleSurvivesNaming'
    BY <1>0, <1>2 DEF UnbindOIDC, lVars, LoginsSound, NoOrphanUser, RoleSurvivesNaming
  <2>2. LTyped'
    BY <1>0, <1>2 DEF UnbindOIDC, lVars, LTyped
  <2> QED BY <1>1, <2>1, <2>2 DEF LInv, LoginsSound
<1>3. ASSUME NEW u \in LoginUsers, LSoftDeleteUser(u) PROVE LInv'
  <2> DEFINE y == [lUsers[u] EXCEPT !.status = "deleted"]
  <2>1. y \in LUser /\ y.role = lUsers[u].role
    BY <1>0 DEF LTyped, LUser
  <2>2. lUsers' = [lUsers EXCEPT ![u] = y] /\ lUsers[u].status = "active"
        /\ UNCHANGED <<lBinding, lSetRole, lUnbound>>
    BY <1>0, <1>3 DEF LSoftDeleteUser, LTyped
  <2> HIDE DEF y
  <2>3. lUsers' \in [LoginUsers -> LUser]
        /\ \A v \in LoginUsers : lUsers'[v] = IF v = u THEN y ELSE lUsers[v]
    BY <1>0, <2>1, <2>2 DEF LTyped
  <2>4. NoOrphanUser' /\ RoleSurvivesNaming'
    BY <1>0, <2>1, <2>2, <2>3 DEF LoginsSound, NoOrphanUser, RoleSurvivesNaming
  <2>5. LTyped'
    BY <1>0, <2>2, <2>3 DEF LTyped
  <2> QED BY <1>1, <2>4, <2>5 DEF LInv, LoginsSound
<1>4. ASSUME NEW u \in LoginUsers, NEW role \in LoginRoles, UpdateUserRole(u, role) PROVE LInv'
  <2> DEFINE y == [lUsers[u] EXCEPT !.role = role]
  <2>1. y \in LUser /\ y.role = role
    BY <1>0 DEF LTyped, LUser
  <2>2. lUsers' = [lUsers EXCEPT ![u] = y] /\ lUsers[u].status = "active"
        /\ lSetRole' = [lSetRole EXCEPT ![u] = role] /\ UNCHANGED <<lBinding, lUnbound>>
    BY <1>0, <1>4 DEF UpdateUserRole, LTyped
  <2> HIDE DEF y
  <2>3. /\ lUsers' \in [LoginUsers -> LUser] /\ lSetRole' \in [LoginUsers -> LoginRoles]
        /\ \A v \in LoginUsers : lUsers'[v] = IF v = u THEN y ELSE lUsers[v]
        /\ \A v \in LoginUsers : lSetRole'[v] = IF v = u THEN role ELSE lSetRole[v]
    BY <1>0, <2>1, <2>2 DEF LTyped
  <2>4. NoOrphanUser'
    BY <1>0, <2>2, <2>3 DEF LoginsSound, NoOrphanUser
  <2>6. RoleSurvivesNaming'
    BY <1>0, <2>1, <2>2, <2>3 DEF LoginsSound, RoleSurvivesNaming
  <2>5. LTyped'
    BY <1>0, <2>2, <2>3 DEF LTyped
  <2> QED BY <1>1, <2>4, <2>5, <2>6 DEF LInv, LoginsSound
<1> QED BY <1>2, <1>3, <1>4

\* Every step keeps the invariant.
LEMMA LNextInv == LInv /\ [LNext]_lVars => LInv'
BY LFlowInv, LConsumeInv, LReadInv, LJitInv, LSyncInv, LCallbackInv, LCLIExchangeInv,
   LExchangedInv, LAdminInv DEF LNext

\* In every reachable state, a login flow has opened at most one session, every
\* user that a first login created is bound or was unbound by an administrator,
\* and without role synchronisation a user's role is the one it was last given,
\* for any number of flows, of users and of concurrent requests.
THEOREM LoginsStaySound == LSpec => []LoginsSound
<1>1. LInv => LoginsSound
  BY DEF LInv
<1> QED BY <1>1, LInitInv, LNextInv, PTL DEF LSpec

(***************************************************************************)
(* API keys.  A mint has the users row from its count to its insert, so    *)
(* the count is still good when it inserts; a rotation has the row of the  *)
(* old key, which is revoked for good when the successor is inserted.      *)
(***************************************************************************)
KKey == [status : KeyStatus, by : KeyOrigins \cup {None}, from : 0..MaxKeys,
         lock : Requests \cup {None}]
KOps == {"mint", "admin", "own rotation", "admin rotation", "delete", "resync", None}
KSteps == {"idle", "lock user", "count", "insert", "revoke old", "read old", "delete user",
           "snapshot keys", "revoke all", "list keys", "revoke each"}
KRequest == [op : KOps, key : 0..MaxKeys, step : KSteps, seen : SUBSET KeyIds]

KTyped ==
    /\ kUserLock \in Requests \cup {None}
    /\ kKeys \in [KeyIds -> KKey]
    /\ kReq \in [Requests -> KRequest]

Live == {"active", "expired"}
Mints(keys) == {k \in KeyIds : keys[k].status = "active" /\ keys[k].by = "mint"}

KeyFine(k, keys) ==
    /\ keys[k].status = "none" => keys[k].by = None /\ keys[k].lock = None
    /\ keys[k].by = "own rotation" => /\ keys[k].from \in KeyIds
                                      /\ keys[keys[k].from].status = "revoked"

\* The request x of q fits the keys and the lock of the users row.
KReqFine(q, x, keys, lock) ==
    /\ x.step \in {"lock user", "count"} => x.op = "mint"
    /\ x.op = "mint" /\ x.step \in {"count", "insert"} => lock = q
    /\ x.op = "mint" /\ x.step = "insert" => Cardinality(Mints(keys)) < Quota
    /\ x.op = "own rotation" => x.key \in KeyIds
    /\ x.op = "own rotation" /\ x.step = "insert"
         => keys[x.key].lock = q /\ keys[x.key].status \in Live

KInv ==
    /\ KTyped
    /\ \A k \in KeyIds : KeyFine(k, kKeys)
    /\ \A q \in Requests : KReqFine(q, kReq[q], kKeys, kUserLock)
    /\ Cardinality(Mints(kKeys)) <= Quota
    /\ RotatedOnce

\* What a step of q may do to a key that is not new.
Kept(old, new, q) ==
    /\ new.by = old.by /\ new.from = old.from
    /\ \/ new.status = old.status
       \/ old.status = "active" /\ new.status = "expired"
       \/ old.status \in Live /\ old.lock \in {None, q} /\ new.status = "revoked"
    /\ new.lock = old.lock \/ (old.lock \in {None, q} /\ new.status # "none")

\* There is a first row that is free, and Fresh is that row.
LEMMA FreshIsFirst ==
    ASSUME Room
    PROVE  /\ Fresh \in KeyIds /\ kKeys[Fresh].status = "none"
           /\ \A j \in 1..Fresh - 1 : kKeys[j].status # "none"
<1> DEFINE T == {k \in KeyIds : kKeys[k].status = "none"}
           R == {ss \in Nat \X Nat : ss[1] < ss[2]}
<1>1. T # {} /\ T \subseteq Nat /\ T \subseteq KeyIds
  BY ApiKeysAssumption DEF Room, KeyIds
<1>2. IsWellFoundedOn(R, Nat)
  BY NatLessThanWellFounded, Zenon DEF OpToRel
<1>3. PICK k \in T : \A j \in T : ~(<<j, k>> \in R)
  <2> HIDE DEF T, R
  <2> QED BY <1>1, <1>2, WFMin
<1>4. \A j \in T : ~(j < k)
  BY <1>1, <1>3
<1>5. \A j \in 1..k-1 : kKeys[j].status # "none"
  <2> SUFFICES ASSUME NEW j \in 1..k-1, kKeys[j].status = "none" PROVE FALSE
    OBVIOUS
  <2>1. j \in KeyIds /\ j < k
    BY <1>1, <1>3, ApiKeysAssumption DEF KeyIds
  <2> QED BY <1>4, <2>1
<1> DEFINE P(n) == n \in KeyIds /\ kKeys[n].status = "none" /\ \A j \in 1..n-1 : kKeys[j].status # "none"
<1>6. P(k)
  BY <1>3, <1>5
<1>7. Fresh = CHOOSE n \in KeyIds : kKeys[n].status = "none" /\ \A j \in 1..n-1 : kKeys[j].status # "none"
  BY DEF Fresh
<1> QED BY <1>6, <1>7

\* Most proofs only need it to be free.
LEMMA FreshIsFree ==
    ASSUME Room
    PROVE  Fresh \in KeyIds /\ kKeys[Fresh].status = "none"
BY FreshIsFirst

\* The active mints are finitely many.
LEMMA MintsFinite ==
    ASSUME NEW keys
    PROVE  IsFiniteSet(Mints(keys)) /\ Cardinality(Mints(keys)) \in Nat
<1>1. IsFiniteSet(KeyIds)
  BY ApiKeysAssumption, FS_Interval DEF KeyIds
<1>2. Mints(keys) \in SUBSET KeyIds
  BY DEF Mints
<1>3. IsFiniteSet(Mints(keys))
  BY <1>1, <1>2, FS_Subset
<1> QED BY <1>3, FS_CardinalityType

\* Keys that are only kept are no more mints than before.
LEMMA MintsKept ==
    ASSUME NEW old, NEW new, NEW q, \A k \in KeyIds : Kept(old[k], new[k], q)
    PROVE  Cardinality(Mints(new)) <= Cardinality(Mints(old))
<1>1. Mints(new) \in SUBSET Mints(old)
  BY DEF Mints, Kept
<1> QED BY <1>1, MintsFinite, FS_Subset

\* A request of another handler goes on fitting.
LEMMA OthersFit ==
    ASSUME NEW q, NEW r \in Requests, r # q, NEW x \in KRequest, NEW old, NEW new, NEW lock, NEW lock2,
           KReqFine(r, x, old, lock), lock2 = lock \/ lock \in {None, q},
           \A k \in KeyIds : old[k].status # "none" => Kept(old[k], new[k], q),
           x.op = "mint" /\ x.step = "insert" => Cardinality(Mints(new)) <= Cardinality(Mints(old))
    PROVE  KReqFine(r, x, new, lock2)
<1>1. x.op = "mint" /\ x.step \in {"count", "insert"} => lock2 = r
  BY NoneAssumption DEF KReqFine
<1>2. x.op = "mint" /\ x.step = "insert" => Cardinality(Mints(new)) < Quota
  BY MintsFinite, ApiKeysAssumption DEF KReqFine
<1>3. ASSUME x.op = "own rotation", x.step = "insert"
      PROVE  new[x.key].lock = r /\ new[x.key].status \in Live
  <2>1. x.key \in KeyIds /\ old[x.key].lock = r /\ old[x.key].status \in Live
    BY <1>3 DEF KReqFine
  <2>2. Kept(old[x.key], new[x.key], q)
    BY <2>1 DEF Live
  <2> QED BY <2>1, <2>2, NoneAssumption DEF Kept, Live
<1> QED BY <1>1, <1>2, <1>3 DEF KReqFine

\* A step of q that only keeps keys.
LEMMA KeysKept ==
    ASSUME KInv, NEW q, kUserLock' \in Requests \cup {None},
           kUserLock' = kUserLock \/ kUserLock \in {None, q},
           kKeys' \in [KeyIds -> KKey], \A k \in KeyIds : Kept(kKeys[k], kKeys'[k], q),
           kReq' \in [Requests -> KRequest],
           \A r \in Requests : r # q => kReq'[r] = kReq[r],
           q \in Requests => KReqFine(q, kReq'[q], kKeys', kUserLock')
    PROVE  KInv'
<1>1. KTyped'
  BY DEF KTyped
<1>2. Cardinality(Mints(kKeys')) <= Cardinality(Mints(kKeys))
  BY MintsKept
<1>3. ASSUME NEW k \in KeyIds PROVE KeyFine(k, kKeys')
  <2>1. KeyFine(k, kKeys) /\ Kept(kKeys[k], kKeys'[k], q)
    BY DEF KInv
  <2>2. kKeys'[k].status = "none" => kKeys'[k].by = None /\ kKeys'[k].lock = None
    BY <2>1 DEF KeyFine, Kept
  <2>3. kKeys'[k].by = "own rotation" =>
          kKeys'[k].from \in KeyIds /\ kKeys'[kKeys'[k].from].status = "revoked"
    <3> DEFINE f == kKeys[k].from
    <3>1. kKeys'[k].from = f /\ kKeys'[k].by = kKeys[k].by
      BY <2>1 DEF Kept
    <3>2. f \in KeyIds => Kept(kKeys[f], kKeys'[f], q)
      OBVIOUS
    <3>3. kKeys[k].by = "own rotation" => f \in KeyIds /\ kKeys[f].status = "revoked"
      BY <2>1 DEF KeyFine
    <3> HIDE DEF f
    <3> QED BY <3>1, <3>2, <3>3 DEF Kept, Live
  <2> QED BY <2>2, <2>3 DEF KeyFine
<1>4. ASSUME NEW r \in Requests PROVE KReqFine(r, kReq'[r], kKeys', kUserLock')
  <2>1. CASE r = q
    BY <2>1
  <2>2. CASE r # q
    <3>1. kReq[r] \in KRequest /\ KReqFine(r, kReq[r], kKeys, kUserLock)
      BY DEF KInv, KTyped
    <3>2. KReqFine(r, kReq[r], kKeys', kUserLock')
      BY <1>2, <2>2, <3>1, OthersFit
    <3> QED BY <2>2, <3>2
  <2> QED BY <2>1, <2>2
<1>5. Cardinality(Mints(kKeys')) <= Quota
  BY <1>2, MintsFinite, ApiKeysAssumption DEF KInv
<1>6. RotatedOnce'
  BY DEF KInv, RotatedOnce, Kept
<1> QED BY <1>1, <1>3, <1>4, <1>5, <1>6 DEF KInv

\* One more mint, below the quota, is within it.
LEMMA MintsGrow ==
    ASSUME NEW old, NEW new
    PROVE  /\ Mints(new) \in SUBSET Mints(old) =>
                /\ Cardinality(Mints(new)) <= Cardinality(Mints(old))
                /\ Cardinality(Mints(old)) <= Quota => Cardinality(Mints(new)) <= Quota
           /\ \A n : Mints(new) \in SUBSET (Mints(old) \cup {n}) /\ Cardinality(Mints(old)) < Quota
                => Cardinality(Mints(new)) <= Quota
<1> DEFINE o == Mints(old)
           m == Mints(new)
<1>1. IsFiniteSet(o) /\ Cardinality(o) \in Nat /\ Cardinality(m) \in Nat
  BY MintsFinite
<1> HIDE DEF o, m
<1>2. m \in SUBSET o => Cardinality(m) <= Cardinality(o)
  BY <1>1, FS_Subset
<1>3. m \in SUBSET o /\ Cardinality(o) <= Quota => Cardinality(m) <= Quota
  BY <1>1, <1>2, ApiKeysAssumption
<1>4. ASSUME NEW n, m \in SUBSET (o \cup {n}), Cardinality(o) < Quota
      PROVE  Cardinality(m) <= Quota
  <2>1. /\ IsFiniteSet(o \cup {n})
        /\ Cardinality(o \cup {n}) = IF n \in o THEN Cardinality(o) ELSE Cardinality(o) + 1
    BY <1>1, FS_AddElement
  <2>2. Cardinality(m) <= Cardinality(o \cup {n})
    BY <1>4, <2>1, FS_Subset
  <2> QED BY <1>1, <1>4, <2>1, <2>2, ApiKeysAssumption
<1> QED BY <1>2, <1>3, <1>4 DEF o, m

\* A key has at most one successor of its owner's.
Once(keys) ==
    \A j, k \in KeyIds :
        (keys[j].by = "own rotation" /\ keys[k].by = "own rotation" /\ keys[j].from = keys[k].from) => j = k

\* That holds after the insert of a successor of a key that has none.
LEMMA OnceMore ==
    ASSUME NEW old, NEW new, NEW n \in KeyIds, Once(old),
           \A k \in KeyIds \ {n} : new[k].by = old[k].by /\ new[k].from = old[k].from,
           \A k \in KeyIds \ {n} :
              new[n].by = "own rotation" /\ new[k].by = "own rotation" => new[k].from # new[n].from
    PROVE  Once(new)
<1> SUFFICES ASSUME NEW j \in KeyIds, NEW k \in KeyIds, new[j].by = "own rotation",
                    new[k].by = "own rotation", new[j].from = new[k].from
             PROVE  j = k
  BY DEF Once
<1>1. CASE j # n /\ k # n
  <2>1. /\ new[j].by = old[j].by /\ new[j].from = old[j].from
        /\ new[k].by = old[k].by /\ new[k].from = old[k].from
    BY <1>1
  <2> QED BY <2>1 DEF Once
<1>2. CASE j = n \/ k = n
  BY <1>2
<1> QED BY <1>1, <1>2

\* A step of q that inserts a key and keeps the others.
LEMMA KeyInserted ==
    ASSUME KInv, NEW q \in Requests, kUserLock' \in Requests \cup {None},
           kUserLock' = kUserLock \/ kUserLock \in {None, q},
           NEW n \in KeyIds, kKeys[n].status = "none",
           NEW by, NEW from, kKeys' \in [KeyIds -> KKey],
           kKeys'[n].status = "active", kKeys'[n].by = by, kKeys'[n].from = from,
           \A k \in KeyIds \ {n} : Kept(kKeys[k], kKeys'[k], q),
           by = "mint" => kUserLock = q /\ Cardinality(Mints(kKeys)) < Quota,
           by = "own rotation" =>
             from \in KeyIds \ {n} /\ kKeys[from].status \in Live /\ kKeys'[from].status = "revoked",
           kReq' \in [Requests -> KRequest],
           \A r \in Requests : r # q => kReq'[r] = kReq[r],
           kReq'[q].step = "idle", kReq'[q].op = "own rotation" => kReq'[q].key \in KeyIds
    PROVE  KInv'
<1>0. /\ kKeys'[n].status = "active" /\ kKeys'[n].by = by /\ kKeys'[n].from = from
      /\ kKeys[n].by = None
  BY DEF KInv, KeyFine
<1>1. KTyped'
  BY DEF KTyped
<1>2. /\ by # "mint" => Mints(kKeys') \in SUBSET Mints(kKeys)
      /\ Mints(kKeys') \in SUBSET (Mints(kKeys) \cup {n})
  BY <1>0 DEF Mints, Kept
<1>3. by # "mint" => Cardinality(Mints(kKeys')) <= Cardinality(Mints(kKeys))
  BY <1>2, MintsGrow
<1>4. Cardinality(Mints(kKeys')) <= Quota
  <2>1. Cardinality(Mints(kKeys)) <= Quota
    BY DEF KInv
  <2> QED BY <1>2, <2>1, MintsGrow
<1>5. ASSUME NEW k \in KeyIds PROVE KeyFine(k, kKeys')
  <2>1. CASE k = n
    BY <1>0, <2>1 DEF KeyFine
  <2>2. CASE k # n
    <3>1. KeyFine(k, kKeys) /\ Kept(kKeys[k], kKeys'[k], q)
      BY <2>2 DEF KInv
    <3>2. kKeys'[k].status = "none" => kKeys'[k].by = None /\ kKeys'[k].lock = None
      BY <3>1 DEF KeyFine, Kept
    <3> DEFINE f == kKeys[k].from
    <3>3. kKeys'[k].from = f /\ kKeys'[k].by = kKeys[k].by
      BY <3>1 DEF Kept
    <3>4. kKeys[k].by = "own rotation" => f \in KeyIds /\ kKeys[f].status = "revoked"
      BY <3>1 DEF KeyFine
    <3> HIDE DEF f
    <3>5. kKeys[k].by = "own rotation" => f # n /\ Kept(kKeys[f], kKeys'[f], q)
      BY <3>4
    <3> QED BY <3>2, <3>3, <3>4, <3>5 DEF KeyFine, Kept, Live
  <2> QED BY <2>1, <2>2
<1>6. ASSUME NEW r \in Requests PROVE KReqFine(r, kReq'[r], kKeys', kUserLock')
  <2>1. CASE r = q
    BY <2>1 DEF KReqFine
  <2>2. CASE r # q
    <3>1. kReq[r] \in KRequest /\ KReqFine(r, kReq[r], kKeys, kUserLock)
      BY DEF KInv, KTyped
    <3>2. kReq[r].op = "mint" /\ kReq[r].step = "insert" => by # "mint"
      BY <2>2, <3>1 DEF KReqFine
    <3>3. \A k \in KeyIds : kKeys[k].status # "none" => Kept(kKeys[k], kKeys'[k], q)
      OBVIOUS
    <3>4. KReqFine(r, kReq[r], kKeys', kUserLock')
      BY <1>3, <2>2, <3>1, <3>2, <3>3, OthersFit
    <3> QED BY <2>2, <3>4
  <2> QED BY <2>1, <2>2
<1>7. RotatedOnce'
  <2>1. \A k \in KeyIds \ {n} : kKeys'[k].by = kKeys[k].by /\ kKeys'[k].from = kKeys[k].from
    BY DEF Kept
  <2>2. \A k \in KeyIds : kKeys[k].by = "own rotation" => kKeys[kKeys[k].from].status = "revoked"
    BY DEF KInv, KeyFine
  <2>3. \A k \in KeyIds \ {n} : by = "own rotation" /\ kKeys'[k].by = "own rotation" => kKeys'[k].from # from
    BY <2>1, <2>2 DEF Live
  <2>4. Once(kKeys)
    BY DEF KInv, RotatedOnce, Once
  <2> DEFINE new == kKeys'
  <2>a. \A k \in KeyIds \ {n} :
          new[n].by = "own rotation" /\ new[k].by = "own rotation" => new[k].from # new[n].from
    BY <2>3
  <2>b. \A k \in KeyIds \ {n} : new[k].by = kKeys[k].by /\ new[k].from = kKeys[k].from
    BY <2>1
  <2>5. Once(new)
    <3> HIDE DEF new
    <3> QED BY <2>4, <2>a, <2>b, OnceMore
  <2> QED BY <2>5 DEF RotatedOnce, Once
<1> QED BY <1>1, <1>4, <1>5, <1>6, <1>7 DEF KInv

\* The idle request fits whatever there is.
LEMMA KIdleFits ==
    /\ KIdle \in KRequest /\ KIdle.step = "idle" /\ KIdle.op # "own rotation"
    /\ \A q, keys, lock : KReqFine(q, KIdle, keys, lock)
<1>1. KIdle \in KRequest /\ KIdle.step = "idle" /\ KIdle.op = None
  BY ApiKeysAssumption DEF KIdle, KRequest, KOps, KSteps
<1>2. KIdle.op # "own rotation"
  BY <1>1, ApiKeysAssumption DEF KeyOrigins
<1> QED BY <1>1, <1>2 DEF KReqFine

\* What a handler leaves when it is done.
LEMMA DoneParts ==
    ASSUME KTyped, NEW q \in Requests, KDone(q)
    PROVE  /\ kReq' \in [Requests -> KRequest]
           /\ kReq'[q] = KIdle
           /\ \A r \in Requests : r # q => kReq'[r] = kReq[r]
           /\ kUserLock' \in Requests \cup {None}
           /\ kUserLock' = kUserLock \/ kUserLock \in {None, q}
BY KIdleFits DEF KTyped, KDone

\* A handler goes on to another step, the keys as they are.
LEMMA GoesOn ==
    ASSUME KInv, NEW q \in Requests, NEW x \in KRequest, kReq' = [kReq EXCEPT ![q] = x],
           kUserLock' = kUserLock \/ (kUserLock \in {None, q} /\ kUserLock' = q), kKeys' = kKeys,
           KReqFine(q, x, kKeys, kUserLock')
    PROVE  KInv'
<1>1. KTyped
  BY DEF KInv
<1>2. /\ kReq' \in [Requests -> KRequest] /\ kReq'[q] = x
      /\ \A r \in Requests : r # q => kReq'[r] = kReq[r]
      /\ kUserLock' \in Requests \cup {None} /\ kKeys' \in [KeyIds -> KKey]
  BY <1>1 DEF KTyped
<1>3. \A k \in KeyIds : Kept(kKeys[k], kKeys'[k], q)
  BY DEF Kept
<1> QED BY <1>2, <1>3, KeysKept

\* A handler is done, having kept the keys.
LEMMA DoneKept ==
    ASSUME KInv, NEW q \in Requests, KDone(q),
           kKeys' \in [KeyIds -> KKey], \A k \in KeyIds : Kept(kKeys[k], kKeys'[k], q)
    PROVE  KInv'
<1>1. KTyped
  BY DEF KInv
<1>2. KReqFine(q, kReq'[q], kKeys', kUserLock')
  BY <1>1, DoneParts, KIdleFits
<1> QED BY <1>1, <1>2, DoneParts, KeysKept

\* A handler is done, the keys as they are.
LEMMA DoneSame ==
    ASSUME KInv, NEW q \in Requests, KDone(q), kKeys' = kKeys
    PROVE  KInv'
<1>1. kKeys' \in [KeyIds -> KKey] /\ \A k \in KeyIds : Kept(kKeys[k], kKeys'[k], q)
  BY DEF KInv, KTyped, Kept
<1> QED BY <1>1, DoneKept

\* The handlers start.
LEMMA KBeginInv ==
    ASSUME KInv, NEW q \in Requests,
           \/ CreateMyAPIKey(q) \/ CreateAPIKey(q) \/ SoftDeleteUser(q) \/ ResyncUserRole(q)
           \/ \E k \in KeyIds : RotateMyAPIKey(q, k) \/ RotateAPIKeyRequest(q, k)
    PROVE  KInv'
<1>1. PICK op \in KOps, key \in 0..MaxKeys, step \in KSteps :
        /\ Begin(q, op, key, step)
        /\ step # "count" /\ (step = "lock user" => op = "mint") /\ (step = "insert" => op = "admin")
        /\ op = "own rotation" => key \in KeyIds
  <2>1. KeyIds \subseteq 0..MaxKeys /\ 0 \in 0..MaxKeys
    BY ApiKeysAssumption DEF KeyIds
  <2>2. CASE CreateMyAPIKey(q)
    BY <2>1, <2>2 DEF CreateMyAPIKey, KOps, KSteps
  <2>7. CASE CreateAPIKey(q)
    BY <2>1, <2>7 DEF CreateAPIKey, KOps, KSteps
  <2>3. CASE SoftDeleteUser(q)
    BY <2>1, <2>3 DEF SoftDeleteUser, KOps, KSteps
  <2>4. CASE ResyncUserRole(q)
    BY <2>1, <2>4 DEF ResyncUserRole, KOps, KSteps
  <2>5. CASE \E k \in KeyIds : RotateMyAPIKey(q, k)
    BY <2>1, <2>5 DEF RotateMyAPIKey, KOps, KSteps
  <2>6. CASE \E k \in KeyIds : RotateAPIKeyRequest(q, k)
    BY <2>1, <2>6 DEF RotateAPIKeyRequest, KOps, KSteps
  <2> QED BY <2>2, <2>3, <2>4, <2>5, <2>6, <2>7
<1> DEFINE x == [KIdle EXCEPT !.op = op, !.key = key, !.step = step]
<1>2. x \in KRequest /\ x.op = op /\ x.key = key /\ x.step = step
  <2>1. op \in KOps /\ key \in 0..MaxKeys /\ step \in KSteps
    BY <1>1
  <2>2. KIdle \in KRequest
    BY KIdleFits
  <2> HIDE DEF KOps, KSteps, KIdle
  <2> QED BY <2>1, <2>2 DEF KRequest
<1>3. kReq' = [kReq EXCEPT ![q] = x] /\ UNCHANGED <<kUserLock, kKeys>>
  BY <1>1 DEF Begin
<1> HIDE DEF x
<1>4. KReqFine(q, x, kKeys, kUserLock')
  BY <1>1, <1>2 DEF KReqFine
<1> QED BY <1>2, <1>3, <1>4, GoesOn

\* Steps that leave the keys as they are.
LEMMA KReadInv ==
    ASSUME KInv, NEW q \in Requests,
           \/ LockUser(q) \/ CountKeys(q) \/ AdminReadOld(q)
           \/ DeleteUser(q) \/ SnapshotKeys(q) \/ ListAPIKeys(q)
    PROVE  KInv'
<1>0. kReq[q] \in KRequest /\ KReqFine(q, kReq[q], kKeys, kUserLock) /\ kReq \in [Requests -> KRequest]
  BY DEF KInv, KTyped
<1>1. ASSUME NEW st \in KSteps PROVE
        LET x == [kReq[q] EXCEPT !.step = st]
        IN  x \in KRequest /\ x.step = st /\ x.op = kReq[q].op /\ x.key = kReq[q].key
  BY <1>0 DEF KRequest
<1>2. CASE LockUser(q) /\ kAccount = "active"
  <2> DEFINE x == [kReq[q] EXCEPT !.step = "count"]
  <2>1. x \in KRequest /\ x.step = "count" /\ x.op = kReq[q].op /\ x.key = kReq[q].key
    BY <1>1 DEF KSteps
  <2>2. /\ kReq' = [kReq EXCEPT ![q] = x] /\ kUserLock \in {None, q} /\ kUserLock' = q
        /\ kKeys' = kKeys /\ kReq[q].step = "lock user"
    BY <1>0, <1>2 DEF LockUser, FreeUser
  <2> HIDE DEF x
  <2>3. KReqFine(q, x, kKeys, kUserLock')
    BY <1>0, <2>1, <2>2 DEF KReqFine
  <2> QED BY <2>1, <2>2, <2>3, GoesOn
<1>3. CASE LockUser(q) /\ kAccount # "active"
  BY <1>3, DoneSame DEF LockUser
<1>4. CASE CountKeys(q) /\ CountActiveAPIKeys >= Quota
  BY <1>4, DoneSame DEF CountKeys
<1>5. CASE CountKeys(q) /\ ~(CountActiveAPIKeys >= Quota)
  <2> DEFINE x == [kReq[q] EXCEPT !.step = "insert"]
  <2>1. x \in KRequest /\ x.step = "insert" /\ x.op = kReq[q].op /\ x.key = kReq[q].key
    BY <1>1 DEF KSteps
  <2>2. /\ kReq' = [kReq EXCEPT ![q] = x] /\ kUserLock' = kUserLock
        /\ kKeys' = kKeys /\ kReq[q].step = "count"
    BY <1>0, <1>5 DEF CountKeys
  <2>3. kReq[q].op = "mint" /\ kUserLock = q
    BY <1>0, <2>2 DEF KReqFine
  <2>4. Cardinality(Mints(kKeys)) < Quota
    <3> DEFINE A == {k \in KeyIds : kKeys[k].status = "active"}
    <3>1. IsFiniteSet(A) /\ Cardinality(A) \in Nat
      <4>0. A \in SUBSET KeyIds
        OBVIOUS
      <4>1. IsFiniteSet(KeyIds)
        <5>1. 1 \in Int /\ MaxKeys \in Int
          BY ApiKeysAssumption
        <5> QED BY <5>1, FS_Interval DEF KeyIds
      <4>2. IsFiniteSet(A)
        BY <4>0, <4>1, FS_Subset
      <4> QED BY <4>2, FS_CardinalityType
    <3>2. Mints(kKeys) \in SUBSET A
      BY DEF Mints
    <3>3. ~(Cardinality(A) >= Quota)
      BY <1>5 DEF CountActiveAPIKeys
    <3> HIDE DEF A
    <3>4. Cardinality(Mints(kKeys)) <= Cardinality(A)
      BY <3>1, <3>2, FS_Subset
    <3> QED BY <3>1, <3>3, <3>4, MintsFinite, ApiKeysAssumption
  <2> HIDE DEF x
  <2>5. KReqFine(q, x, kKeys, kUserLock')
    BY <2>1, <2>2, <2>3, <2>4 DEF KReqFine
  <2> QED BY <2>1, <2>2, <2>5, GoesOn
<1>6. CASE AdminReadOld(q) /\ ~Unrevoked(kReq[q].key)
  BY <1>6, DoneSame DEF AdminReadOld
<1>7. CASE AdminReadOld(q) /\ Unrevoked(kReq[q].key)
  <2> DEFINE x == [kReq[q] EXCEPT !.step = "revoke old"]
  <2>1. x \in KRequest /\ x.step = "revoke old" /\ x.op = kReq[q].op /\ x.key = kReq[q].key
    BY <1>1 DEF KSteps
  <2>2. kReq' = [kReq EXCEPT ![q] = x] /\ kUserLock' = kUserLock /\ kKeys' = kKeys
    BY <1>0, <1>7 DEF AdminReadOld
  <2> HIDE DEF x
  <2>3. KReqFine(q, x, kKeys, kUserLock')
    BY <1>0, <2>1, <2>2 DEF KReqFine
  <2> QED BY <2>1, <2>2, <2>3, GoesOn
<1>8. CASE DeleteUser(q)
  <2> DEFINE x == [kReq[q] EXCEPT !.step = "snapshot keys"]
  <2>1. x \in KRequest /\ x.step = "snapshot keys" /\ x.op = kReq[q].op /\ x.key = kReq[q].key
    BY <1>1 DEF KSteps
  <2>2. /\ kReq' = [kReq EXCEPT ![q] = x] /\ kUserLock \in {None, q} /\ kUserLock' \in {kUserLock, q}
        /\ kKeys' = kKeys
    BY <1>0, <1>8 DEF DeleteUser, FreeUser
  <2> HIDE DEF x
  <2>3. KReqFine(q, x, kKeys, kUserLock')
    BY <1>0, <2>1, <2>2 DEF KReqFine
  <2> QED BY <2>1, <2>2, <2>3, GoesOn
<1>9. ASSUME NEW st \in {"revoke each", "revoke all"}, NEW seen \in SUBSET KeyIds,
             kReq' = [kReq EXCEPT ![q].seen = seen, ![q].step = st], UNCHANGED <<kUserLock, kKeys>>
      PROVE  KInv'
  <2> DEFINE x == [kReq[q] EXCEPT !.seen = seen, !.step = st]
  <2>1. st \in KSteps
    BY DEF KSteps
  <2>2. kReq' = [kReq EXCEPT ![q] = x] /\ kUserLock' = kUserLock /\ kKeys' = kKeys
    BY <1>0, <1>9
  <2>3. x \in KRequest /\ x.step = st /\ x.op = kReq[q].op /\ x.key = kReq[q].key
    BY <1>0, <2>1 DEF KRequest
  <2> HIDE DEF x
  <2>4. KReqFine(q, x, kKeys, kUserLock')
    BY <1>0, <2>2, <2>3 DEF KReqFine
  <2> QED BY <2>2, <2>3, <2>4, GoesOn
<1>10. CASE SnapshotKeys(q)
  <2> DEFINE seen == AllUnrevoked
  <2>1. seen \in SUBSET KeyIds
    BY DEF AllUnrevoked
  <2>2. kReq' = [kReq EXCEPT ![q].seen = seen, ![q].step = "revoke all"] /\ UNCHANGED <<kUserLock, kKeys>>
    BY <1>10 DEF SnapshotKeys
  <2> HIDE DEF seen
  <2> QED BY <1>9, <2>1, <2>2
<1>11. CASE ListAPIKeys(q)
  <2>1. PICK listed \in SUBSET AllUnrevoked :
          kReq' = [kReq EXCEPT ![q].seen = {k \in listed : kKeys[k].status = "active"}, ![q].step = "revoke each"]
    BY <1>11 DEF ListAPIKeys
  <2> DEFINE seen == {k \in listed : kKeys[k].status = "active"}
  <2>2. seen \in SUBSET KeyIds
    BY <2>1 DEF AllUnrevoked
  <2>3. kReq' = [kReq EXCEPT ![q].seen = seen, ![q].step = "revoke each"] /\ UNCHANGED <<kUserLock, kKeys>>
    BY <1>11, <2>1 DEF ListAPIKeys
  <2> HIDE DEF seen
  <2> QED BY <1>9, <2>2, <2>3
<1> QED BY <1>2, <1>3, <1>4, <1>5, <1>6, <1>7, <1>8, <1>10, <1>11

\* The lock of a key's row, and its settling, keep the keys.
LEMMA RowSettled ==
    ASSUME KInv, NEW q \in Requests, NEW c \in BOOLEAN
    PROVE  /\ Settled(kKeys, q, c) \in [KeyIds -> KKey]
           /\ \A k \in KeyIds : /\ Kept(kKeys[k], Settled(kKeys, q, c)[k], q)
                                /\ c /\ kKeys[k].lock = q => Settled(kKeys, q, c)[k].status = "revoked"
<1> DEFINE Freed(k) == [kKeys[k] EXCEPT !.lock = None, !.status = IF c THEN "revoked" ELSE @]
<1>1. ASSUME NEW k \in KeyIds, kKeys[k].lock = q
      PROVE  /\ Freed(k) \in KKey /\ Kept(kKeys[k], Freed(k), q)
             /\ c => Freed(k).status = "revoked"
  <2> DEFINE st == IF c THEN "revoked" ELSE kKeys[k].status
             y == [kKeys[k] EXCEPT !.lock = None, !.status = st]
  <2>1. kKeys[k] \in KKey /\ KeyFine(k, kKeys)
    BY DEF KInv, KTyped
  <2>2. st \in KeyStatus /\ kKeys[k].status # "none" /\ kKeys[k].status \in Live \cup {"revoked"}
    BY <1>1, <2>1, NoneAssumption DEF KKey, KeyStatus, KeyFine, Live
  <2>3. Freed(k) = y
    BY <2>1 DEF KKey
  <2>4. st # "none" /\ (c => st = "revoked") /\ (~c => st = kKeys[k].status)
    BY <2>2
  <2> HIDE DEF st
  <2>5. /\ y \in KKey /\ y.status = st /\ y.lock = None
        /\ y.by = kKeys[k].by /\ y.from = kKeys[k].from
    BY <2>1, <2>2 DEF KKey
  <2> HIDE DEF y
  <2>6. Kept(kKeys[k], y, q)
    BY <1>1, <2>2, <2>4, <2>5 DEF Kept
  <2>7. c => y.status = "revoked"
    BY <2>4, <2>5
  <2> QED BY <2>3, <2>5, <2>6, <2>7
<1>2. \A k \in KeyIds : Settled(kKeys, q, c)[k] = IF kKeys[k].lock # q THEN kKeys[k] ELSE Freed(k)
  BY DEF Settled
<1>3. \A k \in KeyIds : kKeys[k] \in KKey /\ Kept(kKeys[k], kKeys[k], q)
  BY DEF KInv, KTyped, Kept
<1>4. \E f : Settled(kKeys, q, c) = [k \in KeyIds |-> f[k]]
  <2> DEFINE f == [k \in KeyIds |-> IF kKeys[k].lock # q THEN kKeys[k] ELSE Freed(k)]
  <2>1. Settled(kKeys, q, c) = [k \in KeyIds |-> f[k]]
    BY DEF Settled
  <2> QED BY <2>1
<1> HIDE DEF Freed
<1>5. \A k \in KeyIds : Settled(kKeys, q, c)[k] \in KKey
  BY <1>1, <1>2, <1>3
<1> QED BY <1>1, <1>2, <1>3, <1>4, <1>5

\* So do revocations of rows that are free.
LEMMA RevokedKept ==
    ASSUME KInv, NEW q, NEW ids, \A k \in ids \cap KeyIds : Unrevoked(k) => FreeRow(q, k)
    PROVE  RevokedIn(ids) \in [KeyIds -> KKey]
           /\ \A k \in KeyIds : Kept(kKeys[k], RevokedIn(ids)[k], q)
<1>1. ASSUME NEW k \in KeyIds
      PROVE  RevokedIn(ids)[k] \in KKey /\ Kept(kKeys[k], RevokedIn(ids)[k], q)
  <2> DEFINE y == [kKeys[k] EXCEPT !.status = "revoked"]
  <2>1. kKeys[k] \in KKey
    BY DEF KInv, KTyped
  <2>2. /\ y \in KKey /\ y.status = "revoked" /\ y.lock = kKeys[k].lock
        /\ y.by = kKeys[k].by /\ y.from = kKeys[k].from
    BY <2>1 DEF KKey, KeyStatus
  <2>3. RevokedIn(ids)[k] = IF k \in ids /\ Unrevoked(k) THEN y ELSE kKeys[k]
    BY DEF RevokedIn
  <2> HIDE DEF y
  <2>4. CASE k \in ids /\ Unrevoked(k)
    <3>1. FreeRow(q, k)
      BY <2>4
    <3>2. Kept(kKeys[k], y, q)
      BY <2>2, <2>4, <3>1 DEF Kept, FreeRow, Unrevoked, Live
    <3> QED BY <2>2, <2>3, <2>4, <3>2
  <2>5. CASE ~(k \in ids /\ Unrevoked(k))
    BY <2>1, <2>3, <2>5 DEF Kept
  <2> QED BY <2>4, <2>5
<1> QED BY <1>1 DEF RevokedIn

\* A rotation takes the row of the old key.
LEMMA KRevokeOldInv ==
    ASSUME KInv, NEW q \in Requests, OwnRevoke(q) \/ AdminRevoke(q)
    PROVE  KInv'
<1>0. /\ kReq[q] \in KRequest /\ KReqFine(q, kReq[q], kKeys, kUserLock) /\ kReq \in [Requests -> KRequest]
      /\ kKeys \in [KeyIds -> KKey] /\ kUserLock \in Requests \cup {None}
  BY DEF KInv, KTyped
<1> DEFINE old == kReq[q].key
           x == [kReq[q] EXCEPT !.step = "insert"]
           y == [kKeys[old] EXCEPT !.lock = q]
<1>1. x \in KRequest /\ x.step = "insert" /\ x.op = kReq[q].op /\ x.key = old
  BY <1>0 DEF KRequest, KSteps
<1>2. CASE OwnRevoke(q) /\ ~Unrevoked(old)
  BY <1>2, DoneSame DEF OwnRevoke
<1>3. CASE AdminRevoke(q) /\ ~Unrevoked(old)
  <2>1. /\ kReq' = [kReq EXCEPT ![q] = x] /\ kKeys' = kKeys /\ kUserLock' = kUserLock
        /\ kReq[q].op = "admin rotation"
    BY <1>0, <1>3 DEF AdminRevoke
  <2> HIDE DEF x
  <2>2. KReqFine(q, x, kKeys, kUserLock')
    BY <1>1, <2>1 DEF KReqFine
  <2> QED BY <1>1, <2>1, <2>2, GoesOn
<1>4. CASE Unrevoked(old)
  <2>1. /\ kReq' = [kReq EXCEPT ![q] = x] /\ kKeys' = [kKeys EXCEPT ![old] = y] /\ kUserLock' = kUserLock
        /\ kReq[q].op \in {"own rotation", "admin rotation"} /\ kKeys[old].lock \in {None, q}
        /\ kKeys[old].status \in Live
    BY <1>0, <1>4 DEF AdminRevoke, OwnRevoke, FreeRow, Unrevoked, Live
  <2>2. old \in KeyIds => /\ y \in KKey /\ y.lock = q /\ y.status = kKeys[old].status
                          /\ y.by = kKeys[old].by /\ y.from = kKeys[old].from
    BY <1>0 DEF KKey
  <2> HIDE DEF x, y
  <2>3. old \in KeyIds => Kept(kKeys[old], y, q)
    BY <2>1, <2>2 DEF Kept, Live
  <2>4. \A k \in KeyIds : kKeys'[k] = IF k = old THEN y ELSE kKeys[k]
    BY <1>0, <2>1
  <2>5. kKeys' \in [KeyIds -> KKey]
    BY <1>0, <2>1, <2>2
  <2>6. \A k \in KeyIds : Kept(kKeys[k], kKeys'[k], q)
    BY <2>3, <2>4 DEF Kept
  <2>7. x.op = "own rotation" => old \in KeyIds
    BY <1>0, <1>1 DEF KReqFine
  <2>8. KReqFine(q, x, kKeys', kUserLock')
    BY <1>1, <2>1, <2>2, <2>4, <2>7 DEF KReqFine
  <2>9. /\ kReq' \in [Requests -> KRequest] /\ kReq'[q] = x
        /\ \A r \in Requests : r # q => kReq'[r] = kReq[r]
    BY <1>0, <1>1, <2>1
  <2> QED BY <1>0, <2>1, <2>5, <2>6, <2>8, <2>9, KeysKept
<1> QED BY <1>2, <1>3, <1>4

\* A new key.
LEMMA NewKey ==
    ASSUME KInv, NEW by \in KeyOrigins, NEW from \in 0..MaxKeys, Room
    PROVE  /\ Inserted(by, from) \in [KeyIds -> KKey]
           /\ Inserted(by, from)[Fresh] = [status |-> "active", by |-> by, from |-> from, lock |-> None]
           /\ \A k \in KeyIds \ {Fresh} : Inserted(by, from)[k] = kKeys[k]
<1> DEFINE y == [status |-> "active", by |-> by, from |-> from, lock |-> None]
<1>1. y \in KKey
  BY DEF KKey, KeyStatus
<1>2. kKeys \in [KeyIds -> KKey] /\ Fresh \in KeyIds
  BY FreshIsFree DEF KInv, KTyped
<1>3. Inserted(by, from) = [kKeys EXCEPT ![Fresh] = y]
  BY DEF Inserted
<1> HIDE DEF y
<1>4. /\ Inserted(by, from) \in [KeyIds -> KKey] /\ Inserted(by, from)[Fresh] = y
      /\ \A k \in KeyIds \ {Fresh} : Inserted(by, from)[k] = kKeys[k]
  BY <1>1, <1>2, <1>3
<1> QED BY <1>4 DEF y

\* A key that no rotation made comes from no key.
LEMMA NoSource == 0 \in 0..MaxKeys
BY ApiKeysAssumption

\* An insert that is all a step does to the keys.
LEMMA InsertedFine ==
    ASSUME KInv, NEW q \in Requests, Room, NEW by \in {"mint", "admin"},
           kKeys' = Inserted(by, 0), kUserLock' \in Requests \cup {None},
           kUserLock' = kUserLock \/ kUserLock \in {None, q},
           by = "mint" => kUserLock = q /\ Cardinality(Mints(kKeys)) < Quota,
           kReq' \in [Requests -> KRequest],
           \A r \in Requests : r # q => kReq'[r] = kReq[r],
           kReq'[q].step = "idle", kReq'[q].op = "own rotation" => kReq'[q].key \in KeyIds
    PROVE  KInv'
<1> DEFINE n == Fresh
           y == [status |-> "active", by |-> by, from |-> 0, lock |-> None]
<1>1. by \in KeyOrigins /\ 0 \in 0..MaxKeys /\ by # "own rotation"
  <2>1. 0 \in 0..MaxKeys
    BY NoSource
  <2>2. by \in KeyOrigins /\ by # "own rotation"
    BY DEF KeyOrigins
  <2> QED BY <2>1, <2>2
<1>2. n \in KeyIds /\ kKeys[n].status = "none"
  BY FreshIsFree
<1>3. kKeys' \in [KeyIds -> KKey] /\ kKeys'[n] = y /\ \A k \in KeyIds \ {n} : kKeys'[k] = kKeys[k]
  BY <1>1, NewKey
<1>4. y.status = "active" /\ y.by = by /\ y.from = 0
  OBVIOUS
<1> HIDE DEF y, n
<1>5. kKeys'[n].status = "active" /\ kKeys'[n].by = by /\ kKeys'[n].from = 0
  BY <1>3, <1>4
<1>6. \A k \in KeyIds \ {n} : Kept(kKeys[k], kKeys'[k], q)
  BY <1>3 DEF Kept
<1> QED BY <1>1, <1>2, <1>3, <1>5, <1>6, KeyInserted

\* Inserts of the owner's mints and of the administrator's keys.
LEMMA KCreateInv ==
    ASSUME KInv, NEW q \in Requests, CreateAPIKeyForUser(q) \/ InsertAPIKey(q)
    PROVE  KInv'
<1>0. KTyped /\ KReqFine(q, kReq[q], kKeys, kUserLock)
  BY DEF KInv
<1>1. CASE CreateAPIKeyForUser(q) /\ kAccount # "active"
  BY <1>1, DoneSame DEF CreateAPIKeyForUser
<1>2. CASE CreateAPIKeyForUser(q) /\ kAccount = "active"
  <2>1. kUserLock = q /\ Cardinality(Mints(kKeys)) < Quota
    BY <1>0, <1>2 DEF KReqFine, CreateAPIKeyForUser
  <2>2. Room /\ kKeys' = Inserted("mint", 0) /\ KDone(q)
    BY <1>2 DEF CreateAPIKeyForUser
  <2>3. /\ kReq' \in [Requests -> KRequest]
        /\ kReq'[q].step = "idle" /\ kReq'[q].op # "own rotation"
        /\ \A r \in Requests : r # q => kReq'[r] = kReq[r]
        /\ kUserLock' \in Requests \cup {None}
    BY <1>0, <2>2, DoneParts, KIdleFits
  <2> QED BY <2>1, <2>2, <2>3, InsertedFine
<1>3. CASE InsertAPIKey(q) /\ kAccount = "purged"
  BY <1>3, DoneSame DEF InsertAPIKey
<1>4. CASE InsertAPIKey(q) /\ kAccount # "purged"
  <2>1. Room /\ kKeys' = Inserted("admin", 0) /\ KDone(q)
    BY <1>4 DEF InsertAPIKey
  <2>2. /\ kReq' \in [Requests -> KRequest]
        /\ kReq'[q].step = "idle" /\ kReq'[q].op # "own rotation"
        /\ \A r \in Requests : r # q => kReq'[r] = kReq[r]
        /\ kUserLock' \in Requests \cup {None}
        /\ kUserLock' = kUserLock \/ kUserLock \in {None, q}
    BY <1>0, <2>1, DoneParts, KIdleFits
  <2> QED BY <2>1, <2>2, InsertedFine
<1> QED BY <1>1, <1>2, <1>3, <1>4

\* A rotation ends: the successor is inserted and the old key revoked.
LEMMA KRotatedInv ==
    ASSUME KInv, NEW q \in Requests, RotateInsert(q) \/ Fail(q)
    PROVE  KInv'
<1>0. KTyped /\ KReqFine(q, kReq[q], kKeys, kUserLock) /\ kReq[q] \in KRequest /\ KDone(q)
  BY DEF KInv, KTyped, RotateInsert, Fail
<1>1. CASE kKeys' = Settled(kKeys, q, FALSE)
  <2> DEFINE c == FALSE
  <2>1. c \in BOOLEAN
    OBVIOUS
  <2> HIDE DEF c
  <2>2. /\ Settled(kKeys, q, c) \in [KeyIds -> KKey]
        /\ \A k \in KeyIds : Kept(kKeys[k], Settled(kKeys, q, c)[k], q)
    BY <2>1, RowSettled
  <2>3. kKeys' = Settled(kKeys, q, c)
    BY <1>1 DEF c
  <2> QED BY <1>0, <2>2, <2>3, DoneKept
<1>2. CASE RotateInsert(q) /\ kAccount # "purged"
  <2> DEFINE by == kReq[q].op
             from == kReq[q].key
             n == Fresh
             y == [status |-> "active", by |-> by, from |-> from, lock |-> None]
             c == TRUE
  <2>1. /\ by \in {"own rotation", "admin rotation"} /\ by \in KeyOrigins /\ by # "mint"
        /\ from \in 0..MaxKeys /\ Room /\ kReq[q].step = "insert"
    BY <1>0, <1>2 DEF RotateInsert, KeyOrigins, KRequest
  <2>2. kKeys' = Settled(Inserted(by, from), q, c)
    BY <1>2 DEF RotateInsert
  <2>3. n \in KeyIds /\ kKeys[n].status = "none"
    BY <2>1, FreshIsFree
  <2>4. /\ Inserted(by, from) \in [KeyIds -> KKey]
        /\ Inserted(by, from)[n] = y
        /\ \A k \in KeyIds \ {n} : Inserted(by, from)[k] = kKeys[k]
    <3> HIDE DEF by, from
    <3> QED BY <2>1, NewKey
  <2>5. c \in BOOLEAN
    OBVIOUS
  <2>6. y.status = "active" /\ y.by = by /\ y.from = from /\ y.lock = None
    OBVIOUS
  <2> HIDE DEF by, from, n, y
  <2>7. y.lock # q
    BY <2>6, NoneAssumption
  <2>8. kKeys'[n] = y /\ \A k \in KeyIds \ {n} : kKeys'[k] = Settled(kKeys, q, c)[k]
    BY <2>2, <2>3, <2>4, <2>7 DEF Settled
  <2> HIDE DEF c
  <2>9. /\ Settled(kKeys, q, c) \in [KeyIds -> KKey]
        /\ \A k \in KeyIds : /\ Kept(kKeys[k], Settled(kKeys, q, c)[k], q)
                             /\ c /\ kKeys[k].lock = q => Settled(kKeys, q, c)[k].status = "revoked"
    BY <2>5, RowSettled
  <2>10. \A k \in KeyIds : kKeys'[k] \in KKey
    BY <2>3, <2>4, <2>8, <2>9
  <2>11. kKeys' \in [KeyIds -> KKey]
    BY <2>2, <2>10 DEF Settled
  <2>12. \A k \in KeyIds \ {n} : Kept(kKeys[k], kKeys'[k], q)
    BY <2>8, <2>9
  <2>13. kKeys'[n].status = "active" /\ kKeys'[n].by = by /\ kKeys'[n].from = from
    BY <2>6, <2>8
  <2>14. by = "own rotation" =>
           from \in KeyIds \ {n} /\ kKeys[from].status \in Live /\ kKeys'[from].status = "revoked"
    <3>1. by = "own rotation" => from \in KeyIds /\ kKeys[from].lock = q /\ kKeys[from].status \in Live
      BY <1>0, <2>1 DEF KReqFine, by, from
    <3>2. by = "own rotation" => from # n
      BY <2>3, <3>1 DEF Live
    <3>3. c
      BY DEF c
    <3> QED BY <2>8, <2>9, <3>1, <3>2, <3>3
  <2>15. /\ kReq' \in [Requests -> KRequest]
         /\ kReq'[q].step = "idle" /\ kReq'[q].op # "own rotation"
         /\ \A r \in Requests : r # q => kReq'[r] = kReq[r]
         /\ kUserLock' \in Requests \cup {None}
         /\ kUserLock' = kUserLock \/ kUserLock \in {None, q}
    BY <1>0, DoneParts, KIdleFits
  <2> QED BY <2>1, <2>3, <2>11, <2>12, <2>13, <2>14, <2>15, KeyInserted
<1> QED BY <1>1, <1>2 DEF RotateInsert, Fail

\* Revocations, in one statement or in several, and the end of an account.
LEMMA KRevokedInv ==
    ASSUME KInv, NEW q \in Requests,
           \/ PurgeUser(q) \/ DeleteCommit(q) \/ ResyncRevoke(q)
           \/ \E k \in KeyIds : RevokeAPIKey(q, k)
    PROVE  KInv'
<1>0. /\ KTyped /\ KReqFine(q, kReq[q], kKeys, kUserLock) /\ kReq[q] \in KRequest
      /\ kReq \in [Requests -> KRequest] /\ kUserLock \in Requests \cup {None}
  BY DEF KInv, KTyped
<1>1. ASSUME NEW ids, kKeys' = RevokedIn(ids), \A k \in ids : FreeRow(q, k)
      PROVE  kKeys' \in [KeyIds -> KKey] /\ \A k \in KeyIds : Kept(kKeys[k], kKeys'[k], q)
  BY <1>1, RevokedKept
<1>2. ASSUME NEW ids, kKeys' = RevokedIn(ids), \A k \in ids : FreeRow(q, k),
             kReq[q].step = "idle", UNCHANGED <<kReq, kUserLock>>
      PROVE  KInv'
  <2>1. KReqFine(q, kReq'[q], kKeys', kUserLock')
    BY <1>0, <1>2 DEF KReqFine
  <2> QED BY <1>0, <1>1, <1>2, <2>1, KeysKept
<1>3. CASE PurgeUser(q)
  BY <1>2, <1>3 DEF PurgeUser
<1>4. ASSUME NEW k \in KeyIds, RevokeAPIKey(q, k) PROVE KInv'
  <2>1. kKeys' = RevokedIn({k}) /\ \A j \in {k} : FreeRow(q, j)
    BY <1>4 DEF RevokeAPIKey
  <2> QED BY <1>2, <1>4, <2>1 DEF RevokeAPIKey
<1>5. CASE DeleteCommit(q)
  <2>1. kKeys' \in [KeyIds -> KKey] /\ \A k \in KeyIds : Kept(kKeys[k], kKeys'[k], q)
    BY <1>1, <1>5 DEF DeleteCommit
  <2> QED BY <1>5, <2>1, DoneKept DEF DeleteCommit
<1>6. CASE ResyncRevoke(q) /\ KDone(q) /\ UNCHANGED kKeys
  BY <1>6, DoneSame
<1>7. ASSUME NEW k \in kReq[q].seen, kReq[q].step = "revoke each", FreeRow(q, k), kKeys' = RevokedIn({k}),
             kReq' = [kReq EXCEPT ![q].seen = @ \ {k}], UNCHANGED kUserLock
      PROVE  KInv'
  <2> DEFINE left == kReq[q].seen \ {k}
             x == [kReq[q] EXCEPT !.seen = left]
  <2>1. left \in SUBSET KeyIds
    BY <1>0 DEF KRequest
  <2>2. kReq' = [kReq EXCEPT ![q] = x]
    BY <1>0, <1>7
  <2> HIDE DEF left
  <2>3. x \in KRequest /\ x.step = "revoke each" /\ x.op = kReq[q].op /\ x.key = kReq[q].key
    BY <1>0, <1>7, <2>1 DEF KRequest
  <2> HIDE DEF x
  <2>4. /\ kReq' \in [Requests -> KRequest] /\ kReq'[q] = x
        /\ \A r \in Requests : r # q => kReq'[r] = kReq[r]
    BY <1>0, <2>2, <2>3
  <2>5. KReqFine(q, x, kKeys', kUserLock')
    BY <1>0, <2>3 DEF KReqFine
  <2>6. kKeys' \in [KeyIds -> KKey] /\ \A j \in KeyIds : Kept(kKeys[j], kKeys'[j], q)
    <3> DEFINE ids == {k}
    <3>1. kKeys' = RevokedIn(ids) /\ \A j \in ids : FreeRow(q, j)
      BY <1>7
    <3> HIDE DEF ids
    <3> QED BY <1>1, <3>1
  <2> QED BY <1>0, <1>7, <2>4, <2>5, <2>6, KeysKept
<1> QED BY <1>3, <1>4, <1>5, <1>6, <1>7 DEF ResyncRevoke

\* A key expires, or nothing happens.
LEMMA KExpireInv ==
    ASSUME KInv, UNCHANGED kVars \/ \E k \in KeyIds : Expire(k)
    PROVE  KInv'
<1>0. KTyped /\ UNCHANGED <<kUserLock, kReq>>
  BY DEF KInv, Expire, kVars
<1>1. kKeys' \in [KeyIds -> KKey] /\ \A k \in KeyIds : Kept(kKeys[k], kKeys'[k], None)
  <2>1. CASE UNCHANGED kVars
    BY <1>0, <2>1 DEF KTyped, Kept, kVars
  <2>2. ASSUME NEW e \in KeyIds, Expire(e)
        PROVE  kKeys' \in [KeyIds -> KKey] /\ \A k \in KeyIds : Kept(kKeys[k], kKeys'[k], None)
    <3> DEFINE y == [kKeys[e] EXCEPT !.status = "expired"]
    <3>1. kKeys \in [KeyIds -> KKey] /\ kKeys[e] \in KKey
      BY <1>0 DEF KTyped
    <3>2. kKeys' = [kKeys EXCEPT ![e] = y] /\ kKeys[e].status = "active"
      BY <2>2, <3>1 DEF Expire
    <3>3. /\ y \in KKey /\ y.status = "expired" /\ y.by = kKeys[e].by /\ y.from = kKeys[e].from
          /\ y.lock = kKeys[e].lock
      BY <3>1 DEF KKey, KeyStatus
    <3> HIDE DEF y
    <3>4. Kept(kKeys[e], y, None)
      BY <3>2, <3>3 DEF Kept
    <3>5. \A k \in KeyIds : kKeys'[k] = IF k = e THEN y ELSE kKeys[k]
      BY <3>1, <3>2
    <3>6. kKeys' \in [KeyIds -> KKey]
      BY <3>1, <3>2, <3>3
    <3> QED BY <3>4, <3>5, <3>6 DEF Kept
  <2> QED BY <2>1, <2>2
<1> QED BY <1>0, <1>1, NoneAssumption, KeysKept DEF KTyped

\* The initial states satisfy the invariant.
LEMMA KInitInv == KInit => KInv
<1> SUFFICES ASSUME KInit PROVE KInv
  OBVIOUS
<1>1. NoKey \in KKey /\ NoKey.status = "none" /\ NoKey.by = None /\ NoKey.lock = None
  BY ApiKeysAssumption DEF NoKey, KKey, KeyStatus
<1>2. \A k \in KeyIds : kKeys[k] = NoKey
  BY DEF KInit
<1>3. KTyped
  BY <1>1, KIdleFits DEF KInit, KTyped
<1>4. None # "own rotation" /\ None # "mint"
  BY ApiKeysAssumption DEF KeyOrigins
<1>5. \A k \in KeyIds : KeyFine(k, kKeys)
  BY <1>1, <1>2, <1>4 DEF KeyFine
<1>6. \A q \in Requests : KReqFine(q, kReq[q], kKeys, kUserLock)
  BY KIdleFits DEF KInit
<1>7. RotatedOnce
  BY <1>1, <1>2, <1>4 DEF RotatedOnce
<1>8. Cardinality(Mints(kKeys)) <= Quota
  <2>1. Mints(kKeys) = {}
    BY <1>1, <1>2 DEF Mints
  <2>2. Cardinality({}) = 0
    BY FS_EmptySet
  <2> QED BY <2>1, <2>2, ApiKeysAssumption
<1> QED BY <1>3, <1>5, <1>6, <1>7, <1>8 DEF KInv

\* Every step keeps the invariant.
LEMMA KNextInv == KInv /\ [KNext]_kVars => KInv'
BY KBeginInv, KReadInv, KRevokeOldInv, KCreateInv, KRotatedInv, KRevokedInv, KExpireInv DEF KNext

\* In every reachable state, the owner's active mints are within the quota and a
\* key has at most one successor that its owner rotated it to, for every quota
\* and any number of keys and of concurrent requests.
THEOREM QuotasHold == KSpec => []QuotaHolds
<1>1. KInv => QuotaHolds
  <2>1. ActiveBy({"mint"}) = Mints(kKeys)
    BY DEF ActiveBy, Mints
  <2> QED BY <2>1 DEF KInv, QuotaHolds, MintsInQuota
<1> QED BY <1>1, KInitInv, KNextInv, PTL DEF KSpec

(***************************************************************************)
(* The account's keys implement KeyRing.  Beyond what the quota needs, a   *)
(* deletion of an active account holds the users row from its snapshot to  *)
(* its commit, so no mint comes in between (other inserts may); a mint     *)
(* that is about to insert has counted all active keys, not only mints,    *)
(* and nobody inserts while it has the row; and a key's row is locked only *)
(* by the rotation that is about to replace it, so the commit revokes that *)
(* key alone.                                                              *)
(***************************************************************************)
Rotations == {"own rotation", "admin rotation"}
Actives(keys) == {k \in KeyIds : keys[k].status = "active"}

RingReq(q, x, keys, lock) ==
    /\ x.op = "mint" /\ x.step = "insert" => Cardinality(Actives(keys)) < Quota
    /\ x.op \in Rotations => x.key \in KeyIds /\ keys[x.key].status # "none"
    /\ x.op \in Rotations /\ x.step = "insert" =>
         \/ keys[x.key].lock = q /\ keys[x.key].status \in Live
         \/ x.op = "admin rotation" /\ keys[x.key].status = "revoked"
    /\ \A k \in KeyIds : keys[k].lock = q => x.op \in Rotations /\ x.step = "insert" /\ x.key = k

RingInv == \A q \in Requests : RingReq(q, kReq[q], kKeys, kUserLock)

\* A deletion of an active account has the users row.
Guarded ==
    kAccount = "active" =>
        \A q \in Requests : kReq[q].step \in {"snapshot keys", "revoke all"} => kUserLock = q

\* Keys that are only kept are no more active than before.
LEMMA ActivesKept ==
    ASSUME NEW old, NEW new, NEW q, \A k \in KeyIds : Kept(old[k], new[k], q), Cardinality(Actives(old)) < Quota
    PROVE  Cardinality(Actives(new)) < Quota
<1> DEFINE o == Actives(old)
           m == Actives(new)
<1>1. m \in SUBSET o
  BY DEF Actives, Kept
<1>2. IsFiniteSet(KeyIds) /\ o \in SUBSET KeyIds
  BY ApiKeysAssumption, FS_Interval DEF KeyIds, Actives
<1> HIDE DEF o, m
<1>3. IsFiniteSet(o)
  BY <1>2, FS_Subset
<1>4. IsFiniteSet(m) /\ Cardinality(m) <= Cardinality(o)
  BY <1>1, <1>3, FS_Subset
<1>5. Cardinality(m) \in Nat /\ Cardinality(o) \in Nat
  BY <1>3, <1>4, FS_CardinalityType
<1>6. Cardinality(o) < Quota
  BY DEF o
<1>7. Cardinality(m) < Quota
  BY <1>4, <1>5, <1>6, ApiKeysAssumption
<1> QED BY <1>7 DEF m

\* A request of another handler goes on fitting.
LEMMA OthersRing ==
    ASSUME NEW q, NEW r \in Requests, r # q, NEW x \in KRequest, NEW old, NEW new, NEW lock, NEW lock2,
           KReqFine(r, x, old, lock), RingReq(r, x, old, lock), lock2 = lock \/ lock \in {None, q},
           \A k \in KeyIds : old[k].status # "none" => Kept(old[k], new[k], q),
           lock = r /\ x.op = "mint" => \A k \in KeyIds : Kept(old[k], new[k], q),
           \A k \in KeyIds : new[k].lock = r => old[k].lock = r
    PROVE  RingReq(r, x, new, lock2)
<1>4. x.op = "mint" /\ x.step = "insert" => Cardinality(Actives(new)) < Quota
  BY ActivesKept DEF RingReq, KReqFine
<1>5. x.op \in Rotations => x.key \in KeyIds /\ old[x.key].status # "none" /\ Kept(old[x.key], new[x.key], q)
  BY DEF RingReq
<1>6. x.op \in Rotations => x.key \in KeyIds /\ new[x.key].status # "none"
  BY <1>5 DEF Kept
<1>7. x.op \in Rotations /\ x.step = "insert" =>
         \/ new[x.key].lock = r /\ new[x.key].status \in Live
         \/ x.op = "admin rotation" /\ new[x.key].status = "revoked"
  BY <1>5, NoneAssumption DEF RingReq, Kept, Live
<1>8. \A k \in KeyIds : new[k].lock = r => x.op \in Rotations /\ x.step = "insert" /\ x.key = k
  BY DEF RingReq
<1> QED BY <1>4, <1>6, <1>7, <1>8 DEF RingReq

\* A step of q that keeps the keys that there are, and brings no other unless
\* the users row is free for it.
LEMMA RingKept ==
    ASSUME KInv, RingInv, NEW q,
           kUserLock' = kUserLock \/ kUserLock \in {None, q},
           \A k \in KeyIds : kKeys[k].status # "none" => Kept(kKeys[k], kKeys'[k], q),
           ~FreeForKey(q) => \A k \in KeyIds : Kept(kKeys[k], kKeys'[k], q),
           \A r \in Requests : r # q => kReq'[r] = kReq[r],
           \A k \in KeyIds : kKeys'[k].lock \in {kKeys[k].lock, None, q},
           q \in Requests => RingReq(q, kReq'[q], kKeys', kUserLock')
    PROVE  RingInv'
<1> SUFFICES ASSUME NEW r \in Requests PROVE RingReq(r, kReq'[r], kKeys', kUserLock')
  BY DEF RingInv
<1>1. CASE r = q
  BY <1>1
<1>2. CASE r # q
  <2>1. /\ kReq[r] \in KRequest /\ KReqFine(r, kReq[r], kKeys, kUserLock)
        /\ RingReq(r, kReq[r], kKeys, kUserLock) /\ kReq'[r] = kReq[r]
    BY <1>2 DEF KInv, KTyped, RingInv
  <2>2. kUserLock = r /\ kReq[r].op = "mint" => \A k \in KeyIds : Kept(kKeys[k], kKeys'[k], q)
    BY <1>2 DEF FreeForKey
  <2>3. \A k \in KeyIds : kKeys'[k].lock = r => kKeys[k].lock = r
    BY <1>2, NoneAssumption
  <2>4. RingReq(r, kReq[r], kKeys', kUserLock')
    BY <1>2, <2>1, <2>2, <2>3, OthersRing
  <2> QED BY <2>1, <2>4
<1> QED BY <1>1, <1>2

\* A request that is idle fits if it has locked no row.
LEMMA RingIdle ==
    ASSUME NEW q, NEW keys, NEW lock, \A k \in KeyIds : keys[k].lock # q
    PROVE  RingReq(q, KIdle, keys, lock)
<1>1. KIdle.step = "idle" /\ KIdle.op = None
  BY DEF KIdle
<1>2. None \notin Rotations
  BY ApiKeysAssumption DEF KeyOrigins, Rotations
<1> QED BY <1>1, <1>2 DEF RingReq

\* A request that is not about to insert has locked no row.
LEMMA HasNoRow ==
    ASSUME RingInv, NEW q \in Requests, kReq[q].step # "insert"
    PROVE  \A k \in KeyIds : kKeys[k].lock # q
BY DEF RingInv, RingReq

\* A step in the eyes of KeyRing.
RingStep == Ring!Next \/ UNCHANGED Ring!ringVars

\* The deletions that have looked are as they were.
EndsKept == endingNow' = endingNow /\ sawOf' = sawOf

\* They are when the one request that moves is none of them, before and after.
LEMMA EndsAsWere ==
    ASSUME NEW q, \A r \in Requests : r # q => kReq'[r] = kReq[r],
           q \in Requests => kReq[q].step # "revoke all" /\ kReq'[q].step # "revoke all"
    PROVE  EndsKept
<1>1. \A r \in Requests : kReq'[r].step = "revoke all" <=> kReq[r].step = "revoke all"
  OBVIOUS
<1>2. endingNow' = endingNow
  BY <1>1 DEF endingNow
<1>3. \A r \in Requests : r \in endingNow => kReq'[r] = kReq[r]
  BY DEF endingNow
<1>4. sawOf' = sawOf
  BY <1>2, <1>3 DEF sawOf
<1> QED BY <1>2, <1>4 DEF EndsKept

\* A handler is done that was no deletion that has looked.
LEMMA EndsDone ==
    ASSUME KTyped, NEW q \in Requests, KDone(q), kReq[q].step # "revoke all"
    PROVE  EndsKept
BY DoneParts, KIdleFits, EndsAsWere

\* A deletion that has looked is over.
LEMMA EndsOver ==
    ASSUME KTyped, NEW q \in Requests, KDone(q), kReq[q].step = "revoke all"
    PROVE  Ring!Over(q)
<1>1. kReq'[q].step # "revoke all" /\ \A r \in Requests : r # q => kReq'[r] = kReq[r]
  BY DoneParts, KIdleFits
<1>2. q \in endingNow /\ endingNow' = endingNow \ {q}
  BY <1>1 DEF endingNow
<1>3. sawOf' = [sawOf EXCEPT ![q] = {}]
  <2>1. \A r \in Requests : r \in endingNow' => r # q /\ r \in endingNow
    BY <1>2
  <2>2. \A r \in Requests \ {q} : r \in endingNow <=> r \in endingNow'
    BY <1>2
  <2>3. \A r \in Requests : sawOf'[r] = IF r = q THEN {} ELSE sawOf[r]
    BY <1>1, <2>1, <2>2 DEF sawOf
  <2> QED BY <2>3 DEF sawOf
<1> QED BY <1>2, <1>3 DEF Ring!Over

\* KeyRing does not see what happens to the locks and to the other requests.
LEMMA SameRing ==
    ASSUME kAccount' = kAccount, EndsKept,
           \A k \in KeyIds : /\ kKeys'[k].status = kKeys[k].status
                             /\ kKeys'[k].by = kKeys[k].by /\ kKeys'[k].from = kKeys[k].from
    PROVE  RingStep
<1>1. statusOf' = statusOf /\ makerOf' = makerOf /\ sourceOf' = sourceOf
  BY DEF statusOf, makerOf, sourceOf
<1> QED BY <1>1 DEF RingStep, Ring!ringVars, Ring!ends, EndsKept

\* A handler goes on to another step, the keys as they are.
LEMMA RingGoesOn ==
    ASSUME KInv, RingInv, NEW q \in Requests, NEW x, kReq' = [kReq EXCEPT ![q] = x],
           kUserLock' = kUserLock \/ kUserLock \in {None, q}, kKeys' = kKeys,
           RingReq(q, x, kKeys, kUserLock')
    PROVE  RingInv'
<1>1. kReq'[q] = x /\ \A r \in Requests : r # q => kReq'[r] = kReq[r]
  BY DEF KInv, KTyped
<1>2. \A k \in KeyIds : Kept(kKeys[k], kKeys'[k], q) /\ kKeys'[k].lock \in {kKeys[k].lock, None, q}
  BY DEF Kept
<1> QED BY <1>1, <1>2, RingKept

\* A handler is done, having kept the keys and given back the rows it locked.
LEMMA RingDone ==
    ASSUME KInv, RingInv, NEW q \in Requests, KDone(q),
           \A k \in KeyIds : /\ Kept(kKeys[k], kKeys'[k], q)
                             /\ kKeys'[k].lock \in {kKeys[k].lock, None} /\ kKeys'[k].lock # q
    PROVE  RingInv'
<1>1. KTyped
  BY DEF KInv
<1>2. RingReq(q, kReq'[q], kKeys', kUserLock')
  <2>1. RingReq(q, KIdle, kKeys', kUserLock')
    BY RingIdle
  <2> QED BY <1>1, <2>1, DoneParts
<1>3. \A k \in KeyIds : kKeys'[k].lock \in {kKeys[k].lock, None, q}
  OBVIOUS
<1> QED BY <1>1, <1>2, <1>3, DoneParts, RingKept

\* A handler is done, the keys as they are.
LEMMA RingDoneSame ==
    ASSUME KInv, RingInv, NEW q \in Requests, KDone(q), kKeys' = kKeys, kReq[q].step # "insert"
    PROVE  RingInv'
<1>1. \A k \in KeyIds : /\ Kept(kKeys[k], kKeys'[k], q)
                        /\ kKeys'[k].lock \in {kKeys[k].lock, None} /\ kKeys'[k].lock # q
  BY HasNoRow DEF Kept
<1> QED BY <1>1, RingDone

\* The handlers start.
LEMMA RingBegin ==
    ASSUME KInv, RingInv, NEW q \in Requests,
           \/ CreateMyAPIKey(q) \/ CreateAPIKey(q) \/ SoftDeleteUser(q) \/ ResyncUserRole(q)
           \/ \E k \in KeyIds : RotateMyAPIKey(q, k) \/ RotateAPIKeyRequest(q, k)
    PROVE  RingInv' /\ RingStep
<1>1. \E op, key, step :
        /\ Begin(q, op, key, step)
        /\ step \in {"lock user", "revoke old", "read old", "delete user", "list keys", "insert"}
        /\ step = "insert" => op = "admin"
        /\ op \in Rotations => key \in KeyIds /\ kKeys[key].status # "none"
  <2>1. CASE CreateMyAPIKey(q)
    <3>1. "mint" \notin Rotations
      BY DEF Rotations
    <3> QED BY <2>1, <3>1 DEF CreateMyAPIKey
  <2>2. CASE SoftDeleteUser(q)
    <3>1. "delete" \notin Rotations
      BY DEF Rotations
    <3> QED BY <2>2, <3>1 DEF SoftDeleteUser
  <2>3. CASE ResyncUserRole(q)
    <3>1. "resync" \notin Rotations
      BY DEF Rotations
    <3> QED BY <2>3, <3>1 DEF ResyncUserRole
  <2>6. CASE CreateAPIKey(q)
    <3>1. "admin" \notin Rotations
      BY DEF Rotations
    <3> QED BY <2>6, <3>1 DEF CreateAPIKey
  <2>4. CASE \E k \in KeyIds : RotateMyAPIKey(q, k)
    BY <2>4 DEF RotateMyAPIKey
  <2>5. CASE \E k \in KeyIds : RotateAPIKeyRequest(q, k)
    BY <2>5 DEF RotateAPIKeyRequest
  <2> QED BY <2>1, <2>2, <2>3, <2>4, <2>5, <2>6
<1>2. PICK op, key, step :
        /\ Begin(q, op, key, step)
        /\ step \in {"lock user", "revoke old", "read old", "delete user", "list keys", "insert"}
        /\ step = "insert" => op = "admin"
        /\ op \in Rotations => key \in KeyIds /\ kKeys[key].status # "none"
  BY <1>1
<1> DEFINE x == [KIdle EXCEPT !.op = op, !.key = key, !.step = step]
<1>3. x.op = op /\ x.key = key /\ x.step = step
  BY DEF KIdle
<1>4. /\ kReq' = [kReq EXCEPT ![q] = x] /\ UNCHANGED <<kUserLock, kKeys, kAccount>>
      /\ kReq[q].step = "idle"
  BY <1>2 DEF Begin
<1>5. \A k \in KeyIds : kKeys[k].lock # q
  BY <1>4, HasNoRow
<1> HIDE DEF x
<1>6. RingReq(q, x, kKeys, kUserLock')
  <2>1. "admin" \notin Rotations
    BY DEF Rotations
  <2> QED BY <1>2, <1>3, <1>5, <2>1 DEF RingReq
<1>7. RingInv'
  BY <1>4, <1>6, RingGoesOn
<1>8. RingStep
  <2>1. kReq'[q] = x /\ \A r \in Requests : r # q => kReq'[r] = kReq[r]
    BY <1>4 DEF KInv, KTyped
  <2>2. EndsKept
    BY <1>2, <1>3, <1>4, <2>1, EndsAsWere
  <2> QED BY <1>4, <2>2, SameRing
<1> QED BY <1>7, <1>8

\* Steps that leave the keys as they are.
LEMMA RingRead ==
    ASSUME KInv, RingInv, NEW q \in Requests,
           \/ LockUser(q) \/ CountKeys(q) \/ AdminReadOld(q)
           \/ DeleteUser(q) \/ SnapshotKeys(q) \/ ListAPIKeys(q)
    PROVE  RingInv' /\ RingStep
<1>0. /\ kReq[q] \in KRequest /\ KReqFine(q, kReq[q], kKeys, kUserLock) /\ kReq \in [Requests -> KRequest]
      /\ RingReq(q, kReq[q], kKeys, kUserLock)
  BY DEF KInv, KTyped, RingInv
<1>1. /\ kKeys' = kKeys /\ kAccount' = kAccount
      /\ kReq[q].step \in {"lock user", "count", "read old", "delete user", "snapshot keys", "list keys"}
  BY DEF LockUser, CountKeys, AdminReadOld, DeleteUser, SnapshotKeys, ListAPIKeys
<1>2. KTyped
  BY DEF KInv
<1>3. \A k \in KeyIds : kKeys[k].lock # q
  BY <1>1, HasNoRow
<1>4. CASE KDone(q)
  BY <1>1, <1>2, <1>4, RingDoneSame, EndsDone, SameRing
<1>5. ASSUME NEW x, kReq' = [kReq EXCEPT ![q] = x], x.op = kReq[q].op, x.key = kReq[q].key,
             kUserLock' = kUserLock \/ kUserLock \in {None, q},
             x.step = "insert" => x.op = "mint" /\ Cardinality(Actives(kKeys)) < Quota
      PROVE  RingInv' /\ (x.step # "revoke all" => RingStep)
  <2>1. "mint" \notin Rotations
    BY DEF Rotations
  <2>2. x.op \in Rotations => x.key \in KeyIds /\ kKeys[x.key].status # "none"
    BY <1>0, <1>5 DEF RingReq
  <2>3. RingReq(q, x, kKeys, kUserLock')
    BY <1>3, <1>5, <2>1, <2>2 DEF RingReq
  <2>4. RingInv'
    BY <1>1, <1>5, <2>3, RingGoesOn
  <2>5. ASSUME x.step # "revoke all" PROVE RingStep
    <3>1. kReq'[q] = x /\ \A r \in Requests : r # q => kReq'[r] = kReq[r]
      BY <1>0, <1>5
    <3>2. EndsKept
      BY <1>1, <2>5, <3>1, EndsAsWere
    <3> QED BY <1>1, <3>2, SameRing
  <2> QED BY <2>4, <2>5
<1>6. ASSUME NEW st \in KSteps PROVE
        LET x == [kReq[q] EXCEPT !.step = st]
        IN  x.step = st /\ x.op = kReq[q].op /\ x.key = kReq[q].key /\ x.seen = kReq[q].seen
  BY <1>0 DEF KRequest
<1>7. CASE LockUser(q) /\ ~KDone(q)
  <2> DEFINE x == [kReq[q] EXCEPT !.step = "count"]
  <2>1. x.step = "count" /\ x.op = kReq[q].op /\ x.key = kReq[q].key
    BY <1>6 DEF KSteps
  <2>2. kReq' = [kReq EXCEPT ![q] = x] /\ kUserLock \in {None, q}
    BY <1>0, <1>7 DEF LockUser, FreeUser
  <2> HIDE DEF x
  <2> QED BY <1>5, <2>1, <2>2
<1>8. CASE CountKeys(q) /\ ~KDone(q)
  <2> DEFINE x == [kReq[q] EXCEPT !.step = "insert"]
  <2>1. x.step = "insert" /\ x.op = kReq[q].op /\ x.key = kReq[q].key
    BY <1>6 DEF KSteps
  <2>2. /\ kReq' = [kReq EXCEPT ![q] = x] /\ kUserLock' = kUserLock /\ kReq[q].step = "count"
        /\ ~(CountActiveAPIKeys >= Quota)
    BY <1>0, <1>8 DEF CountKeys
  <2>3. Cardinality(Actives(kKeys)) < Quota
    <3> DEFINE A == Actives(kKeys)
    <3>1. IsFiniteSet(KeyIds) /\ A \in SUBSET KeyIds
      BY ApiKeysAssumption, FS_Interval DEF KeyIds, Actives
    <3>2. ~(Cardinality(A) >= Quota)
      BY <2>2 DEF CountActiveAPIKeys, Actives
    <3> HIDE DEF A
    <3>3. IsFiniteSet(A)
      BY <3>1, FS_Subset
    <3>4. Cardinality(A) \in Nat
      BY <3>3, FS_CardinalityType
    <3>5. Cardinality(A) < Quota
      BY <3>2, <3>4, ApiKeysAssumption
    <3> QED BY <3>5 DEF A
  <2>4. kReq[q].op = "mint"
    BY <1>0, <2>2 DEF KReqFine
  <2> HIDE DEF x
  <2> QED BY <1>5, <2>1, <2>2, <2>3, <2>4
<1>9. CASE AdminReadOld(q) /\ ~KDone(q)
  <2> DEFINE x == [kReq[q] EXCEPT !.step = "revoke old"]
  <2>1. x.step = "revoke old" /\ x.op = kReq[q].op /\ x.key = kReq[q].key
    BY <1>6 DEF KSteps
  <2>2. kReq' = [kReq EXCEPT ![q] = x] /\ kUserLock' = kUserLock
    BY <1>0, <1>9 DEF AdminReadOld
  <2> HIDE DEF x
  <2> QED BY <1>5, <2>1, <2>2
<1>10. CASE DeleteUser(q)
  <2> DEFINE x == [kReq[q] EXCEPT !.step = "snapshot keys"]
  <2>1. x.step = "snapshot keys" /\ x.op = kReq[q].op /\ x.key = kReq[q].key
    BY <1>6 DEF KSteps
  <2>2. kReq' = [kReq EXCEPT ![q] = x] /\ kUserLock \in {None, q}
    BY <1>0, <1>10 DEF DeleteUser, FreeUser
  <2> HIDE DEF x
  <2> QED BY <1>5, <2>1, <2>2
<1>11. CASE SnapshotKeys(q)
  <2> DEFINE seen == AllUnrevoked
             x == [kReq[q] EXCEPT !.seen = seen, !.step = "revoke all"]
  <2>1. kReq' = [kReq EXCEPT ![q] = x] /\ kUserLock' = kUserLock /\ kReq[q].step = "snapshot keys"
    BY <1>0, <1>11 DEF SnapshotKeys
  <2>2. seen = {k \in KeyIds : Ring!InUse(k)}
    BY DEF AllUnrevoked, Unrevoked, Ring!InUse, statusOf
  <2> HIDE DEF seen
  <2>3. x.step = "revoke all" /\ x.op = kReq[q].op /\ x.key = kReq[q].key /\ x.seen = seen
    BY <1>0 DEF KRequest
  <2> HIDE DEF x
  <2>4. RingInv'
    BY <1>5, <2>1, <2>3
  <2>5. kReq'[q] = x /\ \A r \in Requests : r # q => kReq'[r] = kReq[r]
    BY <1>0, <2>1
  <2>6. q \notin endingNow /\ endingNow' = endingNow \cup {q}
    BY <2>1, <2>3, <2>5 DEF endingNow
  <2>7. sawOf' = [sawOf EXCEPT ![q] = seen]
    <3>1. \A r \in Requests \ {q} : r \in endingNow <=> r \in endingNow'
      BY <2>6
    <3>2. \A r \in Requests : sawOf'[r] = IF r = q THEN seen ELSE sawOf[r]
      BY <2>3, <2>5, <2>6, <3>1 DEF sawOf
    <3> QED BY <3>2 DEF sawOf
  <2>8. statusOf' = statusOf /\ makerOf' = makerOf /\ sourceOf' = sourceOf
    BY <1>1 DEF statusOf, makerOf, sourceOf
  <2>9. Ring!Look(q)
    BY <1>1, <2>2, <2>6, <2>7, <2>8 DEF Ring!Look
  <2> QED BY <2>4, <2>9 DEF RingStep, Ring!Next
<1>12. CASE ListAPIKeys(q)
  <2>1. PICK seen : kReq' = [kReq EXCEPT ![q].seen = seen, ![q].step = "revoke each"]
    BY <1>12 DEF ListAPIKeys
  <2> DEFINE x == [kReq[q] EXCEPT !.seen = seen, !.step = "revoke each"]
  <2>2. kReq' = [kReq EXCEPT ![q] = x] /\ kUserLock' = kUserLock
    BY <1>0, <1>12, <2>1 DEF ListAPIKeys
  <2>3. x.step = "revoke each" /\ x.op = kReq[q].op /\ x.key = kReq[q].key
    BY <1>0 DEF KRequest
  <2> HIDE DEF x
  <2> QED BY <1>5, <2>2, <2>3
<1> QED BY <1>4, <1>7, <1>8, <1>9, <1>10, <1>11, <1>12

\* A rotation takes the row of the old key.
LEMMA RingRevokeOld ==
    ASSUME KInv, RingInv, NEW q \in Requests, OwnRevoke(q) \/ AdminRevoke(q)
    PROVE  RingInv' /\ RingStep
<1>0. /\ kReq[q] \in KRequest /\ kReq \in [Requests -> KRequest] /\ kKeys \in [KeyIds -> KKey]
      /\ RingReq(q, kReq[q], kKeys, kUserLock)
  BY DEF KInv, KTyped, RingInv
<1> DEFINE old == kReq[q].key
           x == [kReq[q] EXCEPT !.step = "insert"]
           y == [kKeys[old] EXCEPT !.lock = q]
<1>1. x.step = "insert" /\ x.op = kReq[q].op /\ x.key = old
  BY <1>0 DEF KRequest
<1>2. /\ kReq[q].op \in Rotations /\ kReq[q].step = "revoke old" /\ kAccount' = kAccount
      /\ kKeys[old].lock \in {None, q}
  BY DEF OwnRevoke, AdminRevoke, FreeRow, Rotations
<1>3. old \in KeyIds /\ kKeys[old].status # "none" /\ \A k \in KeyIds : kKeys[k].lock # q
  BY <1>0, <1>2, HasNoRow DEF RingReq
<1>4. "mint" \notin Rotations
  BY DEF Rotations
<1>8. KTyped
  BY DEF KInv
<1>9. ASSUME kReq' = [kReq EXCEPT ![q] = x] PROVE EndsKept
  <2>1. kReq'[q] = x /\ \A r \in Requests : r # q => kReq'[r] = kReq[r]
    BY <1>0, <1>9
  <2>2. kReq[q].step # "revoke all" /\ kReq'[q].step # "revoke all"
    BY <1>1, <1>2, <2>1
  <2> HIDE DEF x
  <2> QED BY <2>1, <2>2, EndsAsWere
<1>5. CASE OwnRevoke(q) /\ ~Unrevoked(old)
  <2>1. KDone(q) /\ kKeys' = kKeys
    BY <1>5 DEF OwnRevoke
  <2> QED BY <1>2, <1>8, <2>1, RingDoneSame, EndsDone, SameRing
<1>6. CASE AdminRevoke(q) /\ ~Unrevoked(old)
  <2>1. /\ kReq' = [kReq EXCEPT ![q] = x] /\ kKeys' = kKeys /\ kUserLock' = kUserLock
        /\ kReq[q].op = "admin rotation"
    BY <1>0, <1>6 DEF AdminRevoke
  <2>2. kKeys[old].status = "revoked"
    BY <1>0, <1>3, <1>6 DEF Unrevoked, KKey, KeyStatus
  <2> HIDE DEF x, old
  <2>3. RingReq(q, x, kKeys, kUserLock')
    BY <1>1, <1>2, <1>3, <1>4, <2>1, <2>2 DEF RingReq
  <2> QED BY <1>2, <1>9, <2>1, <2>3, RingGoesOn, SameRing
<1>7. CASE Unrevoked(old)
  <2>1. /\ kReq' = [kReq EXCEPT ![q] = x] /\ kKeys' = [kKeys EXCEPT ![old] = y] /\ kUserLock' = kUserLock
        /\ kKeys[old].status \in Live
    BY <1>0, <1>7 DEF AdminRevoke, OwnRevoke, Unrevoked, Live
  <2>2. y.lock = q /\ y.status = kKeys[old].status /\ y.by = kKeys[old].by /\ y.from = kKeys[old].from
    BY <1>0, <1>3 DEF KKey
  <2> HIDE DEF x, y, old
  <2>3. \A k \in KeyIds : kKeys'[k] = IF k = old THEN y ELSE kKeys[k]
    BY <1>0, <2>1
  <2>4. \A k \in KeyIds : Kept(kKeys[k], kKeys'[k], q) /\ kKeys'[k].lock \in {kKeys[k].lock, None, q}
    BY <1>2, <1>3, <2>2, <2>3 DEF Kept
  <2>5. kReq'[q] = x /\ \A r \in Requests : r # q => kReq'[r] = kReq[r]
    BY <1>0, <2>1
  <2>6. \A k \in KeyIds : kKeys'[k].lock = q => k = old
    BY <1>3, <2>3
  <2>7. kKeys'[old].lock = q /\ kKeys'[old].status \in Live /\ kKeys'[old].status # "none"
    BY <1>3, <2>1, <2>2, <2>3
  <2>8. RingReq(q, x, kKeys', kUserLock')
    BY <1>1, <1>2, <1>3, <1>4, <2>6, <2>7 DEF RingReq
  <2>9. RingInv'
    BY <2>1, <2>4, <2>5, <2>8, RingKept
  <2>10. \A k \in KeyIds : /\ kKeys'[k].status = kKeys[k].status
                           /\ kKeys'[k].by = kKeys[k].by /\ kKeys'[k].from = kKeys[k].from
    BY <2>2, <2>3
  <2>11. RingStep
    BY <1>2, <1>9, <2>1, <2>10, SameRing
  <2> QED BY <2>9, <2>11
<1> QED BY <1>5, <1>6, <1>7

\* A transaction that ends gives back its rows, revoked if it commits.
LEMMA SettledRows ==
    ASSUME KInv, NEW q \in Requests, NEW c \in BOOLEAN, NEW k \in KeyIds
    PROVE  /\ Settled(kKeys, q, c)[k].by = kKeys[k].by /\ Settled(kKeys, q, c)[k].from = kKeys[k].from
           /\ Settled(kKeys, q, c)[k].lock = IF kKeys[k].lock = q THEN None ELSE kKeys[k].lock
           /\ kKeys[k].lock = q /\ c => Settled(kKeys, q, c)[k].status = "revoked"
           /\ ~(kKeys[k].lock = q /\ c) => Settled(kKeys, q, c)[k].status = kKeys[k].status
<1>1. kKeys[k] \in KKey
  BY DEF KInv, KTyped
<1>2. Settled(kKeys, q, c)[k] =
        IF kKeys[k].lock # q THEN kKeys[k]
        ELSE [kKeys[k] EXCEPT !.lock = None, !.status = IF c THEN "revoked" ELSE @]
  BY DEF Settled
<1> QED BY <1>1, <1>2 DEF KKey

\* So a transaction that fails changes no key.
LEMMA RingFail ==
    ASSUME KInv, RingInv, NEW q \in Requests, NEW c \in BOOLEAN, ~c, kKeys' = Settled(kKeys, q, c),
           KDone(q), kAccount' = kAccount
    PROVE  RingInv' /\ RingStep
<1>1. ASSUME NEW k \in KeyIds
      PROVE  /\ kKeys'[k].by = kKeys[k].by /\ kKeys'[k].from = kKeys[k].from
             /\ kKeys'[k].lock = IF kKeys[k].lock = q THEN None ELSE kKeys[k].lock
             /\ kKeys'[k].status = kKeys[k].status
  BY SettledRows
<1>2. \A k \in KeyIds : Kept(kKeys[k], kKeys'[k], q)
  BY RowSettled
<1>3. \A k \in KeyIds : kKeys'[k].lock \in {kKeys[k].lock, None} /\ kKeys'[k].lock # q
  BY <1>1, NoneAssumption
<1>4. RingInv'
  BY <1>2, <1>3, RingDone
<1>5. KTyped
  BY DEF KInv
<1>6. CASE kReq[q].step # "revoke all"
  BY <1>1, <1>4, <1>5, <1>6, EndsDone, SameRing
<1>7. CASE kReq[q].step = "revoke all"
  <2>1. statusOf' = statusOf /\ makerOf' = makerOf /\ sourceOf' = sourceOf
    BY <1>1 DEF statusOf, makerOf, sourceOf
  <2>2. Ring!GiveUp(q)
    BY <1>5, <1>7, <2>1, EndsOver DEF Ring!GiveUp
  <2> QED BY <1>4, <2>2 DEF RingStep, Ring!Next
<1> QED BY <1>6, <1>7

\* A revocation revokes those of the keys that it names that were not.
LEMMA RevokedRows ==
    ASSUME KInv, NEW ids, kKeys' = RevokedIn(ids)
    PROVE  /\ \A k \in KeyIds : kKeys'[k].lock = kKeys[k].lock
           /\ Ring!Become({k \in KeyIds : k \in ids /\ Unrevoked(k)}, "revoked")
<1>1. ASSUME NEW k \in KeyIds
      PROVE  /\ kKeys'[k].lock = kKeys[k].lock /\ kKeys'[k].by = kKeys[k].by /\ kKeys'[k].from = kKeys[k].from
             /\ kKeys'[k].status = IF k \in ids /\ Unrevoked(k) THEN "revoked" ELSE kKeys[k].status
  <2>1. kKeys[k] \in KKey
    BY DEF KInv, KTyped
  <2>2. kKeys'[k] = IF k \in ids /\ Unrevoked(k) THEN [kKeys[k] EXCEPT !.status = "revoked"] ELSE kKeys[k]
    BY DEF RevokedIn
  <2> QED BY <2>1, <2>2 DEF KKey
<1>2. makerOf' = makerOf /\ sourceOf' = sourceOf
  BY <1>1 DEF makerOf, sourceOf
<1>3. statusOf' = [k \in KeyIds |-> IF k \in {j \in KeyIds : j \in ids /\ Unrevoked(j)} THEN "revoked" ELSE statusOf[k]]
  BY <1>1 DEF statusOf
<1> QED BY <1>1, <1>2, <1>3 DEF Ring!Become

\* A revocation of one key.
LEMMA RevokedOne ==
    ASSUME KInv, NEW k \in KeyIds, kKeys' = RevokedIn({k}), kAccount' = kAccount, EndsKept
    PROVE  RingStep
<1> DEFINE S == {j \in KeyIds : j \in {k} /\ Unrevoked(j)}
<1>1. Ring!Become(S, "revoked")
  BY RevokedRows
<1>2. CASE Unrevoked(k)
  <2>1. S = {k}
    BY <1>2
  <2>2. Ring!InUse(k)
    BY <1>2 DEF Ring!InUse, statusOf, Unrevoked
  <2>3. Ring!Revoke(k)
    BY <1>1, <2>1, <2>2 DEF Ring!Revoke, Ring!ends, EndsKept
  <2> QED BY <2>3 DEF RingStep, Ring!Next
<1>3. CASE ~Unrevoked(k)
  <2>1. \A j \in KeyIds : kKeys'[j] = kKeys[j]
    BY <1>3 DEF RevokedIn
  <2> QED BY <2>1, SameRing
<1> QED BY <1>2, <1>3

\* A request that only revokes goes on fitting.
LEMMA RingQuiet ==
    ASSUME RingInv, NEW q \in Requests, kReq[q].step \in {"idle", "revoke each"},
           NEW x, x.op = kReq[q].op, x.key = kReq[q].key, x.step = kReq[q].step, NEW keys, NEW lock,
           \A k \in KeyIds : kKeys[k].status # "none" => Kept(kKeys[k], keys[k], q),
           \A k \in KeyIds : keys[k].lock # q
    PROVE  RingReq(q, x, keys, lock)
<1>1. x.op \in Rotations => x.key \in KeyIds /\ kKeys[x.key].status # "none"
  BY DEF RingInv, RingReq
<1>2. x.op \in Rotations => x.key \in KeyIds /\ keys[x.key].status # "none"
  BY <1>1 DEF Kept
<1> QED BY <1>2 DEF RingReq

\* Revocations, in one statement or in several, and the end of an account.
LEMMA RingRevoked ==
    ASSUME KInv, RingInv, NEW q \in Requests,
           \/ PurgeUser(q) \/ DeleteCommit(q) \/ ResyncRevoke(q)
           \/ \E k \in KeyIds : RevokeAPIKey(q, k)
    PROVE  RingInv' /\ RingStep
<1>0. /\ kReq[q] \in KRequest /\ kReq \in [Requests -> KRequest] /\ RingReq(q, kReq[q], kKeys, kUserLock)
  BY DEF KInv, KTyped, RingInv
<1>1. kReq[q].step \in {"idle", "revoke each", "revoke all"}
  BY DEF PurgeUser, DeleteCommit, ResyncRevoke, RevokeAPIKey
<1>2. \A k \in KeyIds : kKeys[k].lock # q
  BY <1>1, HasNoRow
<1>3. ASSUME NEW ids, kKeys' = RevokedIn(ids), \A k \in ids : FreeRow(q, k)
      PROVE  \A k \in KeyIds : /\ Kept(kKeys[k], kKeys'[k], q)
                               /\ kKeys'[k].lock = kKeys[k].lock /\ kKeys'[k].lock # q
  <2>1. \A k \in KeyIds : Kept(kKeys[k], RevokedIn(ids)[k], q)
    BY <1>3, RevokedKept
  <2>2. \A k \in KeyIds : kKeys'[k].lock = kKeys[k].lock
    BY <1>3, RevokedRows
  <2> QED BY <1>2, <1>3, <2>1, <2>2
<1>4. ASSUME NEW ids, kKeys' = RevokedIn(ids), \A k \in ids : FreeRow(q, k),
             kReq[q].step = "idle", UNCHANGED <<kReq, kUserLock>>
      PROVE  RingInv'
  <2>1. \A k \in KeyIds : /\ Kept(kKeys[k], kKeys'[k], q)
                          /\ kKeys'[k].lock \in {kKeys[k].lock, None, q} /\ kKeys'[k].lock # q
    BY <1>3, <1>4
  <2>2. RingReq(q, kReq[q], kKeys', kUserLock')
    BY <1>4, <2>1, RingQuiet
  <2> QED BY <1>4, <2>1, <2>2, RingKept
<1>5. kReq' = kReq => EndsKept
  BY DEF EndsKept, endingNow, sawOf
<1>6. CASE PurgeUser(q)
  <2>1. RingInv'
    BY <1>4, <1>6 DEF PurgeUser
  <2>2. {k \in KeyIds : k \in KeyIds /\ Unrevoked(k)} = {k \in KeyIds : Ring!InUse(k)}
    BY DEF Unrevoked, Ring!InUse, statusOf
  <2>3. kKeys' = RevokedIn(KeyIds) /\ kAccount' = "purged" /\ kReq' = kReq
    BY <1>6 DEF PurgeUser
  <2>4. Ring!Become({k \in KeyIds : Ring!InUse(k)}, "revoked")
    BY <2>2, <2>3, RevokedRows
  <2>5. Ring!Purge
    BY <1>5, <2>3, <2>4 DEF Ring!Purge, Ring!ends, EndsKept
  <2> QED BY <2>1, <2>5 DEF RingStep, Ring!Next
<1>7. ASSUME NEW k \in KeyIds, RevokeAPIKey(q, k) PROVE RingInv' /\ RingStep
  <2>1. /\ kKeys' = RevokedIn({k}) /\ \A j \in {k} : FreeRow(q, j)
        /\ kReq[q].step = "idle" /\ UNCHANGED <<kAccount, kUserLock, kReq>>
    BY <1>7 DEF RevokeAPIKey
  <2>2. RingInv'
    <3> DEFINE ids == {k}
    <3>1. kKeys' = RevokedIn(ids) /\ \A j \in ids : FreeRow(q, j)
      BY <2>1
    <3> HIDE DEF ids
    <3> QED BY <1>4, <2>1, <3>1
  <2>3. RingStep
    BY <1>5, <2>1, RevokedOne
  <2> QED BY <2>2, <2>3
<1>8. CASE DeleteCommit(q)
  <2> DEFINE last == IF kAccount = "active" THEN "deleted" ELSE kAccount
             ids == kReq[q].seen
  <2>1. /\ kKeys' = RevokedIn(ids) /\ \A k \in ids : FreeRow(q, k)
        /\ kReq[q].step = "revoke all" /\ kAccount' = last /\ KDone(q)
    BY <1>8 DEF DeleteCommit
  <2>2. q \in endingNow /\ sawOf[q] = ids
    BY <2>1 DEF endingNow, sawOf
  <2>3. KTyped
    BY DEF KInv
  <2>4. Ring!Over(q)
    BY <2>1, <2>3, EndsOver
  <2> HIDE DEF ids
  <2>5. \A k \in KeyIds : /\ Kept(kKeys[k], kKeys'[k], q)
                          /\ kKeys'[k].lock \in {kKeys[k].lock, None} /\ kKeys'[k].lock # q
    BY <1>3, <2>1
  <2>6. RingInv'
    BY <2>1, <2>5, RingDone
  <2>7. {k \in KeyIds : k \in ids /\ Unrevoked(k)} = {k \in KeyIds : k \in sawOf[q] /\ Ring!InUse(k)}
    BY <2>2 DEF Unrevoked, Ring!InUse, statusOf
  <2>8. Ring!Become({k \in KeyIds : k \in sawOf[q] /\ Ring!InUse(k)}, "revoked")
    BY <2>1, <2>7, RevokedRows
  <2>9. Ring!Delete(q)
    BY <2>1, <2>4, <2>8 DEF Ring!Delete
  <2> QED BY <2>6, <2>9 DEF RingStep, Ring!Next
<1>9. CASE ResyncRevoke(q) /\ KDone(q) /\ UNCHANGED kKeys
  <2>1. kReq[q].step = "revoke each" /\ kAccount' = kAccount /\ KTyped
    BY <1>9 DEF ResyncRevoke, KInv
  <2> QED BY <1>9, <2>1, RingDoneSame, EndsDone, SameRing
<1>10. ASSUME NEW k \in kReq[q].seen, kReq[q].step = "revoke each", FreeRow(q, k), kKeys' = RevokedIn({k}),
              kReq' = [kReq EXCEPT ![q].seen = @ \ {k}], UNCHANGED <<kUserLock, kAccount>>
       PROVE  RingInv' /\ RingStep
  <2> DEFINE x == [kReq[q] EXCEPT !.seen = kReq[q].seen \ {k}]
  <2>1. k \in KeyIds
    BY <1>0 DEF KRequest
  <2>2. x.step = kReq[q].step /\ x.op = kReq[q].op /\ x.key = kReq[q].key
    BY <1>0 DEF KRequest
  <2>3. /\ kReq'[q] = x /\ \A r \in Requests : r # q => kReq'[r] = kReq[r]
    BY <1>0, <1>10
  <2> HIDE DEF x
  <2>4. \A j \in KeyIds : /\ Kept(kKeys[j], kKeys'[j], q)
                          /\ kKeys'[j].lock \in {kKeys[j].lock, None, q} /\ kKeys'[j].lock # q
    <3> DEFINE ids == {k}
    <3>1. kKeys' = RevokedIn(ids) /\ \A j \in ids : FreeRow(q, j)
      BY <1>10
    <3> HIDE DEF ids
    <3> QED BY <1>3, <3>1
  <2>5. RingReq(q, x, kKeys', kUserLock')
    BY <1>10, <2>2, <2>4, RingQuiet
  <2>6. RingInv'
    BY <1>10, <2>3, <2>4, <2>5, RingKept
  <2>7. EndsKept
    BY <1>10, <2>2, <2>3, EndsAsWere
  <2>8. RingStep
    BY <1>10, <2>1, <2>7, RevokedOne
  <2> QED BY <2>6, <2>8
<1> QED BY <1>6, <1>7, <1>8, <1>9, <1>10 DEF ResyncRevoke

\* A key expires, or nothing happens.
LEMMA RingExpire ==
    ASSUME KInv, RingInv, UNCHANGED kVars \/ \E k \in KeyIds : Expire(k)
    PROVE  RingInv' /\ RingStep
<1>0. KTyped /\ UNCHANGED <<kUserLock, kReq, kAccount>>
  BY DEF KInv, Expire, kVars
<1>3. EndsKept
  BY <1>0 DEF EndsKept, endingNow, sawOf
<1>1. CASE UNCHANGED kVars
  <2>1. RingInv'
    BY <1>1 DEF RingInv, kVars
  <2> QED BY <1>1, <1>3, <2>1, SameRing DEF kVars
<1>2. ASSUME NEW e \in KeyIds, Expire(e) PROVE RingInv' /\ RingStep
  <2> DEFINE y == [kKeys[e] EXCEPT !.status = "expired"]
  <2>1. kKeys \in [KeyIds -> KKey] /\ kKeys[e] \in KKey
    BY <1>0 DEF KTyped
  <2>2. kKeys' = [kKeys EXCEPT ![e] = y] /\ kKeys[e].status = "active"
    BY <1>2, <2>1 DEF Expire
  <2>3. y.status = "expired" /\ y.by = kKeys[e].by /\ y.from = kKeys[e].from /\ y.lock = kKeys[e].lock
    BY <2>1 DEF KKey
  <2> HIDE DEF y
  <2>4. \A k \in KeyIds : kKeys'[k] = IF k = e THEN y ELSE kKeys[k]
    BY <2>1, <2>2
  <2>5. \A k \in KeyIds : /\ Kept(kKeys[k], kKeys'[k], None)
                          /\ kKeys'[k].lock \in {kKeys[k].lock, None}
    BY <2>2, <2>3, <2>4 DEF Kept
  <2>6. RingInv'
    BY <1>0, <2>5, NoneAssumption, RingKept
  <2>7. makerOf' = makerOf /\ sourceOf' = sourceOf
    BY <2>3, <2>4 DEF makerOf, sourceOf
  <2>8. statusOf' = [k \in KeyIds |-> IF k \in {e} THEN "expired" ELSE statusOf[k]]
    BY <2>3, <2>4 DEF statusOf
  <2>9. Ring!Expire(e)
    BY <1>0, <1>3, <2>2, <2>7, <2>8 DEF Ring!Expire, Ring!Become, statusOf, Ring!ends, EndsKept
  <2> QED BY <2>6, <2>9 DEF RingStep, Ring!Next
<1> QED BY <1>1, <1>2

\* A key comes in the eyes of KeyRing.
LEMMA KeyRingComes ==
    ASSUME NEW n \in KeyIds, kKeys[n].status = "none", NEW by, NEW from, NEW others \in [KeyIds -> KeyStatus],
           kKeys'[n].status = "active", kKeys'[n].by = by, kKeys'[n].from = from,
           \A k \in KeyIds \ {n} : /\ kKeys'[k].status = others[k]
                                   /\ kKeys'[k].by = kKeys[k].by /\ kKeys'[k].from = kKeys[k].from,
           kAccount' = kAccount, EndsKept
    PROVE  Ring!Comes(n) /\ Ring!Made(n, by, from, others)
<1>1. statusOf[n] = "none" /\ statusOf'[n] = "active"
  BY DEF statusOf
<1>2. statusOf' = [others EXCEPT ![n] = "active"]
  BY DEF statusOf
<1>3. makerOf' = [makerOf EXCEPT ![n] = by]
  BY DEF makerOf
<1>4. sourceOf' = [sourceOf EXCEPT ![n] = from]
  BY DEF sourceOf
<1> QED BY <1>1, <1>2, <1>3, <1>4 DEF Ring!Comes, Ring!Made, Ring!ends, EndsKept

\* A step that inserts a key while the users row is free for it.
LEMMA RingInserts ==
    ASSUME KInv, RingInv, NEW q \in Requests, FreeForKey(q),
           NEW n \in KeyIds, kKeys[n].status = "none", kKeys'[n].lock = None,
           \A k \in KeyIds \ {n} : /\ Kept(kKeys[k], kKeys'[k], q)
                                   /\ kKeys'[k].lock \in {kKeys[k].lock, None} /\ kKeys'[k].lock # q,
           KDone(q)
    PROVE  RingInv'
<1>0. KTyped
  BY DEF KInv
<1>1. \A k \in KeyIds : kKeys'[k].lock \in {kKeys[k].lock, None, q} /\ kKeys'[k].lock # q
  BY NoneAssumption
<1>2. \A k \in KeyIds : kKeys[k].status # "none" => Kept(kKeys[k], kKeys'[k], q)
  OBVIOUS
<1>3. /\ \A r \in Requests : r # q => kReq'[r] = kReq[r]
      /\ kUserLock' = kUserLock \/ kUserLock \in {None, q}
  BY <1>0, DoneParts
<1>4. RingReq(q, kReq'[q], kKeys', kUserLock')
  <2>1. RingReq(q, KIdle, kKeys', kUserLock')
    BY <1>1, RingIdle
  <2> QED BY <1>0, <2>1, DoneParts
<1> QED BY <1>1, <1>2, <1>3, <1>4, RingKept

\* Inserts of the owner's mints and of the administrator's keys.
LEMMA RingCreate ==
    ASSUME KInv, RingInv, Guarded, NEW q \in Requests, CreateAPIKeyForUser(q) \/ InsertAPIKey(q)
    PROVE  RingInv' /\ RingStep
<1>0. /\ KTyped /\ KReqFine(q, kReq[q], kKeys, kUserLock) /\ RingReq(q, kReq[q], kKeys, kUserLock)
      /\ kAccount' = kAccount /\ KDone(q) /\ kReq[q].step = "insert"
  BY DEF KInv, RingInv, CreateAPIKeyForUser, InsertAPIKey
<1>1. \A k \in KeyIds : kKeys[k].lock # q
  <2>1. kReq[q].op \in {"mint", "admin"}
    BY DEF CreateAPIKeyForUser, InsertAPIKey
  <2> QED BY <1>0, <2>1 DEF RingReq, Rotations
<1>2. EndsKept
  BY <1>0, EndsDone
<1>3. ASSUME kKeys' = kKeys PROVE RingInv' /\ RingStep
  <2>1. \A k \in KeyIds : /\ Kept(kKeys[k], kKeys'[k], q)
                          /\ kKeys'[k].lock \in {kKeys[k].lock, None} /\ kKeys'[k].lock # q
    BY <1>1, <1>3 DEF Kept
  <2> QED BY <1>0, <1>2, <1>3, <2>1, RingDone, SameRing
<1>4. ASSUME NEW by \in {"mint", "admin"}, Room, kKeys' = Inserted(by, 0), FreeForKey(q)
      PROVE  RingInv' /\ \E n \in KeyIds : Ring!Comes(n) /\ Ring!Made(n, by, 0, statusOf)
  <2> DEFINE n == Fresh
             y == [status |-> "active", by |-> by, from |-> 0, lock |-> None]
  <2>1. by \in KeyOrigins /\ 0 \in 0..MaxKeys
    <3>1. 0 \in 0..MaxKeys
      BY NoSource
    <3>2. by \in KeyOrigins
      BY DEF KeyOrigins
    <3> QED BY <3>1, <3>2
  <2>2. n \in KeyIds /\ kKeys[n].status = "none"
    BY <1>4, FreshIsFree
  <2>3. kKeys'[n] = y /\ \A k \in KeyIds \ {n} : kKeys'[k] = kKeys[k]
    BY <1>4, <2>1, NewKey
  <2>4. y.status = "active" /\ y.by = by /\ y.from = 0 /\ y.lock = None
    OBVIOUS
  <2> HIDE DEF y, n
  <2>5. \A k \in KeyIds \ {n} : /\ Kept(kKeys[k], kKeys'[k], q)
                                /\ kKeys'[k].lock \in {kKeys[k].lock, None} /\ kKeys'[k].lock # q
    BY <1>1, <2>3 DEF Kept
  <2>6. RingInv'
    BY <1>0, <1>4, <2>2, <2>3, <2>4, <2>5, RingInserts
  <2>7. statusOf \in [KeyIds -> KeyStatus] /\ \A k \in KeyIds : statusOf[k] = kKeys[k].status
    BY <1>0 DEF statusOf, KTyped, KKey
  <2>8. \A k \in KeyIds \ {n} : /\ kKeys'[k].status = statusOf[k]
                                /\ kKeys'[k].by = kKeys[k].by /\ kKeys'[k].from = kKeys[k].from
    BY <2>3, <2>7
  <2>9. Ring!Comes(n) /\ Ring!Made(n, by, 0, statusOf)
    BY <1>0, <1>2, <2>2, <2>3, <2>4, <2>7, <2>8, KeyRingComes
  <2> QED BY <2>2, <2>6, <2>9
<1>5. CASE CreateAPIKeyForUser(q) /\ kAccount = "active"
  <2>1. Room /\ kKeys' = Inserted("mint", 0) /\ kReq[q].op = "mint"
    BY <1>5 DEF CreateAPIKeyForUser
  <2>2. kUserLock = q /\ Cardinality(Actives(kKeys)) < Quota
    BY <1>0, <2>1 DEF KReqFine, RingReq
  <2>3. FreeForKey(q)
    BY <2>2 DEF FreeForKey
  <2>4. RingInv' /\ \E n \in KeyIds : Ring!Comes(n) /\ Ring!Made(n, "mint", 0, statusOf)
    BY <1>4, <2>1, <2>3
  <2>5. Ring!Active = Actives(kKeys)
    BY DEF Ring!Active, Actives, statusOf
  <2>6. endingNow = {}
    BY <1>0, <1>5, <2>2 DEF endingNow, Guarded
  <2>7. \E n \in KeyIds : Ring!Comes(n) /\ Ring!Mint(n)
    <3>1. PICK n \in KeyIds : Ring!Comes(n) /\ Ring!Made(n, "mint", 0, statusOf)
      BY <2>4
    <3>2. Ring!Cardinality(Ring!Active) = Cardinality(Ring!Active)
      BY DEF Cardinality, Ring!Cardinality
    <3>3. Ring!Cardinality(Ring!Active) < Quota
      BY <2>2, <2>5, <3>2
    <3>4. Ring!Mint(n)
      BY <1>5, <2>6, <3>1, <3>3, Zenon DEF Ring!Mint
    <3> QED BY <3>1, <3>4
  <2> QED BY <2>4, <2>7 DEF RingStep, Ring!Next
<1>6. CASE InsertAPIKey(q) /\ kAccount # "purged"
  <2>1. Room /\ kKeys' = Inserted("admin", 0) /\ FreeForKey(q)
    BY <1>6 DEF InsertAPIKey
  <2>2. RingInv' /\ \E n \in KeyIds : Ring!Comes(n) /\ Ring!Made(n, "admin", 0, statusOf)
    BY <1>4, <2>1
  <2>3. \E n \in KeyIds : Ring!Comes(n) /\ Ring!Create(n)
    BY <1>6, <2>2 DEF Ring!Create
  <2> QED BY <2>2, <2>3 DEF RingStep, Ring!Next
<1> QED BY <1>3, <1>5, <1>6 DEF CreateAPIKeyForUser, InsertAPIKey

\* A rotation ends: the successor comes and the old key, and it alone, goes.
LEMMA RingRotated ==
    ASSUME KInv, RingInv, NEW q \in Requests, RotateInsert(q) \/ Fail(q)
    PROVE  RingInv' /\ RingStep
<1>0. /\ KTyped /\ RingReq(q, kReq[q], kKeys, kUserLock) /\ kReq[q] \in KRequest /\ KDone(q)
      /\ kAccount' = kAccount
  BY DEF KInv, KTyped, RingInv, RotateInsert, Fail
<1>1. CASE kKeys' = Settled(kKeys, q, FALSE)
  <2> DEFINE c == FALSE
  <2>1. c \in BOOLEAN /\ ~c /\ kKeys' = Settled(kKeys, q, c)
    BY <1>1
  <2> HIDE DEF c
  <2> QED BY <1>0, <2>1, RingFail
<1>2. CASE RotateInsert(q) /\ kAccount # "purged"
  <2> DEFINE by == kReq[q].op
             from == kReq[q].key
             n == Fresh
             y == [status |-> "active", by |-> by, from |-> from, lock |-> None]
             c == TRUE
  <2>1. /\ by \in Rotations /\ by \in KeyOrigins /\ from \in 0..MaxKeys /\ Room
        /\ kReq[q].step = "insert" /\ FreeForKey(q)
    BY <1>0, <1>2 DEF RotateInsert, KeyOrigins, KRequest, Rotations
  <2>2. kKeys' = Settled(Inserted(by, from), q, c)
    BY <1>2 DEF RotateInsert
  <2>3. n \in KeyIds /\ kKeys[n].status = "none"
    BY <2>1, FreshIsFree
  <2>4. /\ Inserted(by, from) \in [KeyIds -> KKey]
        /\ Inserted(by, from)[n] = y
        /\ \A k \in KeyIds \ {n} : Inserted(by, from)[k] = kKeys[k]
    <3> HIDE DEF by, from
    <3> QED BY <2>1, NewKey
  <2>5. c \in BOOLEAN /\ c
    OBVIOUS
  <2>6. y.status = "active" /\ y.by = by /\ y.from = from /\ y.lock = None
    OBVIOUS
  <2>7. /\ from \in KeyIds /\ kKeys[from].status # "none"
        /\ \/ kKeys[from].lock = q /\ kKeys[from].status \in Live
           \/ by = "admin rotation" /\ kKeys[from].status = "revoked"
        /\ \A k \in KeyIds : kKeys[k].lock = q => from = k
    BY <1>0, <2>1 DEF RingReq
  <2> HIDE DEF by, from, n, y
  <2>8. kKeys'[n] = y /\ \A k \in KeyIds \ {n} : kKeys'[k] = Settled(kKeys, q, c)[k]
    <3>1. y.lock # q
      BY <2>6, NoneAssumption
    <3> QED BY <2>2, <2>3, <2>4, <3>1 DEF Settled
  <2> HIDE DEF c
  <2>9. ASSUME NEW k \in KeyIds \ {n}
        PROVE  /\ Kept(kKeys[k], kKeys'[k], q)
               /\ kKeys'[k].by = kKeys[k].by /\ kKeys'[k].from = kKeys[k].from
               /\ kKeys'[k].lock \in {kKeys[k].lock, None} /\ kKeys'[k].lock # q
               /\ kKeys[k].lock = q => kKeys'[k].status = "revoked"
               /\ kKeys[k].lock # q => kKeys'[k].status = kKeys[k].status
    <3>1. Kept(kKeys[k], kKeys'[k], q)
      BY <2>5, <2>8, RowSettled
    <3>2. /\ kKeys'[k].by = kKeys[k].by /\ kKeys'[k].from = kKeys[k].from
          /\ kKeys'[k].lock = IF kKeys[k].lock = q THEN None ELSE kKeys[k].lock
          /\ kKeys[k].lock = q => kKeys'[k].status = "revoked"
          /\ kKeys[k].lock # q => kKeys'[k].status = kKeys[k].status
      <4>1. k \in KeyIds /\ kKeys'[k] = Settled(kKeys, q, c)[k]
        BY <2>8
      <4>2. /\ Settled(kKeys, q, c)[k].by = kKeys[k].by /\ Settled(kKeys, q, c)[k].from = kKeys[k].from
            /\ Settled(kKeys, q, c)[k].lock = IF kKeys[k].lock = q THEN None ELSE kKeys[k].lock
            /\ kKeys[k].lock = q /\ c => Settled(kKeys, q, c)[k].status = "revoked"
            /\ ~(kKeys[k].lock = q /\ c) => Settled(kKeys, q, c)[k].status = kKeys[k].status
        BY <2>5, <4>1, SettledRows
      <4> QED BY <2>5, <4>1, <4>2
    <3> QED BY <3>1, <3>2, NoneAssumption
  <2>15. EndsKept
    BY <1>0, <2>1, EndsDone
  <2>10. RingInv'
    BY <1>0, <2>1, <2>3, <2>6, <2>8, <2>9, RingInserts
  <2>11. statusOf \in [KeyIds -> KeyStatus] /\ \A k \in KeyIds : statusOf[k] = kKeys[k].status
    BY <1>0 DEF statusOf, KTyped, KKey
  <2>12. kKeys'[n].status = "active" /\ kKeys'[n].by = by /\ kKeys'[n].from = from
    BY <2>6, <2>8
  <2>13. CASE kKeys[from].lock = q /\ kKeys[from].status \in Live
    <3> DEFINE others == [statusOf EXCEPT ![from] = "revoked"]
    <3>1. /\ others \in [KeyIds -> KeyStatus]
          /\ \A k \in KeyIds : others[k] = IF k = from THEN "revoked" ELSE kKeys[k].status
      BY <2>11 DEF KeyStatus
    <3>2. \A k \in KeyIds \ {n} : /\ kKeys'[k].status = others[k]
                                  /\ kKeys'[k].by = kKeys[k].by /\ kKeys'[k].from = kKeys[k].from
      BY <2>7, <2>9, <2>13, <3>1
    <3> HIDE DEF others
    <3>3. Ring!Comes(n) /\ Ring!Made(n, by, from, others)
      BY <1>0, <2>3, <2>12, <2>15, <3>1, <3>2, KeyRingComes
    <3>4. Ring!InUse(from)
      BY <2>7, <2>11, <2>13 DEF Ring!InUse, Live
    <3>5. Ring!Rotate(n, from, by)
      BY <1>2, <3>3, <3>4 DEF Ring!Rotate, others
    <3> QED BY <2>1, <2>3, <2>7, <2>10, <3>3, <3>5 DEF RingStep, Ring!Next, Rotations
  <2>14. CASE by = "admin rotation" /\ kKeys[from].status = "revoked"
    <3>1. \A k \in KeyIds \ {n} : /\ kKeys'[k].status = statusOf[k]
                                  /\ kKeys'[k].by = kKeys[k].by /\ kKeys'[k].from = kKeys[k].from
      BY <2>7, <2>9, <2>11, <2>14
    <3>2. Ring!Comes(n) /\ Ring!Made(n, by, from, statusOf)
      BY <1>0, <2>3, <2>11, <2>12, <2>15, <3>1, KeyRingComes
    <3>3. Ring!Replace(n, from)
      BY <1>2, <2>7, <2>11, <2>14, <3>2 DEF Ring!Replace
    <3> QED BY <2>3, <2>7, <2>10, <3>2, <3>3 DEF RingStep, Ring!Next
  <2> QED BY <2>7, <2>13, <2>14
<1> QED BY <1>1, <1>2 DEF RotateInsert, Fail

\* The initial states satisfy the invariant, and are initial for KeyRing.
LEMMA RingInit == KInit => RingInv /\ Ring!Init
<1> SUFFICES ASSUME KInit PROVE RingInv /\ Ring!Init
  OBVIOUS
<1>1. NoKey.status = "none" /\ NoKey.by = None /\ NoKey.from = 0 /\ NoKey.lock = None
  BY DEF NoKey
<1>2. \A k \in KeyIds : kKeys[k] = NoKey
  BY DEF KInit
<1>3. \A q \in Requests : kReq[q] = KIdle /\ \A k \in KeyIds : kKeys[k].lock # q
  BY <1>1, <1>2, NoneAssumption DEF KInit
<1>4. RingInv
  BY <1>3, RingIdle DEF RingInv
<1>5. Ring!Init
  <2>1. endingNow = {}
    BY <1>3, KIdleFits DEF endingNow
  <2>2. sawOf = [q \in Requests |-> {}]
    BY <2>1 DEF sawOf
  <2> QED BY <1>1, <1>2, <2>1, <2>2 DEF Ring!Init, KInit, statusOf, makerOf, sourceOf
<1> QED BY <1>4, <1>5

\* A step of q keeps deletions guarded if it takes nobody's lock and revives no
\* account.
LEMMA GuardedStep ==
    ASSUME Guarded, NEW q, kUserLock' = kUserLock \/ kUserLock \in {None, q},
           \A r \in Requests : r # q => kReq'[r] = kReq[r],
           kAccount' = "active" => kAccount = "active",
           q \in Requests /\ kReq'[q].step \in {"snapshot keys", "revoke all"} /\ kAccount' = "active" => kUserLock' = q
    PROVE  Guarded'
<1> SUFFICES ASSUME NEW r \in Requests, kReq'[r].step \in {"snapshot keys", "revoke all"}, kAccount' = "active"
             PROVE  kUserLock' = r
  BY DEF Guarded
<1>1. CASE r = q
  BY <1>1
<1>2. CASE r # q
  <2>1. kUserLock = r
    BY <1>2 DEF Guarded
  <2> QED BY <1>2, <2>1, NoneAssumption
<1> QED BY <1>1, <1>2

\* Every step keeps them guarded.
LEMMA GuardedNext == KInv /\ Guarded /\ [KNext]_kVars => Guarded'
<1> SUFFICES ASSUME KInv, Guarded, [KNext]_kVars PROVE Guarded'
  OBVIOUS
<1>0. KTyped /\ kReq \in [Requests -> KRequest]
  BY DEF KInv, KTyped
<1>1. CASE UNCHANGED kVars \/ \E k \in KeyIds : Expire(k)
  BY <1>1, GuardedStep, NoneAssumption DEF kVars, Expire, Guarded
<1>2. ASSUME NEW q \in Requests, KDone(q), kAccount' = "active" => kAccount = "active" PROVE Guarded'
  BY <1>0, <1>2, DoneParts, KIdleFits, GuardedStep
<1>3. ASSUME NEW q \in Requests, NEW x, kReq' = [kReq EXCEPT ![q] = x], x.step \notin {"snapshot keys", "revoke all"},
             kUserLock' = kUserLock \/ kUserLock \in {None, q}, kAccount' = kAccount
      PROVE  Guarded'
  BY <1>0, <1>3, GuardedStep
<1>4. ASSUME NEW q \in Requests, NEW st, st \notin {"snapshot keys", "revoke all"},
             kReq' = [kReq EXCEPT ![q].step = st],
             kUserLock' = kUserLock \/ kUserLock \in {None, q}, kAccount' = kAccount
      PROVE  Guarded'
  <2>1. kReq'[q].step = st /\ \A r \in Requests : r # q => kReq'[r] = kReq[r]
    BY <1>0, <1>4 DEF KRequest
  <2> QED BY <1>4, <2>1, GuardedStep
<1>5. ASSUME NEW q \in Requests,
             \/ CreateMyAPIKey(q) \/ CreateAPIKey(q) \/ SoftDeleteUser(q) \/ ResyncUserRole(q)
             \/ \E k \in KeyIds : RotateMyAPIKey(q, k) \/ RotateAPIKeyRequest(q, k)
      PROVE  Guarded'
  <2>0. \E op, key : \/ Begin(q, op, key, "lock user") \/ Begin(q, op, key, "insert")
                     \/ Begin(q, op, key, "delete user") \/ Begin(q, op, key, "list keys")
                     \/ Begin(q, op, key, "revoke old") \/ Begin(q, op, key, "read old")
    <3> HIDE DEF Begin
    <3> QED BY <1>5, Zenon
      DEF CreateMyAPIKey, CreateAPIKey, SoftDeleteUser, ResyncUserRole, RotateMyAPIKey, RotateAPIKeyRequest
  <2>1. PICK op, key, step : Begin(q, op, key, step) /\ step \notin {"snapshot keys", "revoke all"}
    <3>1. PICK op, key : \/ Begin(q, op, key, "lock user") \/ Begin(q, op, key, "insert")
                         \/ Begin(q, op, key, "delete user") \/ Begin(q, op, key, "list keys")
                         \/ Begin(q, op, key, "revoke old") \/ Begin(q, op, key, "read old")
      BY <2>0
    <3>2. \E step \in {"lock user", "insert", "delete user", "list keys", "revoke old", "read old"} :
            Begin(q, op, key, step)
      BY <3>1, Zenon
    <3> QED BY <3>2
  <2> DEFINE x == [KIdle EXCEPT !.op = op, !.key = key, !.step = step]
  <2>2. x.step = step
    BY DEF KIdle
  <2>3. kReq' = [kReq EXCEPT ![q] = x] /\ UNCHANGED <<kAccount, kUserLock>>
    BY <2>1 DEF Begin
  <2> HIDE DEF x
  <2> QED BY <1>3, <2>1, <2>2, <2>3
<1>6. ASSUME NEW q \in Requests, LockUser(q) \/ CountKeys(q) \/ AdminReadOld(q) \/ OwnRevoke(q) \/ AdminRevoke(q)
      PROVE  Guarded'
  <2>1. /\ kAccount' = kAccount
        /\ \/ KDone(q)
           \/ /\ kUserLock' = kUserLock \/ kUserLock \in {None, q}
              /\ \E st \in {"count", "insert", "revoke old"} : kReq' = [kReq EXCEPT ![q].step = st]
    BY <1>6, Zenon DEF LockUser, CountKeys, AdminReadOld, OwnRevoke, AdminRevoke, FreeUser
  <2> QED BY <1>2, <1>4, <2>1
<1>7. ASSUME NEW q \in Requests,
             CreateAPIKeyForUser(q) \/ InsertAPIKey(q) \/ RotateInsert(q) \/ Fail(q) \/ DeleteCommit(q)
      PROVE  Guarded'
  <2>1. KDone(q) /\ (kAccount' = "active" => kAccount = "active")
    BY <1>7 DEF CreateAPIKeyForUser, InsertAPIKey, RotateInsert, Fail, DeleteCommit
  <2> QED BY <1>2, <2>1
<1>8. ASSUME NEW q \in Requests, PurgeUser(q) \/ \E k \in KeyIds : RevokeAPIKey(q, k) PROVE Guarded'
  BY <1>8 DEF PurgeUser, RevokeAPIKey, Guarded
<1>9. ASSUME NEW q \in Requests, DeleteUser(q) PROVE Guarded'
  <2>1. /\ kAccount' = kAccount /\ kUserLock \in {None, q} /\ (kAccount = "active" => kUserLock' = q)
        /\ \A r \in Requests : r # q => kReq'[r] = kReq[r]
    BY <1>0, <1>9 DEF DeleteUser, FreeUser
  <2> QED BY <2>1, GuardedStep
<1>10. ASSUME NEW q \in Requests, SnapshotKeys(q) PROVE Guarded'
  <2>1. /\ kAccount' = kAccount /\ kUserLock' = kUserLock /\ kReq[q].step = "snapshot keys"
        /\ \A r \in Requests : r # q => kReq'[r] = kReq[r]
    BY <1>0, <1>10 DEF SnapshotKeys
  <2>2. kAccount = "active" => kUserLock = q
    BY <2>1 DEF Guarded
  <2> QED BY <2>1, <2>2, GuardedStep
<1>11. ASSUME NEW q \in Requests, ListAPIKeys(q) PROVE Guarded'
  <2>1. PICK seen : kReq' = [kReq EXCEPT ![q].seen = seen, ![q].step = "revoke each"]
    BY <1>11 DEF ListAPIKeys
  <2>2. UNCHANGED <<kUserLock, kAccount>>
    BY <1>11 DEF ListAPIKeys
  <2>3. kReq'[q].step = "revoke each" /\ \A r \in Requests : r # q => kReq'[r] = kReq[r]
    BY <1>0, <2>1 DEF KRequest
  <2> QED BY <2>2, <2>3, GuardedStep
<1>12. ASSUME NEW q \in Requests, ResyncRevoke(q) PROVE Guarded'
  <2>1. CASE KDone(q)
    BY <1>2, <1>12, <2>1 DEF ResyncRevoke
  <2>2. CASE ~KDone(q)
    <3>1. PICK k : kReq' = [kReq EXCEPT ![q].seen = @ \ {k}]
      BY <1>12, <2>2 DEF ResyncRevoke
    <3>2. kReq[q].step = "revoke each" /\ UNCHANGED <<kUserLock, kAccount>>
      BY <1>12, <2>2 DEF ResyncRevoke
    <3>3. kReq'[q].step = kReq[q].step /\ \A r \in Requests : r # q => kReq'[r] = kReq[r]
      BY <1>0, <3>1 DEF KRequest
    <3> QED BY <3>2, <3>3, GuardedStep
  <2> QED BY <2>1, <2>2
<1> QED BY <1>1, <1>5, <1>6, <1>7, <1>8, <1>9, <1>10, <1>11, <1>12, Zenon DEF KNext

\* At first nobody deletes.
LEMMA GuardedInit == KInit => Guarded
BY KIdleFits DEF KInit, Guarded

\* Every step keeps the invariant and is a step of KeyRing, or none.
LEMMA RingNext == KInv /\ RingInv /\ Guarded /\ [KNext]_kVars => RingInv' /\ RingStep
BY RingBegin, RingRead, RingRevokeOld, RingCreate, RingRotated, RingRevoked, RingExpire DEF KNext

\* The statements of any number of concurrent requests, on any number of keys,
\* implement the account's keys as KeyRing has them: mints below the quota and
\* never past a deletion's look, rotations that retire one key for one, and
\* deletions that retire every key they saw and others have left.
THEOREM KeysImplementRing == KSpec => ImplementsKeyRing
<1>1. RingStep => [Ring!Next]_(Ring!ringVars)
  BY DEF RingStep
<1> QED BY <1>1, RingInit, RingNext, GuardedInit, GuardedNext, KInitInv, KNextInv, PTL
    DEF KSpec, ImplementsKeyRing, Ring!Spec

-----------------------------------------------------------------------------
(***************************************************************************)
(* The stored constitution.  Unless a client gave it, the hash of a row is *)
(* that of its entry, or "none", which no document hashes to.              *)
(***************************************************************************)
ConstitutionRow == [there : BOOLEAN, entry : Entries, url : BOOLEAN, hash : Hashes]
RefreshSteps == {"idle", "fetched", "write", "unchanged", "would change", "changed"}
RefreshRequest == [step : RefreshSteps, layer : CLayers \cup {None}, doc : Documents, dry : BOOLEAN]

HashFits(row) == row.hash # "none" => row.there /\ row.hash = Hash(row.entry)
LayerKnown(q) == q.step \in {"fetched", "write"} => q.layer \in CLayers

CoInv ==
    /\ cRemote \in Documents
    /\ cRows \in [CLayers -> ConstitutionRow]
    /\ cReq \in [Requests -> RefreshRequest]
    /\ cGiven \subseteq CLayers
    /\ \A l \in CLayers \ cGiven : HashFits(cRows[l])
    /\ \A q \in Requests : LayerKnown(cReq[q])

\* What is parsed is an entry, and the hash tells entries apart.
LEMMA HashTells ==
  /\ \A doc \in Documents : FromYAML(doc) \in Entries
  /\ \A e \in Entries : Hash(e) \in Hashes \ {"none"}
  /\ \A d, e \in Entries : Hash(d) = Hash(e) => d = e
<1>1. \A doc \in Documents : FromYAML(doc) \in Entries
  BY DEF FromYAML, Documents, Entries
<1>2. /\ Hash("none") = "h0" /\ Hash("v1") = "h1" /\ Hash("blank") = "h2"
  BY DEF Hash
<1> QED BY <1>1, <1>2 DEF Entries, Hashes

\* A layer that is written has the hash of what is written.
LEMMA StoreInv ==
  ASSUME CoInv, NEW l \in CLayers, NEW entry \in Entries, NEW url \in BOOLEAN, NEW hash \in Hashes,
         cRows' = [cRows EXCEPT ![l] = Upserted(@, entry, url, hash)],
         cGiven' \in {cGiven \ {l}, cGiven \cup {l}},
         l \notin cGiven' => hash \in {"none", Hash(entry)}
  PROVE  /\ cRows' \in [CLayers -> ConstitutionRow] /\ cGiven' \subseteq CLayers
         /\ \A k \in CLayers \ cGiven' : HashFits(cRows'[k])
<1> DEFINE yes == TRUE
           row == [there |-> yes, entry |-> entry, url |-> url, hash |-> hash]
<1>1. cRows' = [cRows EXCEPT ![l] = row]
  BY DEF Upserted
<1>2. l \notin cGiven' => HashFits(row)
  BY DEF HashFits
<1>3. yes \in BOOLEAN
  OBVIOUS
<1> HIDE DEF yes
<1>4. row \in ConstitutionRow
  BY <1>3 DEF ConstitutionRow
<1> HIDE DEF row, HashFits
<1>5. cRows' \in [CLayers -> ConstitutionRow] /\ cRows'[l] = row /\ \A k \in CLayers : k # l => cRows'[k] = cRows[k]
  BY <1>1, <1>4 DEF CoInv
<1>6. cGiven' \subseteq CLayers /\ \A k \in CLayers : k # l => (k \in cGiven' <=> k \in cGiven)
  BY DEF CoInv
<1> QED BY <1>2, <1>5, <1>6 DEF CoInv

\* A request that the constitution forgets.
LEMMA CIdleFine ==
  ASSUME NEW s \in RefreshSteps, s \notin {"fetched", "write"}
  PROVE  /\ [CIdle EXCEPT !.step = s] \in RefreshRequest
         /\ LayerKnown([CIdle EXCEPT !.step = s])
         /\ [CIdle EXCEPT !.step = s].step = s
<1> DEFINE no == FALSE
<1>1. CIdle = [step |-> "idle", layer |-> None, doc |-> "none", dry |-> no]
  BY DEF CIdle
<1>2. no \in BOOLEAN /\ "none" \in Documents
  BY DEF Documents
<1> HIDE DEF no
<1>3. [CIdle EXCEPT !.step = s] = [step |-> s, layer |-> None, doc |-> "none", dry |-> no]
  BY <1>1
<1>4. [step |-> s, layer |-> None, doc |-> "none", dry |-> no] \in RefreshRequest
  BY <1>2 DEF RefreshRequest
<1> QED BY <1>3, <1>4 DEF LayerKnown

\* A request that moves.
LEMMA RequestMoves ==
  ASSUME CoInv, NEW q \in Requests, NEW f \in RefreshRequest, LayerKnown(f), cReq' = [cReq EXCEPT ![q] = f]
  PROVE  /\ cReq' \in [Requests -> RefreshRequest] /\ \A p \in Requests : LayerKnown(cReq'[p])
         /\ \A p \in Requests : cReq'[p] = IF p = q THEN f ELSE cReq[p]
BY DEF CoInv

\* RefreshCompare: a step to "unchanged" has found the hash of its document.
LEMMA CompareInv ==
  ASSUME CoInv, NEW q \in Requests, RefreshCompare(q)
  PROVE  /\ CoInv'
         /\ \A p \in Requests : cReq'[p].step = "unchanged" /\ cReq[p].step = "fetched" =>
              p = q /\ cRows[cReq[q].layer].hash = Hash(FromYAML(cReq[q].doc))
<1> DEFINE r == cReq[q]
           same == cRows[r.layer].hash = Hash(FromYAML(r.doc))
           f == IF same THEN [CIdle EXCEPT !.step = "unchanged"]
                ELSE IF r.dry THEN [CIdle EXCEPT !.step = "would change"]
                ELSE [r EXCEPT !.step = "write"]
<1>1. r.step = "fetched" /\ cReq' = [cReq EXCEPT ![q] = f] /\ UNCHANGED <<cRemote, cRows, cGiven>>
  BY DEF RefreshCompare
<1>2. r \in RefreshRequest /\ LayerKnown(r)
  BY DEF CoInv
<1> HIDE DEF r
<1>3. [r EXCEPT !.step = "write"] \in RefreshRequest /\ LayerKnown([r EXCEPT !.step = "write"])
      /\ [r EXCEPT !.step = "write"].step = "write"
  BY <1>1, <1>2 DEF RefreshRequest, RefreshSteps, LayerKnown
<1>4. \A s \in {"unchanged", "would change"} :
        /\ [CIdle EXCEPT !.step = s] \in RefreshRequest /\ LayerKnown([CIdle EXCEPT !.step = s])
        /\ [CIdle EXCEPT !.step = s].step = s
  BY CIdleFine DEF RefreshSteps
<1>5. f \in RefreshRequest /\ LayerKnown(f) /\ (f.step = "unchanged" => same)
  <2>1. CASE same
    BY <1>4, <2>1
  <2>2. CASE ~same /\ r.dry
    BY <1>4, <2>2
  <2>3. CASE ~same /\ ~r.dry
    BY <1>3, <2>3
  <2> QED BY <2>1, <2>2, <2>3
<1> HIDE DEF f, same
<1>6. /\ cReq' \in [Requests -> RefreshRequest] /\ \A p \in Requests : LayerKnown(cReq'[p])
      /\ \A p \in Requests : cReq'[p] = IF p = q THEN f ELSE cReq[p]
  BY <1>1, <1>5, RequestMoves
<1>7. CoInv'
  BY <1>1, <1>6 DEF CoInv
<1> QED BY <1>5, <1>6, <1>7 DEF r, same

\* Every other step leaves no request at "unchanged" that was fetching.
LEMMA CoNextInv ==
  ASSUME CoInv, [CoNext]_coVars
  PROVE  /\ CoInv'
         /\ \A p \in Requests : cReq'[p].step = "unchanged" /\ cReq[p].step = "fetched" =>
              /\ cRows[cReq[p].layer].hash = Hash(FromYAML(cReq[p].doc))
              /\ cRows' = cRows
<1>1. CASE SourceChanges \/ \E e \in Mentions : MergeLayers(e)
  BY <1>1 DEF MergeLayers, SourceChanges, CoInv
<1>2. ASSUME NEW l \in CLayers, NEW entry \in Entries, NEW url \in BOOLEAN, NEW hash \in Hashes,
             UpdateConstitution(l, entry, url, hash)
      PROVE  CoInv' /\ cReq' = cReq
  <2>1. /\ cRows' = [cRows EXCEPT ![l] = Upserted(@, entry, url, hash)]
        /\ cGiven' = (IF hash = "none" THEN cGiven \ {l} ELSE cGiven \cup {l})
        /\ UNCHANGED <<cRemote, cReq>>
    BY <1>2 DEF UpdateConstitution
  <2>2. cGiven' \in {cGiven \ {l}, cGiven \cup {l}} /\ (l \notin cGiven' => hash \in {"none", Hash(entry)})
    BY <2>1
  <2>3. /\ cRows' \in [CLayers -> ConstitutionRow] /\ cGiven' \subseteq CLayers
        /\ \A k \in CLayers \ cGiven' : HashFits(cRows'[k])
    BY <2>1, <2>2, StoreInv
  <2> QED BY <2>1, <2>3 DEF CoInv
<1>7. ASSUME NEW l \in CLayers, NEW doc \in Documents, importConstitution(l, doc)
      PROVE  CoInv' /\ cReq' = cReq
  <2> DEFINE no == FALSE
             entry == FromYAML(doc)
             hash == "none"
  <2>1. UpdateConstitution(l, entry, no, hash) /\ no \in BOOLEAN /\ entry \in Entries /\ hash \in Hashes
    BY <1>7, HashTells DEF importConstitution, Hashes
  <2> HIDE DEF no, entry, hash
  <2> QED BY <2>1, <1>2
<1>3. ASSUME NEW l \in CLayers, NEW q \in Requests, NEW dry \in BOOLEAN,
             RefreshConstitutionLayer(q, l, dry) \/ syncConstitution(q, l, dry)
      PROVE  /\ CoInv'
             /\ \A p \in Requests : cReq'[p].step = "unchanged" => cReq[p].step = "unchanged"
  <2> DEFINE f == [step |-> "fetched", layer |-> l, doc |-> cRemote, dry |-> dry]
  <2>1. cReq' = [cReq EXCEPT ![q] = f] /\ UNCHANGED <<cRemote, cRows, cGiven>>
    BY <1>3 DEF RefreshConstitutionLayer, syncConstitution, Fetch
  <2>2. f \in RefreshRequest /\ LayerKnown(f) /\ f.step = "fetched"
    <3>1. cRemote \in Documents
      BY DEF CoInv
    <3> QED BY <3>1 DEF RefreshRequest, RefreshSteps, LayerKnown
  <2> HIDE DEF f
  <2>3. /\ cReq' \in [Requests -> RefreshRequest] /\ \A p \in Requests : LayerKnown(cReq'[p])
        /\ \A p \in Requests : cReq'[p] = IF p = q THEN f ELSE cReq[p]
    BY <2>1, <2>2, RequestMoves
  <2> QED BY <2>1, <2>2, <2>3 DEF CoInv
<1>4. ASSUME NEW q \in Requests, RefreshCompare(q)
      PROVE  /\ CoInv' /\ cRows' = cRows
             /\ \A p \in Requests : cReq'[p].step = "unchanged" /\ cReq[p].step = "fetched" =>
                  cRows[cReq[p].layer].hash = Hash(FromYAML(cReq[p].doc))
  <2>1. cRows' = cRows
    BY <1>4 DEF RefreshCompare
  <2> QED BY <1>4, <2>1, CompareInv
<1>5. ASSUME NEW q \in Requests, RefreshWrite(q)
      PROVE  /\ CoInv'
             /\ \A p \in Requests : cReq'[p].step = "unchanged" => cReq[p].step = "unchanged"
  <2> DEFINE f == [CIdle EXCEPT !.step = "changed"]
             yes == TRUE
             l == cReq[q].layer
             doc == cReq[q].doc
             entry == FromYAML(doc)
             hash == Hash(entry)
  <2>1. /\ cReq[q].step = "write" /\ cRows' = [cRows EXCEPT ![l] = Upserted(@, entry, yes, hash)]
        /\ cGiven' = cGiven \ {l}
        /\ cReq' = [cReq EXCEPT ![q] = f] /\ UNCHANGED cRemote
    BY <1>5 DEF RefreshWrite
  <2>2. f \in RefreshRequest /\ LayerKnown(f) /\ f.step = "changed"
    BY CIdleFine DEF RefreshSteps
  <2>3. l \in CLayers /\ doc \in Documents /\ yes \in BOOLEAN
    <3>1. cReq[q] \in RefreshRequest /\ LayerKnown(cReq[q])
      BY DEF CoInv
    <3> QED BY <2>1, <3>1 DEF RefreshRequest, LayerKnown
  <2>6. entry \in Entries /\ hash \in Hashes /\ hash = Hash(entry)
    BY <2>3, HashTells
  <2> HIDE DEF f, yes, l, doc, entry, hash
  <2>4. /\ cRows' \in [CLayers -> ConstitutionRow] /\ cGiven' \subseteq CLayers
        /\ \A k \in CLayers \ cGiven' : HashFits(cRows'[k])
    <3>1. cGiven' \in {cGiven \ {l}, cGiven \cup {l}} /\ hash \in {"none", Hash(entry)}
      BY <2>1, <2>6
    <3> QED BY <2>1, <2>3, <2>6, <3>1, StoreInv
  <2>5. /\ cReq' \in [Requests -> RefreshRequest] /\ \A p \in Requests : LayerKnown(cReq'[p])
        /\ \A p \in Requests : cReq'[p] = IF p = q THEN f ELSE cReq[p]
    BY <2>1, <2>2, RequestMoves
  <2> QED BY <2>1, <2>2, <2>4, <2>5 DEF CoInv
<1>6. CASE UNCHANGED coVars
  BY <1>6 DEF coVars, CoInv
<1>8. (\A l \in SentLayers : l \in CLayers) /\ \A hash \in {"none"} \cup SentHashes : hash \in Hashes
  BY LayersAssumption DEF Hashes
<1> QED BY <1>1, <1>2, <1>3, <1>4, <1>5, <1>6, <1>7, <1>8 DEF CoNext

\* The first state.
LEMMA CoInitInv ==
  ASSUME CoInit
  PROVE  CoInv
<1> DEFINE no == FALSE
<1>1. NoConstitution = [there |-> no, entry |-> "none", url |-> no, hash |-> "none"]
  BY DEF NoConstitution
<1>2. no \in BOOLEAN /\ "none" \in Entries /\ "none" \in Documents
  BY DEF Entries, Documents
<1>3. CIdle = [step |-> "idle", layer |-> None, doc |-> "none", dry |-> no]
  BY DEF CIdle
<1> HIDE DEF no
<1>4. NoConstitution \in ConstitutionRow /\ HashFits(NoConstitution)
  BY <1>1, <1>2 DEF ConstitutionRow, HashFits, Hashes
<1>5. CIdle \in RefreshRequest /\ LayerKnown(CIdle)
  BY <1>2, <1>3 DEF RefreshRequest, RefreshSteps, LayerKnown
<1> HIDE DEF HashFits, LayerKnown
<1> QED BY <1>4, <1>5 DEF CoInit, CoInv

\* A refresh that reports a layer as unchanged finds in it what it fetched, for
\* any number of requests and whatever they, imports and other clients write
\* meanwhile, unless the hash it compared with came from a client.
THEOREM UnchangedLayersAreSame == CoSpec => UnchangedMeansSame
<1>1. ASSUME CoInv, [CoNext]_coVars, NEW q \in Requests,
             cReq[q].step = "fetched", cReq'[q].step = "unchanged", cReq[q].layer \notin cGiven
      PROVE  /\ cRows'[cReq[q].layer].there
             /\ cRows'[cReq[q].layer].entry = FromYAML(cReq[q].doc)
  <2> DEFINE l == cReq[q].layer
             doc == cReq[q].doc
  <2>1. cRows[l].hash = Hash(FromYAML(doc)) /\ cRows' = cRows
    BY <1>1, CoNextInv
  <2>2. l \in CLayers \ cGiven /\ doc \in Documents
    <3>1. cReq[q] \in RefreshRequest /\ LayerKnown(cReq[q])
      BY <1>1 DEF CoInv
    <3> QED BY <1>1, <3>1 DEF RefreshRequest, LayerKnown
  <2> HIDE DEF l, doc
  <2>3. cRows[l] \in ConstitutionRow /\ HashFits(cRows[l])
    BY <1>1, <2>2 DEF CoInv
  <2>4. cRows[l].entry \in Entries /\ FromYAML(doc) \in Entries /\ cRows[l].hash # "none"
    BY <2>1, <2>2, <2>3, HashTells DEF ConstitutionRow
  <2>5. cRows[l].there /\ cRows[l].entry = FromYAML(doc)
    BY <2>1, <2>3, <2>4, HashTells DEF HashFits
  <2> QED BY <2>1, <2>5 DEF l, doc
<1>2. CoInv /\ [CoNext]_coVars =>
        [\A q \in Requests :
           cReq[q].step = "fetched" /\ cReq'[q].step = "unchanged" =>
              \/ cReq[q].layer \in cGiven
              \/ /\ cRows'[cReq[q].layer].there
                 /\ cRows'[cReq[q].layer].entry = FromYAML(cReq[q].doc)]_coVars
  BY <1>1
<1>3. CoInv /\ [CoNext]_coVars => CoInv'
  BY CoNextInv
<1> QED BY <1>2, <1>3, CoInitInv, PTL DEF CoSpec, UnchangedMeansSame
-----------------------------------------------------------------------------
(***************************************************************************)
(* The merge of the layers.  What the loop knows after each entry it has   *)
(* read: keyed lists hold the entries that stand, each under its key and   *)
(* in the order in which keys came in, and of a key that is not there that *)
(* it was deleted if it was ever said; string lists hold what was said     *)
(* first, scalars and maps what was said last.                             *)
(***************************************************************************)
\* removeString of a string that is there once.
LEMMA RemovedOnce ==
    ASSUME NEW S, NEW o \in Seq(S), NEW i \in 1..Len(o), \A j \in 1..Len(o) : o[j] = o[i] => j = i
    PROVE  LET r == RemoveFirst(o, o[i]) IN
           /\ r \in Seq(S) /\ Len(r) = Len(o) - 1
           /\ \A j \in 1..Len(r) : r[j] = IF j < i THEN o[j] ELSE o[j + 1]
<1> DEFINE a == SubSeq(o, 1, i - 1)
           b == SubSeq(o, i + 1, Len(o))
           n == Len(o)
           I == {j \in 1..Len(o) : o[j] = o[i]}
<1>1. RemoveFirst(o, o[i]) = a \o b
  <2>1. I = {i} /\ Min({i}) = i
    BY DEF Min
  <2>2. RemoveFirst(o, o[i]) = RemoveAt(o, IF I # {} THEN Min(I) ELSE 0)
    BY DEF RemoveFirst, SelectInSeq
  <2>3. (IF I # {} THEN Min(I) ELSE 0) = i
    BY <2>1
  <2> HIDE DEF I
  <2>4. RemoveFirst(o, o[i]) = RemoveAt(o, i)
    BY <2>2, <2>3
  <2> QED BY <2>4 DEF RemoveAt
<1>2. n \in Nat /\ i \in 1..n
  OBVIOUS
<1>3. \A j \in 1..n : o[j] \in S
  OBVIOUS
<1>4. a \in Seq(S) /\ Len(a) = i - 1 /\ \A j \in 1..(i - 1) : a[j] = o[j]
  OBVIOUS
<1>5. b \in Seq(S) /\ Len(b) = n - i /\ \A j \in 1..(n - i) : b[j] = o[i + j]
  <2>1. b = [j \in 1..(n - (i + 1) + 1) |-> o[(i + 1) + j - 1]]
    OBVIOUS
  <2> QED OBVIOUS
<1> HIDE DEF a, b
<1>6. a \o b \in Seq(S) /\ Len(a \o b) = n - 1
  <2>1. a \o b \in Seq(S) /\ Len(a \o b) = Len(a) + Len(b)
    BY <1>4, <1>5, ConcatProperties
  <2> QED BY <1>2, <1>4, <1>5, <2>1
<1>7. ASSUME NEW j \in 1..(n - 1) PROVE (a \o b)[j] = IF j < i THEN o[j] ELSE o[j + 1]
  <2>1. (a \o b)[j] = IF j <= i - 1 THEN a[j] ELSE b[j - (i - 1)]
    BY <1>2, <1>4, <1>5
  <2>2. CASE j < i
    BY <1>2, <1>4, <2>1, <2>2
  <2>3. CASE ~(j < i)
    <3>1. j - (i - 1) \in 1..(n - i) /\ i + (j - (i - 1)) = j + 1
      BY <1>2, <2>3
    <3>2. b[j - (i - 1)] = o[i + (j - (i - 1))]
      BY <1>5, <3>1
    <3>3. (a \o b)[j] = b[j - (i - 1)]
      BY <1>2, <2>1, <2>3
    <3> QED BY <2>3, <3>1, <3>2, <3>3
  <2> QED BY <2>2, <2>3
<1> QED BY <1>1, <1>6, <1>7

\* The entry that is read last.
LEMMA SaidMore ==
    ASSUME NEW s \in Seq(Mentions), NEW e \in Mentions
    PROVE  /\ Append(s, e) \in Seq(Mentions) /\ Len(s) \in Nat /\ Len(Append(s, e)) = Len(s) + 1
           /\ \A i \in 1..Len(s) : Append(s, e)[i] = s[i]
           /\ Append(s, e)[Len(s) + 1] = e
OBVIOUS

\* It stands, unless it is a tombstone or has no key, and for its key it stands alone.
LEMMA StandsMore ==
    ASSUME NEW s \in Seq(Mentions), NEW e \in Mentions
    PROVE  Stands(Append(s, e)) =
             {p \in Stands(s) : s[p].key # e.key} \cup (IF e.key = "" \/ e.delete THEN {} ELSE {Len(s) + 1})
<1> DEFINE t == Append(s, e)
           n == Len(s)
<1>1. /\ n \in Nat /\ Len(t) = n + 1 /\ \A i \in 1..n : t[i] = s[i]
      /\ t[n + 1] = e
  BY SaidMore
<1> HIDE DEF t, n
<1>2. ASSUME NEW p \in 1..n PROVE p \in Stands(t) <=> p \in Stands(s) /\ s[p].key # e.key
  <2>1. p \in 1..(n + 1) /\ p <= n /\ t[p] = s[p]
    BY <1>1
  <2>2. (\A j \in p + 1 .. n + 1 : t[j].key # s[p].key) <=> (\A j \in p + 1 .. n : s[j].key # s[p].key) /\ e.key # s[p].key
    <3>1. ASSUME \A j \in p + 1 .. n + 1 : t[j].key # s[p].key
          PROVE  (\A j \in p + 1 .. n : s[j].key # s[p].key) /\ e.key # s[p].key
      <4>1. n + 1 \in p + 1 .. n + 1
        BY <1>1, <2>1
      <4>2. e.key # s[p].key
        BY <1>1, <3>1, <4>1
      <4>3. ASSUME NEW j \in p + 1 .. n PROVE s[j].key # s[p].key
        <5>1. j \in p + 1 .. n + 1 /\ j \in 1..n
          BY <1>1
        <5> QED BY <1>1, <3>1, <5>1
      <4> QED BY <4>2, <4>3
    <3>2. ASSUME \A j \in p + 1 .. n : s[j].key # s[p].key, e.key # s[p].key, NEW j \in p + 1 .. n + 1
          PROVE  t[j].key # s[p].key
      <4>1. CASE j = n + 1
        BY <1>1, <3>2, <4>1
      <4>2. CASE j # n + 1
        <5>1. j \in p + 1 .. n /\ j \in 1..n
          BY <1>1, <4>2
        <5> QED BY <1>1, <3>2, <5>1
      <4> QED BY <4>1, <4>2
    <3> QED BY <3>1, <3>2
  <2> QED BY <1>1, <2>1, <2>2 DEF Stands, n
<1>3. n + 1 \in Stands(t) <=> ~(e.key = "" \/ e.delete)
  <2>1. n + 1 \in 1..(n + 1) /\ (n + 1) + 1 .. n + 1 = {}
    BY <1>1
  <2> QED BY <1>1, <2>1 DEF Stands
<1>4. Stands(t) \subseteq 1..(n + 1) /\ Stands(s) \subseteq 1..n
  <2>1. Stands(t) \subseteq 1..Len(t) /\ Stands(s) \subseteq 1..n
    BY DEF Stands, n
  <2> QED BY <1>1, <2>1
<1>5. \A p \in Stands(t) : p \in 1..n \/ p = n + 1
  BY <1>1, <1>4
<1>6. \A p \in Stands(t) : p \in {x \in Stands(s) : s[x].key # e.key} \cup (IF e.key = "" \/ e.delete THEN {} ELSE {n + 1})
  BY <1>2, <1>3, <1>5
<1>7. \A p \in {x \in Stands(s) : s[x].key # e.key} : p \in Stands(t)
  BY <1>2, <1>4
<1>8. \A p \in (IF e.key = "" \/ e.delete THEN {} ELSE {n + 1}) : p \in Stands(t)
  BY <1>3
<1>9. Stands(t) = {x \in Stands(s) : s[x].key # e.key} \cup (IF e.key = "" \/ e.delete THEN {} ELSE {n + 1})
  BY <1>6, <1>7, <1>8
<1> QED BY <1>9 DEF t, n

\* A key that no tombstone ends now came in where it came in.
LEMMA CameInMore ==
    ASSUME NEW s \in Seq(Mentions), NEW e \in Mentions, NEW k, NEW c \in 1..Len(s),
           k # e.key \/ ~e.delete, CameIn(s, k, c)
    PROVE  CameIn(Append(s, e), k, c)
<1> DEFINE t == Append(s, e)
           n == Len(s)
<1>1. /\ n \in Nat /\ Len(t) = n + 1 /\ \A i \in 1..n : t[i] = s[i]
      /\ t[n + 1] = e /\ c \in 1..n
  BY SaidMore
<1>2. /\ s[c].key = k
      /\ \A j \in c .. n : s[j].key = k => ~s[j].delete
      /\ \A j \in 1 .. c - 1 : s[j].key = k => \E d \in j .. c - 1 : s[d].key = k /\ s[d].delete
  BY DEF CameIn
<1> HIDE DEF t, n
<1>3. t[c].key = k
  BY <1>1, <1>2
<1>4. ASSUME NEW j \in c .. n + 1, t[j].key = k PROVE ~t[j].delete
  <2>1. CASE j = n + 1
    BY <1>1, <1>4, <2>1
  <2>2. CASE j # n + 1
    <3>1. j \in c .. n /\ j \in 1..n
      BY <1>1, <2>2
    <3> QED BY <1>1, <1>2, <1>4, <3>1
  <2> QED BY <2>1, <2>2
<1>5. ASSUME NEW j \in 1 .. c - 1, t[j].key = k PROVE \E d \in j .. c - 1 : t[d].key = k /\ t[d].delete
  <2>1. j \in 1..n /\ t[j] = s[j]
    BY <1>1
  <2>2. PICK d \in j .. c - 1 : s[d].key = k /\ s[d].delete
    BY <1>2, <1>5, <2>1
  <2>3. d \in 1..n
    BY <1>1
  <2> QED BY <1>1, <2>2, <2>3
<1>6. CameIn(t, k, c)
  BY <1>1, <1>3, <1>4, <1>5 DEF CameIn
<1> QED BY <1>6 DEF t

\* A key that is not there has been deleted if it was.
Gone(s, k) == \A j \in 1..Len(s) : s[j].key = k => \E d \in j .. Len(s) : s[d].key = k /\ s[d].delete

\* An entry that does not delete a key.
Spares(e, k) == k # e.key \/ ~e.delete

\* When a key came in before another.
Came(s, k) == \E c \in 1..Len(s) : CameIn(s, k, c)
Before(s, a, b) == \E c, d \in 1..Len(s) : c < d /\ CameIn(s, a, c) /\ CameIn(s, b, d)

\* A key that was not there comes in with an entry of its own.
LEMMA ComesIn ==
    ASSUME NEW s \in Seq(Mentions), NEW e \in Mentions, ~e.delete,
           Gone(s, e.key)
    PROVE  CameIn(Append(s, e), e.key, Len(s) + 1)
<1> DEFINE t == Append(s, e)
           n == Len(s)
<1>1. /\ n \in Nat /\ Len(t) = n + 1 /\ \A i \in 1..n : t[i] = s[i]
      /\ t[n + 1] = e
  BY SaidMore
<1>2. \A j \in 1..n : s[j].key = e.key => \E d \in j .. n : s[d].key = e.key /\ s[d].delete
  BY DEF Gone
<1> HIDE DEF t, n
<1>3. \A j \in n + 1 .. n + 1 : t[j].key = e.key => ~t[j].delete
  BY <1>1
<1>4. ASSUME NEW j \in 1 .. (n + 1) - 1, t[j].key = e.key
      PROVE  \E d \in j .. (n + 1) - 1 : t[d].key = e.key /\ t[d].delete
  <2>1. j \in 1..n /\ t[j] = s[j] /\ (n + 1) - 1 = n
    BY <1>1
  <2>2. PICK d \in j .. n : s[d].key = e.key /\ s[d].delete
    BY <1>2, <1>4, <2>1
  <2>3. d \in 1..n
    BY <1>1, <2>1
  <2> QED BY <1>1, <2>1, <2>2, <2>3
<1>5. CameIn(t, e.key, n + 1)
  BY <1>1, <1>3, <1>4 DEF CameIn
<1> QED BY <1>5 DEF t, n

\* A key that is not there stays away, and a tombstone takes away the key it names.
LEMMA GoneMore ==
    ASSUME NEW s \in Seq(Mentions), NEW e \in Mentions, NEW k,
           (Gone(s, k) /\ k # e.key) \/ (k = e.key /\ e.delete)
    PROVE  Gone(Append(s, e), k)
<1> DEFINE t == Append(s, e)
           n == Len(s)
<1>1. /\ n \in Nat /\ Len(t) = n + 1 /\ \A i \in 1..n : t[i] = s[i]
      /\ t[n + 1] = e
  BY SaidMore
<1>2. Gone(s, k) => \A j \in 1..n : s[j].key = k => \E d \in j .. n : s[d].key = k /\ s[d].delete
  BY DEF Gone
<1> HIDE DEF t, n
<1>3. ASSUME NEW j \in 1..(n + 1), t[j].key = k PROVE \E d \in j .. n + 1 : t[d].key = k /\ t[d].delete
  <2>1. CASE k = e.key /\ e.delete
    <3>1. n + 1 \in j .. n + 1
      BY <1>1
    <3> QED BY <1>1, <2>1, <3>1
  <2>2. CASE Gone(s, k) /\ k # e.key
    <3>1. j \in 1..n /\ s[j].key = k
      <4>1. j # n + 1
        BY <1>1, <1>3, <2>2
      <4>2. j \in 1..n
        BY <1>1, <4>1
      <4> QED BY <1>1, <1>3, <4>2
    <3>2. PICK d \in j .. n : s[d].key = k /\ s[d].delete
      BY <1>2, <2>2, <3>1
    <3>3. d \in 1..n /\ d \in j .. n + 1
      BY <1>1, <3>1
    <3> QED BY <1>1, <3>2, <3>3
  <2> QED BY <2>1, <2>2
<1>4. Gone(t, k)
  BY <1>1, <1>3 DEF Gone
<1> QED BY <1>4 DEF t

\* Keys that an entry does not delete keep their places.
LEMMA CameMore ==
    ASSUME NEW s \in Seq(Mentions), NEW e \in Mentions, NEW k, Spares(e, k), Came(s, k)
    PROVE  Came(Append(s, e), k)
<1>1. PICK c \in 1..Len(s) : CameIn(s, k, c)
  BY DEF Came
<1>2. CameIn(Append(s, e), k, c)
  BY <1>1, CameInMore DEF Spares
<1>3. c \in 1..Len(Append(s, e))
  BY SaidMore
<1> QED BY <1>2, <1>3 DEF Came

\* So do pairs of them.
LEMMA BeforeMore ==
    ASSUME NEW s \in Seq(Mentions), NEW e \in Mentions, NEW a, NEW b, Spares(e, a), Spares(e, b), Before(s, a, b)
    PROVE  Before(Append(s, e), a, b)
<1>1. PICK c \in 1..Len(s), d \in 1..Len(s) : c < d /\ CameIn(s, a, c) /\ CameIn(s, b, d)
  BY DEF Before
<1>2. CameIn(Append(s, e), a, c) /\ CameIn(Append(s, e), b, d)
  BY <1>1, CameInMore DEF Spares
<1>3. c \in 1..Len(Append(s, e)) /\ d \in 1..Len(Append(s, e))
  BY SaidMore
<1> QED BY <1>1, <1>2, <1>3 DEF Before

\* A key that was not there comes in after every key that is.
LEMMA EntersLast ==
    ASSUME NEW s \in Seq(Mentions), NEW e \in Mentions, ~e.delete, Gone(s, e.key)
    PROVE  Came(Append(s, e), e.key) /\ \A a : Came(s, a) => Before(Append(s, e), a, e.key)
<1>1. CameIn(Append(s, e), e.key, Len(s) + 1)
  BY ComesIn
<1>2. Len(s) + 1 \in 1..Len(Append(s, e))
  BY SaidMore
<1>3. ASSUME NEW a, Came(s, a) PROVE Before(Append(s, e), a, e.key)
  <2>1. PICK c \in 1..Len(s) : CameIn(s, a, c)
    BY <1>3 DEF Came
  <2>2. CameIn(Append(s, e), a, c)
    BY <2>1, CameInMore
  <2>3. c \in 1..Len(Append(s, e)) /\ c < Len(s) + 1
    BY SaidMore
  <2> QED BY <1>1, <1>2, <2>2, <2>3 DEF Before
<1> QED BY <1>1, <1>2, <1>3 DEF Came

\* The keys that entries can be kept under.
NamedKeys == MergeKeys \ {""}

\* What the merge of keyed entries knows of the entries that it has read: value,
\* provenance and order go with the entries that stand, keys are in the order in
\* which they came in, and a key that is not there has been deleted if it was.
HoldsStanding(s, v, f) ==
    /\ DOMAIN f = DOMAIN v /\ DOMAIN v = {s[p].key : p \in Stands(s)}
    /\ \A p \in Stands(s) : v[s[p].key] = s[p] /\ f[s[p].key] = s[p].layer
KeyedKnown(s, v, f, o) ==
    /\ HoldsStanding(s, v, f)
    /\ o \in Seq(MergeKeys)
    /\ \A i \in 1..Len(o) : o[i] \in DOMAIN v
    /\ \A k \in DOMAIN v : \E i \in 1..Len(o) : o[i] = k
    /\ \A k \in DOMAIN v : Came(s, k)
    /\ \A i, j \in 1..Len(o) : i < j => Before(s, o[i], o[j])
    /\ \A k \in NamedKeys : k \notin DOMAIN v => Gone(s, k)

\* The layers come in their order.
InOrder(s) == \A i, j \in 1..Len(s) : i <= j => LayerOrder[s[i].layer] <= LayerOrder[s[j].layer]

\* No key comes in twice.
LEMMA ComesInOnce ==
    ASSUME NEW s \in Seq(Mentions), NEW k, NEW c \in 1..Len(s), NEW d \in 1..Len(s),
           CameIn(s, k, c), CameIn(s, k, d)
    PROVE  ~(c < d)
<1> SUFFICES ASSUME c < d PROVE FALSE
  OBVIOUS
<1>1. c \in 1 .. d - 1 /\ s[c].key = k
  BY DEF CameIn
<1>2. PICK x \in c .. d - 1 : s[x].key = k /\ s[x].delete
  BY <1>1 DEF CameIn
<1>3. x \in c .. Len(s)
  BY <1>1
<1> QED BY <1>2, <1>3 DEF CameIn

\* So the order has each key once.
LEMMA OrderedOnce ==
    ASSUME NEW s \in Seq(Mentions), NEW v, NEW f, NEW o, KeyedKnown(s, v, f, o),
           NEW i \in 1..Len(o), NEW j \in 1..Len(o), o[i] = o[j]
    PROVE  i = j
<1>1. \A x, y \in 1..Len(o) : o[x] = o[y] => ~(x < y)
  <2> SUFFICES ASSUME NEW x \in 1..Len(o), NEW y \in 1..Len(o), o[x] = o[y], x < y PROVE FALSE
    OBVIOUS
  <2>1. PICK c \in 1..Len(s), d \in 1..Len(s) : c < d /\ CameIn(s, o[x], c) /\ CameIn(s, o[y], d)
    BY DEF KeyedKnown, Before
  <2> QED BY <2>1, ComesInOnce
<1>2. o \in Seq(MergeKeys)
  BY DEF KeyedKnown
<1>3. Len(o) \in Nat
  BY <1>2
<1> QED BY <1>1, <1>3

\* What is known says that the merge is right.
LEMMA KnownFollows ==
    ASSUME NEW s \in Seq(Mentions), NEW acc, KeyedKnown(s, acc.value, acc.from, acc.order), InOrder(s)
    PROVE  KeyedFollows(s, acc)
<1> DEFINE v == acc.value
           f == acc.from
           o == acc.order
           r == Rebuilt(acc)
<1>1. /\ DOMAIN f = DOMAIN v /\ DOMAIN v = {s[p].key : p \in Stands(s)}
      /\ \A p \in Stands(s) : v[s[p].key] = s[p] /\ f[s[p].key] = s[p].layer
      /\ o \in Seq(MergeKeys)
      /\ \A i \in 1..Len(o) : o[i] \in DOMAIN v
      /\ \A k \in DOMAIN v : \E i \in 1..Len(o) : o[i] = k
      /\ \A i, j \in 1..Len(o) : i < j =>
           \E c, d \in 1..Len(s) : c < d /\ CameIn(s, o[i], c) /\ CameIn(s, o[j], d)
  BY DEF KeyedKnown, HoldsStanding, Before
<1>2. Len(r) = Len(o) /\ \A i \in 1..Len(o) : r[i] = v[o[i]]
  BY <1>1 DEF Rebuilt
<1> HIDE DEF r, v, f, o
<1>3. \A i \in 1..Len(o) : \E p \in Stands(s) : r[i] = s[p] /\ o[i] = s[p].key /\ f[o[i]] = s[p].layer
  <2> SUFFICES ASSUME NEW i \in 1..Len(o)
               PROVE  \E p \in Stands(s) : r[i] = s[p] /\ o[i] = s[p].key /\ f[o[i]] = s[p].layer
    OBVIOUS
  <2>1. o[i] \in {s[p].key : p \in Stands(s)} /\ r[i] = v[o[i]]
    BY <1>1, <1>2
  <2>2. PICK p \in Stands(s) : o[i] = s[p].key
    BY <2>1
  <2>3. v[s[p].key] = s[p] /\ f[s[p].key] = s[p].layer
    BY <1>1
  <2>4. r[i] = s[p] /\ f[o[i]] = s[p].layer
    BY <2>1, <2>2, <2>3
  <2> QED BY <2>2, <2>4
<1>4. ASSUME NEW p \in Stands(s) PROVE \E i \in 1..Len(r) : r[i] = s[p]
  <2>1. s[p].key \in DOMAIN v
    BY <1>1
  <2>2. PICK i \in 1..Len(o) : o[i] = s[p].key
    BY <1>1, <2>1
  <2>3. r[i] = s[p]
    BY <1>1, <1>2, <2>2
  <2> QED BY <1>2, <2>3
<1>5. ASSUME NEW i \in 1..Len(r)
      PROVE  /\ \E p \in Stands(s) : r[i] = s[p]
             /\ f[r[i].key] = r[i].layer
             /\ \A q \in 1..Len(s) : s[q].key = r[i].key => LayerOrder[s[q].layer] <= LayerOrder[r[i].layer]
  <2>1. PICK p \in Stands(s) : r[i] = s[p] /\ o[i] = s[p].key /\ f[o[i]] = s[p].layer
    BY <1>2, <1>3
  <2>2. ASSUME NEW q \in 1..Len(s), s[q].key = s[p].key PROVE q <= p /\ p \in 1..Len(s)
    <3>1. p \in 1..Len(s) /\ \A j \in p + 1 .. Len(s) : s[j].key # s[p].key
      BY DEF Stands
    <3>2. ~(q \in p + 1 .. Len(s)) /\ Len(s) \in Nat
      BY <2>2, <3>1
    <3> QED BY <3>1, <3>2
  <2>3. ASSUME NEW q \in 1..Len(s), s[q].key = r[i].key PROVE LayerOrder[s[q].layer] <= LayerOrder[r[i].layer]
    BY <2>1, <2>2, <2>3 DEF InOrder
  <2> QED BY <2>1, <2>3
<1>6. ASSUME NEW i \in 1..Len(r), NEW j \in 1..Len(r), i < j
      PROVE  \E c, d \in 1..Len(s) : c < d /\ CameIn(s, r[i].key, c) /\ CameIn(s, r[j].key, d)
  <2>1. r[i].key = o[i] /\ r[j].key = o[j]
    BY <1>2, <1>3
  <2>2. PICK c \in 1..Len(s), d \in 1..Len(s) : c < d /\ CameIn(s, o[i], c) /\ CameIn(s, o[j], d)
    BY <1>1, <1>2, <1>6
  <2> QED BY <2>1, <2>2
<1> QED BY <1>1, <1>4, <1>5, <1>6 DEF KeyedFollows, r, v, f, o

\* What is left of a map.
LEMMA DropTakes ==
    ASSUME NEW f, NEW k
    PROVE  DOMAIN Drop(f, k) = DOMAIN f \ {k} /\ \A y \in DOMAIN f : y # k => Drop(f, k)[y] = f[y]
BY DEF Drop

\* What the fields of an entry are.
LEMMA MentionFields ==
    ASSUME NEW e \in Mentions
    PROVE  e.key \in MergeKeys /\ e.layer \in CLayers /\ e.delete \in BOOLEAN
BY DEF Mentions

\* An entry that stands takes the place of its key.
LEMMA PutStands ==
    ASSUME NEW s \in Seq(Mentions), NEW e \in Mentions, NEW v, NEW f, HoldsStanding(s, v, f),
           e.key \in NamedKeys, ~e.delete
    PROVE  HoldsStanding(Append(s, e), Put(v, e.key, e), Put(f, e.key, e.layer))
<1> DEFINE t == Append(s, e)
           n == Len(s)
           w == Put(v, e.key, e)
           g == Put(f, e.key, e.layer)
           K == {p \in Stands(s) : s[p].key # e.key}
<1>1. /\ DOMAIN f = DOMAIN v /\ DOMAIN v = {s[p].key : p \in Stands(s)}
      /\ \A p \in Stands(s) : v[s[p].key] = s[p] /\ f[s[p].key] = s[p].layer
  BY DEF HoldsStanding
<1>2. Stands(t) = K \cup {n + 1}
  <2>1. ~(e.key = "" \/ e.delete)
    BY DEF NamedKeys
  <2> QED BY <2>1, StandsMore
<1>3. Stands(s) \subseteq 1..n
  BY DEF Stands
<1>4. t[n + 1] = e /\ \A p \in Stands(s) : t[p] = s[p]
  BY <1>3, SaidMore
<1>5. /\ DOMAIN w = DOMAIN v \cup {e.key} /\ w[e.key] = e /\ DOMAIN g = DOMAIN f \cup {e.key} /\ g[e.key] = e.layer
      /\ \A y \in DOMAIN v : y # e.key => w[y] = v[y]
      /\ \A y \in DOMAIN f : y # e.key => g[y] = f[y]
  <2>1. DOMAIN w = DOMAIN v \cup {e.key} /\ w[e.key] = e /\ \A y \in DOMAIN v : y # e.key => w[y] = v[y]
    BY DEF Put
  <2>2. DOMAIN g = DOMAIN f \cup {e.key} /\ g[e.key] = e.layer /\ \A y \in DOMAIN f : y # e.key => g[y] = f[y]
    BY DEF Put
  <2> QED BY <2>1, <2>2
<1> HIDE DEF t, n, w, g
<1>6. ASSUME NEW p \in Stands(t) PROVE w[t[p].key] = t[p] /\ g[t[p].key] = t[p].layer /\ t[p].key \in DOMAIN w
  <2>1. CASE p = n + 1
    BY <1>4, <1>5, <2>1
  <2>2. CASE p \in K
    <3>1. s[p].key \in DOMAIN v /\ s[p].key # e.key /\ t[p] = s[p]
      BY <1>1, <1>4, <2>2
    <3> QED BY <1>1, <1>5, <2>2, <3>1
  <2> QED BY <1>2, <2>1, <2>2
<1>7. ASSUME NEW k \in DOMAIN w PROVE k \in {t[p].key : p \in Stands(t)}
  <2>1. CASE k = e.key
    BY <1>2, <1>4, <2>1
  <2>2. CASE k # e.key
    <3>1. k \in DOMAIN v
      BY <1>5, <2>2
    <3>2. PICK p \in Stands(s) : s[p].key = k
      BY <1>1, <3>1
    <3> QED BY <1>2, <1>4, <2>2, <3>2
  <2> QED BY <2>1, <2>2
<1>8. DOMAIN w = {t[p].key : p \in Stands(t)}
  BY <1>6, <1>7
<1>9. HoldsStanding(t, w, g)
  BY <1>1, <1>5, <1>6, <1>8 DEF HoldsStanding
<1> QED BY <1>9 DEF t, w, g

\* A tombstone ends what stands for its key, and an entry without a key nothing.
LEMMA DropStands ==
    ASSUME NEW s \in Seq(Mentions), NEW e \in Mentions, NEW v, NEW f, HoldsStanding(s, v, f),
           e.key = "" \/ e.delete
    PROVE  /\ HoldsStanding(Append(s, e), Drop(v, e.key), Drop(f, e.key))
           /\ e.key \notin DOMAIN v => HoldsStanding(Append(s, e), v, f)
<1> DEFINE t == Append(s, e)
           w == Drop(v, e.key)
           g == Drop(f, e.key)
           K == {p \in Stands(s) : s[p].key # e.key}
<1>1. /\ DOMAIN f = DOMAIN v /\ DOMAIN v = {s[p].key : p \in Stands(s)}
      /\ \A p \in Stands(s) : v[s[p].key] = s[p] /\ f[s[p].key] = s[p].layer
  BY DEF HoldsStanding
<1>2. Stands(t) = K
  BY StandsMore
<1>3. Stands(s) \subseteq 1..Len(s)
  BY DEF Stands
<1>4. \A p \in Stands(s) : t[p] = s[p]
  BY <1>3, SaidMore
<1>5. /\ DOMAIN w = DOMAIN v \ {e.key} /\ DOMAIN g = DOMAIN f \ {e.key}
      /\ \A y \in DOMAIN v : y # e.key => w[y] = v[y]
      /\ \A y \in DOMAIN f : y # e.key => g[y] = f[y]
  BY DropTakes
<1> HIDE DEF t, w, g
<1>6. \A p \in Stands(t) : v[t[p].key] = t[p] /\ f[t[p].key] = t[p].layer /\ t[p].key \in DOMAIN v /\ t[p].key # e.key
  BY <1>1, <1>2, <1>4
<1>7. ASSUME NEW k \in DOMAIN v, k # e.key PROVE k \in {t[p].key : p \in Stands(t)}
  <2>1. PICK p \in Stands(s) : s[p].key = k
    BY <1>1
  <2> QED BY <1>2, <1>4, <1>7, <2>1
<1>8. DOMAIN v \ {e.key} = {t[p].key : p \in Stands(t)}
  BY <1>6, <1>7
<1>9. HoldsStanding(t, w, g)
  BY <1>1, <1>5, <1>6, <1>8 DEF HoldsStanding
<1>10. ASSUME e.key \notin DOMAIN v PROVE HoldsStanding(t, v, f)
  <2>1. DOMAIN v = {t[p].key : p \in Stands(t)}
    BY <1>8, <1>10
  <2> QED BY <1>1, <1>6, <2>1 DEF HoldsStanding
<1> QED BY <1>9, <1>10 DEF t, w, g

\* Nothing to do for an entry.
PassesOver(v, e) == e.key = "" \/ (e.delete /\ e.key \notin DOMAIN v)

\* An entry without a key, or a tombstone for a key that is not there.
LEMMA KeyedSkips ==
    ASSUME NEW s \in Seq(Mentions), NEW e \in Mentions, NEW v, NEW f, NEW o, KeyedKnown(s, v, f, o),
           PassesOver(v, e)
    PROVE  KeyedKnown(Append(s, e), v, f, o)
<1> DEFINE t == Append(s, e)
<1>1. /\ HoldsStanding(s, v, f)
      /\ o \in Seq(MergeKeys)
      /\ \A i \in 1..Len(o) : o[i] \in DOMAIN v
      /\ \A k \in DOMAIN v : \E i \in 1..Len(o) : o[i] = k
      /\ \A k \in DOMAIN v : Came(s, k)
      /\ \A i, j \in 1..Len(o) : i < j => Before(s, o[i], o[j])
      /\ \A k \in NamedKeys : k \notin DOMAIN v => Gone(s, k)
  BY DEF KeyedKnown
<1>2. \A p \in Stands(s) : s[p].key # ""
  BY DEF Stands
<1>3. "" \notin DOMAIN v
  BY <1>1, <1>2 DEF HoldsStanding
<1>4. (e.key = "" \/ e.delete) /\ e.key \notin DOMAIN v /\ (e.key = "" => e.key \notin NamedKeys)
  BY <1>3 DEF PassesOver, NamedKeys
<1>5. HoldsStanding(t, v, f)
  BY <1>1, <1>4, DropStands
<1>6. \A k \in DOMAIN v : Spares(e, k)
  BY <1>4 DEF Spares
<1>7. \A k \in DOMAIN v : Came(t, k)
  BY <1>1, <1>6, CameMore
<1>8. \A i, j \in 1..Len(o) : i < j => Before(t, o[i], o[j])
  BY <1>1, <1>6, BeforeMore
<1>9. ASSUME NEW k \in NamedKeys, k \notin DOMAIN v PROVE Gone(t, k)
  <2>1. Gone(s, k)
    BY <1>1, <1>9
  <2>2. k # e.key \/ (k = e.key /\ e.delete)
    BY <1>4
  <2> QED BY <2>1, <2>2, GoneMore
<1> HIDE DEF t
<1>10. KeyedKnown(t, v, f, o)
  BY <1>1, <1>5, <1>7, <1>8, <1>9 DEF KeyedKnown
<1> QED BY <1>10 DEF t

\* An entry for a key that is there.
LEMMA KeyedOverwrites ==
    ASSUME NEW s \in Seq(Mentions), NEW e \in Mentions, NEW v, NEW f, NEW o, KeyedKnown(s, v, f, o),
           e.key \in NamedKeys, ~e.delete, e.key \in DOMAIN v
    PROVE  KeyedKnown(Append(s, e), Put(v, e.key, e), Put(f, e.key, e.layer), o)
<1> DEFINE t == Append(s, e)
           w == Put(v, e.key, e)
           g == Put(f, e.key, e.layer)
<1>1. /\ HoldsStanding(s, v, f)
      /\ o \in Seq(MergeKeys)
      /\ \A i \in 1..Len(o) : o[i] \in DOMAIN v
      /\ \A k \in DOMAIN v : \E i \in 1..Len(o) : o[i] = k
      /\ \A k \in DOMAIN v : Came(s, k)
      /\ \A i, j \in 1..Len(o) : i < j => Before(s, o[i], o[j])
      /\ \A k \in NamedKeys : k \notin DOMAIN v => Gone(s, k)
  BY DEF KeyedKnown
<1>2. HoldsStanding(t, w, g)
  BY <1>1, PutStands
<1>3. DOMAIN w = DOMAIN v
  <2>1. DOMAIN w = DOMAIN v \cup {e.key}
    BY DEF Put
  <2> QED BY <2>1
<1>4. \A k : Spares(e, k)
  BY DEF Spares
<1>5. \A k \in DOMAIN v : Came(t, k)
  BY <1>1, <1>4, CameMore
<1>6. \A i, j \in 1..Len(o) : i < j => Before(t, o[i], o[j])
  BY <1>1, <1>4, BeforeMore
<1>7. ASSUME NEW k \in NamedKeys, k \notin DOMAIN v PROVE Gone(t, k)
  <2>1. Gone(s, k) /\ k # e.key
    BY <1>1, <1>7
  <2> QED BY <2>1, GoneMore
<1> HIDE DEF t, w, g
<1>8. KeyedKnown(t, w, g, o)
  BY <1>1, <1>2, <1>3, <1>5, <1>6, <1>7 DEF KeyedKnown
<1> QED BY <1>8 DEF t, w, g

\* An entry for a key that is not there.
LEMMA KeyedEnters ==
    ASSUME NEW s \in Seq(Mentions), NEW e \in Mentions, NEW v, NEW f, NEW o, KeyedKnown(s, v, f, o),
           e.key \in NamedKeys, ~e.delete, e.key \notin DOMAIN v
    PROVE  KeyedKnown(Append(s, e), Put(v, e.key, e), Put(f, e.key, e.layer), Append(o, e.key))
<1> DEFINE t == Append(s, e)
           w == Put(v, e.key, e)
           g == Put(f, e.key, e.layer)
           m == Len(o)
           u == Append(o, e.key)
<1>1. /\ HoldsStanding(s, v, f)
      /\ o \in Seq(MergeKeys)
      /\ \A i \in 1..m : o[i] \in DOMAIN v
      /\ \A k \in DOMAIN v : \E i \in 1..m : o[i] = k
      /\ \A k \in DOMAIN v : Came(s, k)
      /\ \A i, j \in 1..m : i < j => Before(s, o[i], o[j])
      /\ \A k \in NamedKeys : k \notin DOMAIN v => Gone(s, k)
  BY DEF KeyedKnown
<1>2. HoldsStanding(t, w, g)
  BY <1>1, PutStands
<1>3. DOMAIN w = DOMAIN v \cup {e.key}
  BY DEF Put
<1>4. u \in Seq(MergeKeys) /\ m \in Nat /\ Len(u) = m + 1 /\ u[m + 1] = e.key /\ \A i \in 1..m : u[i] = o[i]
  <2>1. e.key \in MergeKeys
    BY DEF NamedKeys
  <2> QED BY <1>1, <2>1
<1>5. \A k : Spares(e, k)
  BY DEF Spares
<1>6. Came(t, e.key) /\ \A k \in DOMAIN v : Before(t, k, e.key)
  BY <1>1, EntersLast
<1>7. \A k \in DOMAIN v : Came(t, k)
  BY <1>1, <1>5, CameMore
<1>8. \A i, j \in 1..m : i < j => Before(t, o[i], o[j])
  BY <1>1, <1>5, BeforeMore
<1>9. ASSUME NEW k \in NamedKeys, k \notin DOMAIN v, k # e.key PROVE Gone(t, k)
  <2>1. Gone(s, k)
    BY <1>1, <1>9
  <2> QED BY <1>9, <2>1, GoneMore
<1> HIDE DEF t, w, g, u, m
<1>10. ASSUME NEW i \in 1..(m + 1), NEW j \in 1..(m + 1), i < j PROVE Before(t, u[i], u[j])
  <2>1. i \in 1..m
    BY <1>4, <1>10
  <2>2. CASE j = m + 1
    BY <1>1, <1>4, <1>6, <2>1, <2>2
  <2>3. CASE j # m + 1
    <3>1. j \in 1..m
      BY <1>4, <2>3
    <3> QED BY <1>4, <1>8, <1>10, <2>1, <3>1
  <2> QED BY <2>2, <2>3
<1>11. \A i \in 1..(m + 1) : i \in 1..m \/ i = m + 1
  BY <1>4
<1>12. \A i \in 1..(m + 1) : u[i] \in DOMAIN w
  BY <1>1, <1>3, <1>4, <1>11
<1>13. m + 1 \in 1..(m + 1) /\ \A i \in 1..m : i \in 1..(m + 1)
  BY <1>4
<1>14. ASSUME NEW k \in DOMAIN w PROVE \E i \in 1..(m + 1) : u[i] = k
  <2>1. CASE k = e.key
    BY <1>4, <1>13, <2>1
  <2>2. CASE k # e.key
    <3>1. PICK i \in 1..m : o[i] = k
      BY <1>1, <1>3, <2>2
    <3> QED BY <1>4, <1>13, <3>1
  <2> QED BY <2>1, <2>2
<1>15. KeyedKnown(t, w, g, u)
  <2>1. \A k \in DOMAIN w : Came(t, k)
    BY <1>3, <1>6, <1>7
  <2>2. \A k \in NamedKeys : k \notin DOMAIN w => Gone(t, k)
    BY <1>3, <1>9
  <2> QED BY <1>2, <1>4, <1>10, <1>12, <1>14, <2>1, <2>2 DEF KeyedKnown
<1> QED BY <1>15 DEF t, w, g, u

\* A tombstone for a key that is there.
LEMMA KeyedDeletes ==
    ASSUME NEW s \in Seq(Mentions), NEW e \in Mentions, NEW v, NEW f, NEW o, KeyedKnown(s, v, f, o),
           e.delete, e.key \in DOMAIN v
    PROVE  KeyedKnown(Append(s, e), Drop(v, e.key), Drop(f, e.key), RemoveFirst(o, e.key))
<1> DEFINE t == Append(s, e)
           w == Drop(v, e.key)
           g == Drop(f, e.key)
           m == Len(o)
           u == RemoveFirst(o, e.key)
<1>1. /\ HoldsStanding(s, v, f)
      /\ o \in Seq(MergeKeys)
      /\ \A i \in 1..m : o[i] \in DOMAIN v
      /\ \A k \in DOMAIN v : \E i \in 1..m : o[i] = k
      /\ \A k \in DOMAIN v : Came(s, k)
      /\ \A i, j \in 1..m : i < j => Before(s, o[i], o[j])
      /\ \A k \in NamedKeys : k \notin DOMAIN v => Gone(s, k)
  BY DEF KeyedKnown
<1>2. HoldsStanding(t, w, g)
  BY <1>1, DropStands
<1>3. DOMAIN w = DOMAIN v \ {e.key}
  BY DropTakes
<1>4. PICK x \in 1..m : o[x] = e.key
  BY <1>1
<1>5. \A j \in 1..m : o[j] = o[x] => j = x
  BY <1>4, OrderedOnce
<1>6. /\ u \in Seq(MergeKeys) /\ Len(u) = m - 1 /\ m \in Nat
      /\ \A j \in 1..(m - 1) : u[j] = IF j < x THEN o[j] ELSE o[j + 1]
  <2> DEFINE r == RemoveFirst(o, o[x])
  <2>1. r \in Seq(MergeKeys) /\ Len(r) = m - 1 /\ \A j \in 1..Len(r) : r[j] = IF j < x THEN o[j] ELSE o[j + 1]
    BY <1>1, <1>5, RemovedOnce
  <2>2. u = r /\ m \in Nat
    BY <1>1, <1>4
  <2> QED BY <2>1, <2>2
<1>7. \A k \in DOMAIN w : Spares(e, k)
  BY <1>3 DEF Spares
<1>8. \A k \in DOMAIN w : Came(t, k)
  BY <1>1, <1>3, <1>7, CameMore
<1>9. \A k \in NamedKeys : k \notin DOMAIN w => Gone(t, k)
  BY <1>1, <1>3, GoneMore
<1> DEFINE at(j) == IF j < x THEN j ELSE j + 1
<1> HIDE DEF w, g, u, m
<1>10. ASSUME NEW j \in 1..(m - 1) PROVE at(j) \in 1..m /\ at(j) # x /\ u[j] = o[at(j)]
  <2>1. at(j) \in 1..m /\ at(j) # x
    BY <1>6
  <2> QED BY <1>6, <2>1
<1>11. \A i, j \in 1..(m - 1) : i < j => at(i) < at(j)
  BY <1>6
<1>12. ASSUME NEW i \in 1..m, i # x PROVE \E j \in 1..(m - 1) : at(j) = i
  <2>1. CASE i < x
    <3>1. i \in 1..(m - 1) /\ at(i) = i
      BY <1>6, <2>1
    <3> QED BY <3>1
  <2>2. CASE ~(i < x)
    <3>1. i - 1 \in 1..(m - 1) /\ at(i - 1) = i
      BY <1>6, <1>12, <2>2
    <3> QED BY <3>1
  <2> QED BY <2>1, <2>2
<1> HIDE DEF at
<1>13. \A j \in 1..(m - 1) : u[j] \in DOMAIN w
  BY <1>1, <1>3, <1>4, <1>5, <1>10
<1>14. ASSUME NEW k \in DOMAIN w PROVE \E j \in 1..(m - 1) : u[j] = k
  <2>1. PICK i \in 1..m : o[i] = k
    BY <1>1, <1>3
  <2>2. i # x
    BY <1>3, <1>4, <2>1
  <2>3. PICK j \in 1..(m - 1) : at(j) = i
    BY <1>12, <2>2
  <2> QED BY <1>10, <2>1, <2>3
<1>15. ASSUME NEW i \in 1..(m - 1), NEW j \in 1..(m - 1), i < j PROVE Before(t, u[i], u[j])
  <2>1. at(i) < at(j) /\ at(i) \in 1..m /\ at(j) \in 1..m /\ u[i] = o[at(i)] /\ u[j] = o[at(j)]
    BY <1>10, <1>11, <1>15
  <2>2. Before(s, u[i], u[j])
    BY <1>1, <2>1
  <2>3. Spares(e, u[i]) /\ Spares(e, u[j])
    BY <1>7, <1>13
  <2> QED BY <2>2, <2>3, BeforeMore
<1> HIDE DEF t
<1>16. KeyedKnown(t, w, g, u)
  BY <1>2, <1>6, <1>8, <1>9, <1>13, <1>14, <1>15 DEF KeyedKnown
<1> QED BY <1>16 DEF t, w, g, u

\* The loop's step for a keyed list.
LEMMA KeyedStep ==
    ASSUME NEW s \in Seq(Mentions), NEW e \in Mentions, NEW acc, KeyedKnown(s, acc.value, acc.from, acc.order)
    PROVE  LET r == MergeKeyed(acc, e) IN KeyedKnown(Append(s, e), r.value, r.from, r.order)
<1> DEFINE r == MergeKeyed(acc, e)
<1>1. e.key \in MergeKeys /\ e.delete \in BOOLEAN
  BY MentionFields
<1>2. CASE PassesOver(acc.value, e)
  <2>1. r = acc
    BY <1>2 DEF PassesOver, MergeKeyed
  <2>2. KeyedKnown(Append(s, e), acc.value, acc.from, acc.order)
    BY <1>2, KeyedSkips
  <2> HIDE DEF r
  <2>3. KeyedKnown(Append(s, e), r.value, r.from, r.order)
    BY <2>1, <2>2
  <2> QED BY <2>3 DEF r
<1>3. CASE ~PassesOver(acc.value, e) /\ e.delete
  <2>1. e.key \in DOMAIN acc.value
    BY <1>3 DEF PassesOver
  <2>2. r = [value |-> Drop(acc.value, e.key), from |-> Drop(acc.from, e.key), order |-> RemoveFirst(acc.order, e.key)]
    BY <1>3 DEF PassesOver, MergeKeyed
  <2>3. KeyedKnown(Append(s, e), Drop(acc.value, e.key), Drop(acc.from, e.key), RemoveFirst(acc.order, e.key))
    BY <1>3, <2>1, KeyedDeletes
  <2> HIDE DEF r
  <2>4. r.value = Drop(acc.value, e.key) /\ r.from = Drop(acc.from, e.key) /\ r.order = RemoveFirst(acc.order, e.key)
    BY <2>2
  <2>5. KeyedKnown(Append(s, e), r.value, r.from, r.order)
    BY <2>3, <2>4
  <2> QED BY <2>5 DEF r
<1>4. CASE ~PassesOver(acc.value, e) /\ ~e.delete
  <2> DEFINE o == IF e.key \in DOMAIN acc.value THEN acc.order ELSE Append(acc.order, e.key)
  <2>1. e.key \in NamedKeys
    BY <1>1, <1>4 DEF PassesOver, NamedKeys
  <2>2. r = [value |-> Put(acc.value, e.key, e), from |-> Put(acc.from, e.key, e.layer), order |-> o]
    BY <1>4 DEF PassesOver, MergeKeyed
  <2>3. KeyedKnown(Append(s, e), Put(acc.value, e.key, e), Put(acc.from, e.key, e.layer), o)
    <3>1. CASE e.key \in DOMAIN acc.value
      BY <1>4, <2>1, <3>1, KeyedOverwrites
    <3>2. CASE e.key \notin DOMAIN acc.value
      BY <1>4, <2>1, <3>2, KeyedEnters
    <3> QED BY <3>1, <3>2
  <2> HIDE DEF r, o
  <2>4. r.value = Put(acc.value, e.key, e) /\ r.from = Put(acc.from, e.key, e.layer) /\ r.order = o
    BY <2>2
  <2>5. KeyedKnown(Append(s, e), r.value, r.from, r.order)
    BY <2>3, <2>4
  <2> QED BY <2>5 DEF r
<1> QED BY <1>2, <1>3, <1>4

\* The entries that lists, scalars and maps have, and among them the first and the
\* last of each key.
Said(s) == {p \in 1..Len(s) : ~s[p].delete}
FirstSaid(s) == {p \in Said(s) : \A j \in 1 .. p - 1 : j \in Said(s) => s[j].key # s[p].key}
LastSaid(s) == {p \in Said(s) : \A j \in p + 1 .. Len(s) : j \in Said(s) => s[j].key # s[p].key}

\* What the merge of a string list knows: the strings that were said, and those in
\* the order in which they were said first.
InPlace(s, f, o, i, p) ==
    /\ o[i] = s[p].key /\ f[s[p].key] = s[p].layer
    /\ \A j \in 1 .. i - 1 : \E q \in FirstSaid(s) : q < p /\ o[j] = s[q].key
ListKnown(s, f, o) ==
    /\ o \in Seq(MergeKeys)
    /\ \A p \in Said(s) : s[p].key \in DOMAIN f
    /\ \A k \in DOMAIN f : (\E p \in Said(s) : s[p].key = k) /\ \E i \in 1..Len(o) : o[i] = k
    /\ \A i \in 1..Len(o) : \E p \in FirstSaid(s) : InPlace(s, f, o, i, p)

\* What the merge of scalars and maps knows: what was said last.
ScalarKnown(s, v, f) ==
    /\ DOMAIN f = DOMAIN v /\ DOMAIN v = {s[p].key : p \in Said(s)}
    /\ \A k \in DOMAIN v : \E p \in LastSaid(s) : s[p].key = k /\ v[k] = s[p] /\ f[k] = s[p].layer

\* What is known says that lists are right,
LEMMA ListKnownFollows ==
    ASSUME NEW s \in Seq(Mentions), NEW acc, ListKnown(s, acc.from, acc.order)
    PROVE  ListFollows(s, acc)
<1> DEFINE f == acc.from
           o == acc.order
<1>1. /\ \A p \in Said(s) : s[p].key \in DOMAIN f
      /\ \A k \in DOMAIN f : \E i \in 1..Len(o) : o[i] = k
      /\ \A i \in 1..Len(o) : \E p \in FirstSaid(s) : InPlace(s, f, o, i, p)
  BY DEF ListKnown
<1> HIDE DEF f, o
<1>2. \A p \in FirstSaid(s) : \E i \in 1..Len(o) : o[i] = s[p].key
  BY <1>1 DEF FirstSaid
<1>3. \A i \in 1..Len(o) : \E p \in FirstSaid(s) :
        /\ o[i] = s[p].key /\ f[s[p].key] = s[p].layer
        /\ \A j \in 1 .. i - 1 : \E q \in FirstSaid(s) : q < p /\ o[j] = s[q].key
  BY <1>1 DEF InPlace
<1> QED BY <1>2, <1>3 DEF ListFollows, FirstSaid, Said, f, o

\* and that scalars and maps are.
LEMMA ScalarKnownFollows ==
    ASSUME NEW s \in Seq(Mentions), NEW acc, ScalarKnown(s, acc.value, acc.from)
    PROVE  ScalarFollows(s, acc)
BY DEF ScalarKnown, ScalarFollows, LastSaid, Said

\* One more entry.
LEMMA SaidOfMore ==
    ASSUME NEW s \in Seq(Mentions), NEW e \in Mentions
    PROVE  /\ Said(Append(s, e)) = Said(s) \cup (IF e.delete THEN {} ELSE {Len(s) + 1})
           /\ Said(s) \subseteq 1..Len(s) /\ Len(s) + 1 \notin Said(s)
           /\ \A p \in Said(s) : Append(s, e)[p] = s[p]
<1> DEFINE t == Append(s, e)
           n == Len(s)
<1>1. /\ n \in Nat /\ Len(t) = n + 1 /\ \A i \in 1..n : t[i] = s[i]
      /\ t[n + 1] = e
  BY SaidMore
<1>2. Said(s) \subseteq 1..n
  BY DEF Said
<1> HIDE DEF t, n
<1>3. \A p \in 1..n : p \in Said(t) <=> p \in Said(s)
  <2>1. \A p \in 1..n : p \in 1..(n + 1)
    BY <1>1
  <2> QED BY <1>1, <2>1 DEF Said, n
<1>4. n + 1 \in Said(t) <=> ~e.delete
  <2>1. n + 1 \in 1..(n + 1)
    BY <1>1
  <2> QED BY <1>1, <2>1 DEF Said
<1>5. \A p \in Said(t) : p \in 1..n \/ p = n + 1
  <2>1. Said(t) \subseteq 1..(n + 1)
    BY <1>1 DEF Said
  <2> QED BY <1>1, <2>1
<1>6. n + 1 \notin 1..n
  BY <1>1
<1>7. Said(t) = Said(s) \cup (IF e.delete THEN {} ELSE {n + 1})
  BY <1>2, <1>3, <1>4, <1>5
<1>8. \A p \in Said(s) : t[p] = s[p]
  BY <1>1, <1>2
<1> QED BY <1>2, <1>6, <1>7, <1>8 DEF t, n

\* It is the first of its key if nothing was said of the key,
LEMMA FirstOfMore ==
    ASSUME NEW s \in Seq(Mentions), NEW e \in Mentions
    PROVE  FirstSaid(Append(s, e)) =
             FirstSaid(s) \cup (IF e.delete \/ (\E p \in Said(s) : s[p].key = e.key) THEN {} ELSE {Len(s) + 1})
<1> DEFINE t == Append(s, e)
           n == Len(s)
<1>1. n \in Nat /\ t[n + 1] = e
  BY SaidMore
<1>2. /\ Said(t) = Said(s) \cup (IF e.delete THEN {} ELSE {n + 1})
      /\ Said(s) \subseteq 1..n /\ n + 1 \notin Said(s)
      /\ \A p \in Said(s) : t[p] = s[p]
  BY SaidOfMore
<1> HIDE DEF t, n
<1>3. ASSUME NEW p \in Said(s) PROVE p \in FirstSaid(t) <=> p \in FirstSaid(s)
  <2>1. \A j \in 1 .. p - 1 : j # n + 1
    BY <1>1, <1>2
  <2>2. \A j \in 1 .. p - 1 : j \in Said(t) <=> j \in Said(s)
    BY <1>2, <2>1
  <2>3. p \in Said(t) /\ t[p] = s[p]
    BY <1>2
  <2> QED BY <1>2, <2>2, <2>3 DEF FirstSaid
<1>4. ASSUME ~e.delete PROVE n + 1 \in FirstSaid(t) <=> ~\E p \in Said(s) : s[p].key = e.key
  <2>1. n + 1 \in Said(t) /\ (n + 1) - 1 = n /\ \A j \in 1..n : j \in Said(t) <=> j \in Said(s)
    <3>1. \A j \in 1..n : j # n + 1
      BY <1>1
    <3>2. (n + 1) - 1 = n
      BY <1>1
    <3> QED BY <1>2, <1>4, <3>1, <3>2
  <2>2. n + 1 \in FirstSaid(t) <=> \A j \in 1..n : j \in Said(t) => t[j].key # t[n + 1].key
    BY <2>1 DEF FirstSaid
  <2> QED BY <1>1, <1>2, <2>1, <2>2
<1>5. FirstSaid(t) \subseteq Said(t) /\ FirstSaid(s) \subseteq Said(s)
  BY DEF FirstSaid
<1>6. FirstSaid(t) = FirstSaid(s) \cup (IF e.delete \/ (\E p \in Said(s) : s[p].key = e.key) THEN {} ELSE {n + 1})
  <2>1. CASE e.delete
    <3>1. Said(t) = Said(s)
      BY <1>2, <2>1
    <3> QED BY <1>3, <1>5, <2>1, <3>1
  <2>2. CASE ~e.delete
    <3>1. Said(t) = Said(s) \cup {n + 1}
      BY <1>2, <2>2
    <3> QED BY <1>2, <1>3, <1>4, <1>5, <2>2, <3>1
  <2> QED BY <2>1, <2>2
<1> QED BY <1>6 DEF t, n

\* and always the last of it.
LEMMA LastOfMore ==
    ASSUME NEW s \in Seq(Mentions), NEW e \in Mentions, ~e.delete
    PROVE  LastSaid(Append(s, e)) = {p \in LastSaid(s) : s[p].key # e.key} \cup {Len(s) + 1}
<1> DEFINE t == Append(s, e)
           n == Len(s)
<1>1. n \in Nat /\ t[n + 1] = e /\ Len(t) = n + 1
  BY SaidMore
<1>2. /\ Said(t) = Said(s) \cup {n + 1}
      /\ Said(s) \subseteq 1..n /\ n + 1 \notin Said(s)
      /\ \A p \in Said(s) : t[p] = s[p]
  BY SaidOfMore
<1> HIDE DEF t
<1>3. ASSUME NEW p \in Said(s) PROVE p \in LastSaid(t) <=> p \in LastSaid(s) /\ s[p].key # e.key
  <2>1. p \in Said(t) /\ t[p] = s[p]
    BY <1>2
  <2>2. p \in LastSaid(t) <=> \A j \in p + 1 .. n + 1 : j \in Said(t) => t[j].key # s[p].key
    BY <1>1, <2>1 DEF LastSaid
  <2>3. p \in LastSaid(s) <=> \A j \in p + 1 .. n : j \in Said(s) => s[j].key # s[p].key
    BY DEF LastSaid
  <2> HIDE DEF n
  <2>4. /\ \A j \in p + 1 .. n + 1 : j \in p + 1 .. n \/ j = n + 1
        /\ \A j \in p + 1 .. n : j \in p + 1 .. n + 1 /\ j # n + 1
        /\ n + 1 \in p + 1 .. n + 1
    BY <1>1, <1>2
  <2> QED BY <1>1, <1>2, <2>2, <2>3, <2>4
<1>4. n + 1 \in LastSaid(t)
  <2>1. (n + 1) + 1 .. n + 1 = {}
    BY <1>1
  <2> QED BY <1>1, <1>2, <2>1 DEF LastSaid
<1>5. LastSaid(t) \subseteq Said(t) /\ LastSaid(s) \subseteq Said(s)
  BY DEF LastSaid
<1> HIDE DEF n
<1>6. LastSaid(t) = {p \in LastSaid(s) : s[p].key # e.key} \cup {n + 1}
  BY <1>2, <1>3, <1>4, <1>5
<1> QED BY <1>6 DEF t, n

\* Tombstones are nothing to lists, scalars and maps.
LEMMA LastOfTombstone ==
    ASSUME NEW s \in Seq(Mentions), NEW e \in Mentions, e.delete
    PROVE  LastSaid(Append(s, e)) = LastSaid(s)
<1> DEFINE t == Append(s, e)
           n == Len(s)
<1>1. n \in Nat /\ Len(t) = n + 1
  BY SaidMore
<1>2. /\ Said(t) = Said(s)
      /\ Said(s) \subseteq 1..n /\ n + 1 \notin Said(s)
      /\ \A p \in Said(s) : t[p] = s[p]
  <2>1. /\ Said(t) = Said(s) \cup {}
        /\ Said(s) \subseteq 1..n /\ n + 1 \notin Said(s)
        /\ \A p \in Said(s) : t[p] = s[p]
    BY SaidOfMore
  <2> HIDE DEF t, n
  <2> QED BY <2>1
<1> HIDE DEF t
<1>3. ASSUME NEW p \in Said(s) PROVE p \in LastSaid(t) <=> p \in LastSaid(s)
  <2>1. p \in Said(t) /\ t[p] = s[p]
    BY <1>2
  <2>2. p \in LastSaid(t) <=> \A j \in p + 1 .. n + 1 : j \in Said(t) => t[j].key # s[p].key
    BY <1>1, <2>1 DEF LastSaid
  <2>3. p \in LastSaid(s) <=> \A j \in p + 1 .. n : j \in Said(s) => s[j].key # s[p].key
    BY DEF LastSaid
  <2> HIDE DEF n
  <2>4. /\ \A j \in p + 1 .. n + 1 : j \in p + 1 .. n \/ j = n + 1
        /\ \A j \in p + 1 .. n : j \in p + 1 .. n + 1
    BY <1>1, <1>2
  <2> QED BY <1>2, <2>2, <2>3, <2>4
<1>4. LastSaid(t) \subseteq Said(t) /\ LastSaid(s) \subseteq Said(s)
  BY DEF LastSaid
<1>5. LastSaid(t) = LastSaid(s)
  BY <1>2, <1>3, <1>4
<1> QED BY <1>5 DEF t

\* A tombstone, or a string that the list has.
LEMMA ListKeeps ==
    ASSUME NEW s \in Seq(Mentions), NEW e \in Mentions, NEW f, NEW o, ListKnown(s, f, o),
           e.delete \/ e.key \in DOMAIN f
    PROVE  ListKnown(Append(s, e), f, o)
<1> DEFINE t == Append(s, e)
           n == Len(s)
<1>1. /\ o \in Seq(MergeKeys)
      /\ \A p \in Said(s) : s[p].key \in DOMAIN f
      /\ \A k \in DOMAIN f : (\E p \in Said(s) : s[p].key = k) /\ \E i \in 1..Len(o) : o[i] = k
      /\ \A i \in 1..Len(o) : \E p \in FirstSaid(s) : InPlace(s, f, o, i, p)
  BY DEF ListKnown
<1>2. Said(t) = Said(s) \cup (IF e.delete THEN {} ELSE {n + 1}) /\ \A p \in Said(s) : t[p] = s[p]
  BY SaidOfMore
<1>3. t[n + 1] = e
  BY SaidMore
<1>4. e.delete \/ \E p \in Said(s) : s[p].key = e.key
  BY <1>1
<1>5. FirstSaid(t) = FirstSaid(s) /\ FirstSaid(s) \subseteq Said(s)
  <2>1. FirstSaid(t) = FirstSaid(s) \cup {}
    BY <1>4, FirstOfMore
  <2> QED BY <2>1 DEF FirstSaid
<1> HIDE DEF t, n
<1>6. ASSUME NEW i \in 1..Len(o), NEW p \in FirstSaid(s), InPlace(s, f, o, i, p) PROVE InPlace(t, f, o, i, p)
  BY <1>2, <1>5, <1>6 DEF InPlace
<1>7. \A p \in Said(t) : t[p].key \in DOMAIN f
  BY <1>1, <1>2, <1>3
<1>8. ASSUME NEW k \in DOMAIN f PROVE \E p \in Said(t) : t[p].key = k
  <2>1. PICK p \in Said(s) : s[p].key = k
    BY <1>1
  <2> QED BY <1>2, <2>1
<1>9. \A i \in 1..Len(o) : \E p \in FirstSaid(t) : InPlace(t, f, o, i, p)
  BY <1>1, <1>5, <1>6
<1>10. ListKnown(t, f, o)
  BY <1>1, <1>7, <1>8, <1>9 DEF ListKnown
<1> QED BY <1>10 DEF t

\* A string that the list has not.
LEMMA ListEnters ==
    ASSUME NEW s \in Seq(Mentions), NEW e \in Mentions, NEW f, NEW o, ListKnown(s, f, o),
           ~e.delete, e.key \notin DOMAIN f
    PROVE  ListKnown(Append(s, e), Put(f, e.key, e.layer), Append(o, e.key))
<1> DEFINE t == Append(s, e)
           n == Len(s)
           g == Put(f, e.key, e.layer)
           u == Append(o, e.key)
           m == Len(o)
<1>1. /\ o \in Seq(MergeKeys)
      /\ \A p \in Said(s) : s[p].key \in DOMAIN f
      /\ \A k \in DOMAIN f : (\E p \in Said(s) : s[p].key = k) /\ \E i \in 1..m : o[i] = k
      /\ \A i \in 1..m : \E p \in FirstSaid(s) : InPlace(s, f, o, i, p)
  BY DEF ListKnown
<1>2. Said(t) = Said(s) \cup {n + 1} /\ Said(s) \subseteq 1..n /\ \A p \in Said(s) : t[p] = s[p]
  BY SaidOfMore
<1>3. t[n + 1] = e /\ n \in Nat
  BY SaidMore
<1>4. FirstSaid(t) = FirstSaid(s) \cup {n + 1} /\ FirstSaid(s) \subseteq Said(s)
  <2>1. ~(e.delete \/ \E p \in Said(s) : s[p].key = e.key)
    BY <1>1
  <2>2. FirstSaid(t) = FirstSaid(s) \cup {n + 1}
    BY <2>1, FirstOfMore
  <2> QED BY <2>2 DEF FirstSaid
<1>5. DOMAIN g = DOMAIN f \cup {e.key} /\ g[e.key] = e.layer /\ \A y \in DOMAIN f : g[y] = f[y]
  BY DEF Put
<1>6. u \in Seq(MergeKeys) /\ m \in Nat /\ Len(u) = m + 1 /\ u[m + 1] = e.key /\ \A i \in 1..m : u[i] = o[i]
  <2>1. e.key \in MergeKeys
    BY MentionFields
  <2> QED BY <1>1, <2>1
<1> HIDE DEF t, n, g, u, m
<1>7. ASSUME NEW i \in 1..m, NEW p \in FirstSaid(s), InPlace(s, f, o, i, p) PROVE InPlace(t, g, u, i, p)
  <2>1. /\ o[i] = s[p].key /\ f[s[p].key] = s[p].layer
        /\ \A j \in 1 .. i - 1 : \E q \in FirstSaid(s) : q < p /\ o[j] = s[q].key
    BY <1>7 DEF InPlace
  <2>2. u[i] = t[p].key /\ g[t[p].key] = t[p].layer
    <3>1. t[p] = s[p] /\ s[p].key \in DOMAIN f
      BY <1>1, <1>2, <1>4
    <3> QED BY <1>5, <1>6, <2>1, <3>1
  <2>3. ASSUME NEW j \in 1 .. i - 1 PROVE \E q \in FirstSaid(t) : q < p /\ u[j] = t[q].key
    <3>1. j \in 1..m
      BY <1>6
    <3>2. PICK q \in FirstSaid(s) : q < p /\ o[j] = s[q].key
      BY <2>1
    <3> QED BY <1>2, <1>4, <1>6, <3>1, <3>2
  <2> QED BY <2>2, <2>3 DEF InPlace
<1>8. InPlace(t, g, u, m + 1, n + 1)
  <2>1. (m + 1) - 1 = m
    BY <1>6
  <2>2. ASSUME NEW j \in 1..m PROVE \E q \in FirstSaid(t) : q < n + 1 /\ u[j] = t[q].key
    <3>1. PICK q \in FirstSaid(s) : InPlace(s, f, o, j, q)
      BY <1>1
    <3>2. o[j] = s[q].key
      BY <3>1 DEF InPlace
    <3>3. q \in 1..n
      BY <1>2, <1>4
    <3>4. q < n + 1
      BY <1>3, <3>3
    <3> QED BY <1>2, <1>4, <1>6, <3>2, <3>4
  <2> QED BY <1>3, <1>5, <1>6, <2>1, <2>2 DEF InPlace
<1>9. \A i \in 1..(m + 1) : i \in 1..m \/ i = m + 1
  BY <1>6
<1>10. m + 1 \in 1..(m + 1) /\ \A i \in 1..m : i \in 1..(m + 1)
  BY <1>6
<1>11. \A i \in 1..(m + 1) : \E p \in FirstSaid(t) : InPlace(t, g, u, i, p)
  BY <1>1, <1>4, <1>7, <1>8, <1>9
<1>12. \A p \in Said(t) : t[p].key \in DOMAIN g
  BY <1>1, <1>2, <1>3, <1>5
<1>13. ASSUME NEW k \in DOMAIN g PROVE (\E p \in Said(t) : t[p].key = k) /\ \E i \in 1..(m + 1) : u[i] = k
  <2>1. CASE k = e.key
    BY <1>2, <1>3, <1>6, <1>10, <2>1
  <2>2. CASE k # e.key
    <3>1. k \in DOMAIN f
      BY <1>5, <2>2
    <3>2. PICK p \in Said(s) : s[p].key = k
      BY <1>1, <3>1
    <3>3. PICK i \in 1..m : o[i] = k
      BY <1>1, <3>1
    <3> QED BY <1>2, <1>6, <1>10, <3>2, <3>3
  <2> QED BY <2>1, <2>2
<1>14. ListKnown(t, g, u)
  BY <1>6, <1>11, <1>12, <1>13 DEF ListKnown
<1> QED BY <1>14 DEF t, g, u

\* The loop's step for a string list.
LEMMA ListStep ==
    ASSUME NEW s \in Seq(Mentions), NEW e \in Mentions, NEW acc, ListKnown(s, acc.from, acc.order)
    PROVE  LET r == IF e.delete THEN acc ELSE MergeList(acc, e) IN ListKnown(Append(s, e), r.from, r.order)
<1> DEFINE r == IF e.delete THEN acc ELSE MergeList(acc, e)
<1>1. CASE e.delete \/ e.key \in DOMAIN acc.from
  <2>1. r = acc
    BY <1>1 DEF MergeList
  <2>2. ListKnown(Append(s, e), acc.from, acc.order)
    BY <1>1, ListKeeps
  <2> HIDE DEF r
  <2>3. ListKnown(Append(s, e), r.from, r.order)
    BY <2>1, <2>2
  <2> QED BY <2>3 DEF r
<1>2. CASE ~(e.delete \/ e.key \in DOMAIN acc.from)
  <2>1. r = [value |-> Put(acc.value, e.key, e), from |-> Put(acc.from, e.key, e.layer),
             order |-> Append(acc.order, e.key)]
    BY <1>2 DEF MergeList
  <2>2. ListKnown(Append(s, e), Put(acc.from, e.key, e.layer), Append(acc.order, e.key))
    BY <1>2, ListEnters
  <2> HIDE DEF r
  <2>3. r.from = Put(acc.from, e.key, e.layer) /\ r.order = Append(acc.order, e.key)
    BY <2>1
  <2>4. ListKnown(Append(s, e), r.from, r.order)
    BY <2>2, <2>3
  <2> QED BY <2>4 DEF r
<1> QED BY <1>1, <1>2

\* A value that is written.
LEMMA ScalarWritten ==
    ASSUME NEW s \in Seq(Mentions), NEW e \in Mentions, NEW v, NEW f, ScalarKnown(s, v, f), ~e.delete
    PROVE  ScalarKnown(Append(s, e), Put(v, e.key, e), Put(f, e.key, e.layer))
<1> DEFINE t == Append(s, e)
           n == Len(s)
           w == Put(v, e.key, e)
           g == Put(f, e.key, e.layer)
<1>1. /\ DOMAIN f = DOMAIN v /\ DOMAIN v = {s[p].key : p \in Said(s)}
      /\ \A k \in DOMAIN v : \E p \in LastSaid(s) : s[p].key = k /\ v[k] = s[p] /\ f[k] = s[p].layer
  BY DEF ScalarKnown
<1>2. Said(t) = Said(s) \cup {n + 1} /\ \A p \in Said(s) : t[p] = s[p]
  BY SaidOfMore
<1>3. t[n + 1] = e
  BY SaidMore
<1>4. LastSaid(t) = {p \in LastSaid(s) : s[p].key # e.key} \cup {n + 1}
  BY LastOfMore
<1>5. DOMAIN w = DOMAIN v \cup {e.key} /\ w[e.key] = e /\ \A y \in DOMAIN v : y # e.key => w[y] = v[y]
  BY DEF Put
<1>6. DOMAIN g = DOMAIN f \cup {e.key} /\ g[e.key] = e.layer /\ \A y \in DOMAIN f : y # e.key => g[y] = f[y]
  BY DEF Put
<1>7. LastSaid(s) \subseteq Said(s)
  BY DEF LastSaid
<1> HIDE DEF t, n, w, g
<1>8. {t[p].key : p \in Said(t)} = {s[p].key : p \in Said(s)} \cup {e.key}
  BY <1>2, <1>3
<1>9. ASSUME NEW k \in DOMAIN w PROVE \E p \in LastSaid(t) : t[p].key = k /\ w[k] = t[p] /\ g[k] = t[p].layer
  <2>1. CASE k = e.key
    BY <1>3, <1>4, <1>5, <1>6, <2>1
  <2>2. CASE k # e.key
    <3>1. k \in DOMAIN v
      BY <1>5, <2>2
    <3>2. PICK p \in LastSaid(s) : s[p].key = k /\ v[k] = s[p] /\ f[k] = s[p].layer
      BY <1>1, <3>1
    <3>3. t[p] = s[p] /\ p \in LastSaid(t)
      BY <1>2, <1>4, <1>7, <2>2, <3>2
    <3>4. w[k] = v[k] /\ g[k] = f[k]
      BY <1>1, <1>5, <1>6, <2>2, <3>1
    <3> QED BY <3>2, <3>3, <3>4
  <2> QED BY <2>1, <2>2
<1>10. ScalarKnown(t, w, g)
  BY <1>1, <1>5, <1>6, <1>8, <1>9 DEF ScalarKnown
<1> QED BY <1>10 DEF t, w, g

\* The loop's step for scalars and maps.
LEMMA ScalarStep ==
    ASSUME NEW s \in Seq(Mentions), NEW e \in Mentions, NEW acc, ScalarKnown(s, acc.value, acc.from)
    PROVE  LET r == IF e.delete THEN acc ELSE MergeScalar(acc, e)
           IN  ScalarKnown(Append(s, e), r.value, r.from) /\ r.order = acc.order
<1> DEFINE r == IF e.delete THEN acc ELSE MergeScalar(acc, e)
<1>1. CASE e.delete
  <2> DEFINE t == Append(s, e)
             v == acc.value
             f == acc.from
  <2>1. /\ DOMAIN f = DOMAIN v /\ DOMAIN v = {s[p].key : p \in Said(s)}
        /\ \A k \in DOMAIN v : \E p \in LastSaid(s) : s[p].key = k /\ v[k] = s[p] /\ f[k] = s[p].layer
    BY DEF ScalarKnown
  <2>2. Said(t) = Said(s) /\ \A p \in Said(s) : t[p] = s[p]
    <3>1. Said(t) = Said(s) \cup {} /\ \A p \in Said(s) : t[p] = s[p]
      BY <1>1, SaidOfMore
    <3> HIDE DEF t
    <3> QED BY <3>1
  <2>3. LastSaid(t) = LastSaid(s) /\ LastSaid(s) \subseteq Said(s)
    BY <1>1, LastOfTombstone DEF LastSaid
  <2> HIDE DEF t, v, f
  <2>4. {t[p].key : p \in Said(t)} = {s[p].key : p \in Said(s)}
    BY <2>2
  <2>5. \A k \in DOMAIN v : \E p \in LastSaid(t) : t[p].key = k /\ v[k] = t[p] /\ f[k] = t[p].layer
    BY <2>1, <2>2, <2>3
  <2>6. ScalarKnown(t, v, f)
    BY <2>1, <2>4, <2>5 DEF ScalarKnown
  <2>7. ScalarKnown(Append(s, e), acc.value, acc.from)
    BY <2>6 DEF t, v, f
  <2>8. r = acc
    BY <1>1
  <2> HIDE DEF r
  <2>9. ScalarKnown(Append(s, e), r.value, r.from) /\ r.order = acc.order
    BY <2>7, <2>8
  <2> QED BY <2>9 DEF r
<1>2. CASE ~e.delete
  <2>1. r = [value |-> Put(acc.value, e.key, e), from |-> Put(acc.from, e.key, e.layer), order |-> acc.order]
    BY <1>2 DEF MergeScalar
  <2>2. ScalarKnown(Append(s, e), Put(acc.value, e.key, e), Put(acc.from, e.key, e.layer))
    BY <1>2, ScalarWritten
  <2> HIDE DEF r
  <2>3. r.value = Put(acc.value, e.key, e) /\ r.from = Put(acc.from, e.key, e.layer) /\ r.order = acc.order
    BY <2>1
  <2>4. ScalarKnown(Append(s, e), r.value, r.from)
    BY <2>2, <2>3
  <2> QED BY <2>3, <2>4 DEF r
<1> QED BY <1>1, <1>2

\* The inductive invariant of the merge: what it knows of the entries it has read.
MergeInv ==
    /\ cSaid \in Seq(Mentions) /\ Len(cSaid) <= MaxSaid /\ InOrder(cSaid)
    /\ KeyedKnown(cSaid, cMerged.keyed.value, cMerged.keyed.from, cMerged.keyed.order)
    /\ ListKnown(cSaid, cMerged.list.from, cMerged.list.order)
    /\ ScalarKnown(cSaid, cMerged.scalar.value, cMerged.scalar.from) /\ cMerged.scalar.order = <<>>

\* Before the first entry.
LEMMA MergeInitInv ==
    ASSUME CoInit
    PROVE  MergeInv
<1>1. cSaid = <<>> /\ cMerged = NothingMerged
  BY DEF CoInit
<1>2. cSaid \in Seq(Mentions) /\ Len(cSaid) = 0 /\ 1..Len(cSaid) = {} /\ Len(cSaid) <= MaxSaid
  BY <1>1, LayersAssumption
<1>3. Stands(cSaid) = {} /\ Said(cSaid) = {} /\ InOrder(cSaid)
  BY <1>2 DEF Stands, Said, InOrder
<1> DEFINE a == Acc
<1>4. a.value = <<>> /\ a.from = <<>> /\ a.order = <<>>
  BY DEF Acc
<1>5. cMerged.keyed = a /\ cMerged.list = a /\ cMerged.scalar = a
  BY <1>1 DEF NothingMerged
<1>6. DOMAIN <<>> = {} /\ <<>> \in Seq(MergeKeys) /\ 1..Len(<<>>) = {}
  OBVIOUS
<1>7. \A k : Gone(cSaid, k)
  BY <1>2 DEF Gone
<1> HIDE DEF a
<1>8. KeyedKnown(cSaid, a.value, a.from, a.order)
  <2>1. HoldsStanding(cSaid, a.value, a.from)
    BY <1>3, <1>4, <1>6 DEF HoldsStanding
  <2>2. DOMAIN a.value = {} /\ a.order \in Seq(MergeKeys) /\ 1..Len(a.order) = {}
    BY <1>4, <1>6
  <2> QED BY <1>7, <2>1, <2>2 DEF KeyedKnown
<1>9. ListKnown(cSaid, a.from, a.order) /\ ScalarKnown(cSaid, a.value, a.from)
  <2>2. DOMAIN a.value = {} /\ DOMAIN a.from = {} /\ a.order \in Seq(MergeKeys) /\ 1..Len(a.order) = {}
    BY <1>4, <1>6
  <2> QED BY <1>3, <2>2 DEF ListKnown, ScalarKnown
<1> QED BY <1>2, <1>3, <1>4, <1>5, <1>8, <1>9 DEF MergeInv

\* The next entry is of the same layer or of a more specific one.
LEMMA OrderStep ==
    ASSUME NEW s \in Seq(Mentions), NEW e \in Mentions, InOrder(s),
           s # <<>> => LayerOrder[s[Len(s)].layer] <= LayerOrder[e.layer]
    PROVE  InOrder(Append(s, e))
<1> DEFINE t == Append(s, e)
           n == Len(s)
           L(x) == LayerOrder[x.layer]
<1>1. /\ n \in Nat /\ Len(t) = n + 1 /\ \A i \in 1..n : t[i] = s[i]
      /\ t[n + 1] = e
  BY SaidMore
<1>2. \A x \in Mentions : L(x) \in Nat
  <2>1. \A l \in CLayers : LayerOrder[l] \in Nat
    BY LayersAssumption DEF LayerOrder
  <2> QED BY <2>1, MentionFields
<1>3. \A i \in 1..n : s[i] \in Mentions
  OBVIOUS
<1>4. \A i, j \in 1..n : i <= j => L(s[i]) <= L(s[j])
  BY DEF InOrder
<1>5. n > 0 => L(s[n]) <= L(e)
  BY <1>1
<1> HIDE DEF t, n, L
<1>6. ASSUME NEW i \in 1..(n + 1), NEW j \in 1..(n + 1), i <= j PROVE L(t[i]) <= L(t[j])
  <2>1. CASE j # n + 1
    <3>1. i \in 1..n /\ j \in 1..n
      BY <1>1, <1>6, <2>1
    <3> QED BY <1>1, <1>4, <1>6, <3>1
  <2>2. CASE i = n + 1
    <3>1. i = j /\ t[i] = e
      BY <1>1, <1>6, <2>2
    <3>2. L(e) \in Nat
      BY <1>2
    <3> QED BY <3>1, <3>2
  <2>3. CASE j = n + 1 /\ i # n + 1
    <3>1. i \in 1..n /\ n \in 1..n /\ i <= n /\ n > 0
      BY <1>1, <2>3
    <3>2. L(s[i]) <= L(s[n]) /\ L(s[n]) <= L(e)
      BY <1>4, <1>5, <3>1
    <3>3. L(s[i]) \in Nat /\ L(s[n]) \in Nat /\ L(e) \in Nat
      BY <1>2, <1>3, <3>1
    <3>4. L(s[i]) <= L(e)
      BY <3>2, <3>3
    <3> QED BY <1>1, <2>3, <3>1, <3>4
  <2> QED BY <2>1, <2>2, <2>3
<1>7. InOrder(t)
  BY <1>1, <1>6 DEF InOrder, L
<1> QED BY <1>7 DEF t

\* The loop comes to its next entry.
LEMMA MergeStep ==
    ASSUME MergeInv, NEW e \in Mentions, MergeLayers(e)
    PROVE  MergeInv' /\ UNCHANGED <<cRemote, cRows, cReq>>
<1> DEFINE k == MergeKeyed(cMerged.keyed, e)
           l == IF e.delete THEN cMerged.list ELSE MergeList(cMerged.list, e)
           m == IF e.delete THEN cMerged.scalar ELSE MergeScalar(cMerged.scalar, e)
<1>1. /\ Len(cSaid) < MaxSaid
      /\ cSaid # <<>> => LayerOrder[cSaid[Len(cSaid)].layer] <= LayerOrder[e.layer]
      /\ cSaid' = Append(cSaid, e) /\ cMerged' = [keyed |-> k, list |-> l, scalar |-> m]
      /\ UNCHANGED <<cRemote, cRows, cReq>>
  BY DEF MergeLayers
<1>2. /\ cSaid \in Seq(Mentions) /\ InOrder(cSaid)
      /\ KeyedKnown(cSaid, cMerged.keyed.value, cMerged.keyed.from, cMerged.keyed.order)
      /\ ListKnown(cSaid, cMerged.list.from, cMerged.list.order)
      /\ ScalarKnown(cSaid, cMerged.scalar.value, cMerged.scalar.from) /\ cMerged.scalar.order = <<>>
  BY DEF MergeInv
<1>3. KeyedKnown(Append(cSaid, e), k.value, k.from, k.order)
  BY <1>2, KeyedStep
<1>4. ListKnown(Append(cSaid, e), l.from, l.order)
  BY <1>2, ListStep
<1>5. ScalarKnown(Append(cSaid, e), m.value, m.from) /\ m.order = cMerged.scalar.order
  BY <1>2, ScalarStep
<1>6. InOrder(Append(cSaid, e))
  BY <1>1, <1>2, OrderStep
<1>7. cSaid' \in Seq(Mentions) /\ Len(cSaid') <= MaxSaid
  <2>1. Append(cSaid, e) \in Seq(Mentions) /\ Len(cSaid) \in Nat /\ Len(Append(cSaid, e)) = Len(cSaid) + 1
    BY <1>2, SaidMore
  <2> QED BY <1>1, <2>1, LayersAssumption
<1> HIDE DEF k, l, m
<1>8. cMerged'.keyed = k /\ cMerged'.list = l /\ cMerged'.scalar = m
  BY <1>1
<1> QED BY <1>1, <1>2, <1>3, <1>4, <1>5, <1>6, <1>7, <1>8 DEF MergeInv

\* Every other step leaves the merge alone.
LEMMA MergeKept ==
    ASSUME MergeInv, UNCHANGED <<cSaid, cMerged>>
    PROVE  MergeInv'
BY DEF MergeInv

\* The loop's invariant, for every number of entries.
LEMMA MergeNextInv ==
    ASSUME MergeInv, [CoNext]_coVars
    PROVE  MergeInv'
<1>1. ASSUME NEW e \in Mentions, MergeLayers(e) PROVE MergeInv'
  BY <1>1, MergeStep
<1>2. CASE UNCHANGED <<cSaid, cMerged>>
  BY <1>2, MergeKept
<1>3. (\E e \in Mentions : MergeLayers(e)) \/ UNCHANGED <<cSaid, cMerged>>
  BY DEF CoNext, SourceChanges, UpdateConstitution, importConstitution, RefreshConstitutionLayer,
         syncConstitution, RefreshCompare, RefreshWrite, coVars
<1> QED BY <1>1, <1>2, <1>3

\* merge.Layers for any layers, keys and entries, of any number: a keyed list has the
\* last entry of every key that no tombstone ended, where its key came in and under
\* the most specific layer that speaks of it; string lists have every string once, in
\* the order and under the layer that said it first; scalars and maps have what was
\* said last.
THEOREM LayersMergeByPrecedence == CoSpec => []MergeFollowsPrecedence
<1>1. CoInit => MergeInv
  BY MergeInitInv
<1>2. MergeInv /\ [CoNext]_coVars => MergeInv'
  BY MergeNextInv
<1>3. MergeInv => MergeFollowsPrecedence
  <2> SUFFICES ASSUME MergeInv PROVE MergeFollowsPrecedence
    OBVIOUS
  <2>1. /\ cSaid \in Seq(Mentions) /\ InOrder(cSaid)
        /\ KeyedKnown(cSaid, cMerged.keyed.value, cMerged.keyed.from, cMerged.keyed.order)
        /\ ListKnown(cSaid, cMerged.list.from, cMerged.list.order)
        /\ ScalarKnown(cSaid, cMerged.scalar.value, cMerged.scalar.from)
    BY DEF MergeInv
  <2>2. KeyedFollows(cSaid, cMerged.keyed)
    BY <2>1, KnownFollows
  <2>3. ListFollows(cSaid, cMerged.list)
    BY <2>1, ListKnownFollows
  <2>4. ScalarFollows(cSaid, cMerged.scalar)
    BY <2>1, ScalarKnownFollows
  <2> QED BY <2>2, <2>3, <2>4 DEF MergeFollowsPrecedence
<1> QED BY <1>1, <1>2, <1>3, PTL DEF CoSpec
-----------------------------------------------------------------------------
(***************************************************************************)
(* Managed files.  A command may replace the file it has read as long as   *)
(* nobody has changed it since: what it writes keeps what the user wrote.  *)
(***************************************************************************)
Command == [step : CmdSteps, release : Releases, plan : Content, changed : BOOLEAN, oldChanged : BOOLEAN]

\* No sentinel vouches for the user's text, and a file that is not there is empty.
FileFine(f) == f \in Content /\ f.seal # "mine" /\ (~f.there => f.body = "none")

\* What is written as g over f keeps the user's text.
Keeps(strategy, f, g) ==
    /\ f.there => g.there
    /\ f.body = "mine" /\ strategy # "json" => g.body = "mine"
    /\ f.extra => g.extra

CmdFine(c, strategy, file, old) ==
    /\ FileFine(c.plan)
    /\ c.step = "write" /\ ~c.changed => Keeps(strategy, file, c.plan)
    /\ c.step = "remove" /\ ~c.oldChanged => old # "mine"

MInv ==
    /\ mStrategy \in Strategies
    /\ FileFine(mFile)
    /\ mOldFile \in {"absent", "prior", "mine"}
    /\ mLock \in Requests \cup {None}
    /\ mCmd \in [Requests -> Command]
    /\ \A q \in Requests : CmdFine(mCmd[q], mStrategy, mFile, mOldFile)

\* The file that is absent, and the command that is idle.
LEMMA AbsentFine ==
  /\ FileFine(Absent)
  /\ CmdIdle \in Command /\ CmdIdle.plan = Absent /\ CmdIdle.step = "idle"
<1> DEFINE no == FALSE
           yes == TRUE
<1>1. Absent = [there |-> no, parses |-> yes, body |-> "none", seal |-> "none", extra |-> no, legacy |-> no]
  BY DEF Absent
<1>2. CmdIdle = [step |-> "idle", release |-> "old", plan |-> Absent, changed |-> no, oldChanged |-> no]
  BY DEF CmdIdle
<1>3. no \in BOOLEAN /\ yes \in BOOLEAN /\ "none" \in Texts /\ "old" \in Releases /\ "idle" \in CmdSteps
  BY DEF Texts, Releases, CmdSteps
<1> HIDE DEF no, yes
<1>4. Absent \in Content /\ Absent.seal = "none" /\ Absent.body = "none"
  BY <1>1, <1>3 DEF Content
<1>5. CmdIdle \in Command /\ CmdIdle.plan = Absent /\ CmdIdle.step = "idle"
  <2> HIDE DEF Absent
  <2> QED BY <1>2, <1>3, <1>4 DEF Command
<1> QED BY <1>4, <1>5 DEF FileFine

\* A file whose fields are replaced.
LEMMA FileWith ==
  ASSUME NEW f, FileFine(f), NEW t \in BOOLEAN, NEW p \in BOOLEAN, NEW b \in Texts, NEW s \in Texts,
         s # "mine"
  PROVE  /\ FileFine([f EXCEPT !.parses = p]) /\ FileFine([f EXCEPT !.extra = p])
         /\ FileFine([f EXCEPT !.seal = s]) /\ FileFine([f EXCEPT !.body = "none", !.seal = "none"])
         /\ f.there => FileFine([f EXCEPT !.body = b])
<1>1. f \in Content /\ f.seal # "mine" /\ (~f.there => f.body = "none")
  BY DEF FileFine
<1>2. FileFine([f EXCEPT !.parses = p])
  <2> DEFINE g == [f EXCEPT !.parses = p]
  <2>1. g \in Content /\ g.there = f.there /\ g.body = f.body /\ g.seal = f.seal
    BY <1>1 DEF Content
  <2> HIDE DEF g
  <2>2. FileFine(g)
    BY <1>1, <2>1 DEF FileFine
  <2> QED BY <2>2 DEF g
<1>3. FileFine([f EXCEPT !.extra = p])
  <2> DEFINE g == [f EXCEPT !.extra = p]
  <2>1. g \in Content /\ g.there = f.there /\ g.body = f.body /\ g.seal = f.seal
    BY <1>1 DEF Content
  <2> HIDE DEF g
  <2>2. FileFine(g)
    BY <1>1, <2>1 DEF FileFine
  <2> QED BY <2>2 DEF g
<1>4. FileFine([f EXCEPT !.seal = s])
  <2> DEFINE g == [f EXCEPT !.seal = s]
  <2>1. g \in Content /\ g.there = f.there /\ g.body = f.body /\ g.seal = s
    BY <1>1 DEF Content
  <2> HIDE DEF g
  <2>2. FileFine(g)
    BY <1>1, <2>1 DEF FileFine
  <2> QED BY <2>2 DEF g
<1>5. FileFine([f EXCEPT !.body = "none", !.seal = "none"])
  <2> DEFINE g == [f EXCEPT !.body = "none", !.seal = "none"]
  <2>1. "none" \in Texts
    BY DEF Texts
  <2>2. g \in Content /\ g.body = "none" /\ g.seal = "none"
    BY <1>1, <2>1 DEF Content
  <2> HIDE DEF g
  <2>3. FileFine(g)
    BY <1>1, <2>2 DEF FileFine
  <2> QED BY <2>3 DEF g
<1>6. ASSUME f.there PROVE FileFine([f EXCEPT !.body = b])
  <2> DEFINE g == [f EXCEPT !.body = b]
  <2>1. g \in Content /\ g.there = f.there /\ g.body = b /\ g.seal = f.seal
    BY <1>1 DEF Content
  <2> HIDE DEF g
  <2>2. FileFine(g)
    BY <1>1, <1>6, <2>1 DEF FileFine
  <2> QED BY <2>2 DEF g
<1> QED BY <1>2, <1>3, <1>4, <1>5, <1>6

\* What a release writes.
LEMMA RenderedFine ==
  ASSUME NEW f, FileFine(f), NEW b \in Releases
  PROVE  /\ FileFine(Rendered(f, b))
         /\ Rendered(f, b).there /\ (f.extra => Rendered(f, b).extra)
<1> DEFINE yes == TRUE
           no == FALSE
<1>1. f \in Content /\ f.seal # "mine"
  BY DEF FileFine
<1>2. yes \in BOOLEAN /\ no \in BOOLEAN /\ b \in Texts /\ "none" \in Texts /\ b # "mine"
  BY DEF Releases, Texts
<1>3. CASE mStrategy = "json"
  <2> DEFINE g == [f EXCEPT !.there = yes, !.body = b]
  <2>1. Rendered(f, b) = g
    BY <1>3 DEF Rendered, jsonKeyMergeCanonical
  <2>2. g.there
    BY <1>1 DEF Content
  <2> HIDE DEF yes
  <2>3. g \in Content /\ g.seal = f.seal /\ g.extra = f.extra
    BY <1>1, <1>2 DEF Content
  <2> HIDE DEF g
  <2> QED BY <1>1, <2>1, <2>2, <2>3 DEF FileFine
<1>4. CASE mStrategy = "block"
  <2> DEFINE g == [f EXCEPT !.there = yes, !.body = b, !.seal = b, !.legacy = no]
  <2>1. Rendered(f, b) = g
    BY <1>4 DEF Rendered, renderV2Block
  <2>2. g.there
    BY <1>1 DEF Content
  <2> HIDE DEF yes, no
  <2>3. g \in Content /\ g.seal = b /\ g.extra = f.extra
    BY <1>1, <1>2 DEF Content
  <2> HIDE DEF g
  <2> QED BY <1>2, <2>1, <2>2, <2>3 DEF FileFine
<1>5. CASE mStrategy \notin {"json", "block"}
  <2> DEFINE s == IF mStrategy = "whole" THEN b ELSE "none"
             g == [f EXCEPT !.there = yes, !.body = b, !.seal = s]
  <2>1. Rendered(f, b) = g
    BY <1>5 DEF Rendered, renderWholeFile
  <2>2. g.there
    BY <1>1 DEF Content
  <2>3. s \in Texts /\ s # "mine"
    BY <1>2
  <2> HIDE DEF yes, s
  <2>4. g \in Content /\ g.seal = s /\ g.extra = f.extra
    BY <1>1, <1>2, <2>3 DEF Content
  <2> HIDE DEF g
  <2> QED BY <2>1, <2>2, <2>3, <2>4 DEF FileFine
<1> QED BY <1>3, <1>4, <1>5

\* What a command plans to write keeps what the user wrote.
LEMMA PlanKeeps ==
  ASSUME NEW f, FileFine(f), NEW b \in Releases, mStrategy \in Strategies,
         Classify(f, b) \notin {"drifted", "error"}
  PROVE  FileFine(Plan(f, b)) /\ Keeps(mStrategy, f, Plan(f, b))
<1>1. f \in Content /\ f.seal # "mine" /\ (~f.there => f.body = "none")
  BY DEF FileFine
<1>2. b # "mine" /\ "mine" \notin priorsFor(b)
  BY DEF Releases, priorsFor
<1>3. CASE Classify(f, b) \in {"missing", "stale"}
  <2>1. Plan(f, b) = Rendered(f, b)
    BY <1>3 DEF Plan
  <2>2. f.body # "mine" \/ mStrategy = "json"
    BY <1>1, <1>2, <1>3 DEF Classify, ClassifyNoSentinel, markdownBlockClassify, wholeFileClassify, Strategies
  <2>3. /\ FileFine(Rendered(f, b))
        /\ Rendered(f, b).there /\ (f.extra => Rendered(f, b).extra)
    BY RenderedFine
  <2> QED BY <2>1, <2>2, <2>3 DEF Keeps
<1>4. CASE Classify(f, b) = "synced"
  <2> DEFINE no == FALSE
             g == [f EXCEPT !.legacy = no]
  <2>1. Plan(f, b) = g /\ no \in BOOLEAN
    BY <1>4 DEF Plan
  <2> HIDE DEF no
  <2>2. g \in Content /\ g.there = f.there /\ g.body = f.body /\ g.seal = f.seal /\ g.extra = f.extra
    BY <1>1, <2>1 DEF Content
  <2> HIDE DEF g
  <2> QED BY <1>1, <2>1, <2>2 DEF FileFine, Keeps
<1>5. CASE Classify(f, b) \notin {"missing", "stale", "synced"}
  <2>1. Plan(f, b) = f
    BY <1>5 DEF Plan
  <2> QED BY <2>1 DEF Keeps
<1> QED BY <1>3, <1>4, <1>5

\* A command that moves while the files stay.
LEMMA CommandMoves ==
  ASSUME MInv, NEW q \in Requests, NEW c \in Command, CmdFine(c, mStrategy, mFile, mOldFile),
         Cmd(q, c), mLock' \in Requests \cup {None}, UNCHANGED <<mStrategy, mFile, mOldFile>>
  PROVE  MInv'
<1>1. mCmd' \in [Requests -> Command] /\ \A p \in Requests : mCmd'[p] = IF p = q THEN c ELSE mCmd[p]
  BY DEF MInv, Cmd
<1>2. \A p \in Requests : CmdFine(mCmd'[p], mStrategy, mFile, mOldFile)
  BY <1>1 DEF MInv
<1> HIDE DEF CmdFine, FileFine
<1> QED BY <1>1, <1>2 DEF MInv

\* A command that goes to step s and keeps the rest.
LEMMA CommandSteps ==
  ASSUME MInv, NEW q \in Requests, NEW s \in CmdSteps, s \notin {"write", "remove"},
         Step(q, s), mLock' \in Requests \cup {None}, UNCHANGED <<mStrategy, mFile, mOldFile>>
  PROVE  MInv'
<1> DEFINE c == [mCmd[q] EXCEPT !.step = s]
<1>1. mCmd[q] \in Command /\ FileFine(mCmd[q].plan)
  BY DEF MInv, CmdFine
<1>2. c \in Command /\ c.step = s /\ c.plan = mCmd[q].plan
  BY <1>1 DEF Command
<1>3. Cmd(q, c)
  BY DEF Step, Cmd
<1> HIDE DEF c
<1>4. CmdFine(c, mStrategy, mFile, mOldFile)
  BY <1>1, <1>2 DEF CmdFine
<1> QED BY <1>2, <1>3, <1>4, CommandMoves

\* The lock after its holder lets go.
LEMMA UnlockedLock ==
  ASSUME MInv, NEW q \in Requests, Unlocked(q)
  PROVE  mLock' \in Requests \cup {None}
BY DEF MInv, Unlocked

\* The steps of a command that leave the files as they are.
LEMMA CommandInv ==
  ASSUME MInv, NEW q \in Requests,
         \/ \E b \in Releases : SyncAll(q, b) \/ InspectAll(q, b)
         \/ runDoctorFix(q) \/ acquireFileLock(q) \/ SyncClassify(q)
         \/ supersedesGuardedDelete(q) \/ Interrupt(q)
  PROVE  MInv' /\ UNCHANGED <<mFile, mOldFile>>
<1>0. UNCHANGED <<mStrategy, mFile, mOldFile>>
  BY DEF SyncAll, InspectAll, runDoctorFix, acquireFileLock, SyncClassify, supersedesGuardedDelete, Interrupt
<1> SUFFICES MInv'
  BY <1>0
<1>1. mCmd[q] \in Command /\ FileFine(mCmd[q].plan) /\ mLock \in Requests \cup {None} /\ mStrategy \in Strategies
      /\ FileFine(mFile)
  BY DEF MInv, CmdFine
<1>2. ASSUME NEW b \in Releases, SyncAll(q, b) \/ InspectAll(q, b) PROVE MInv'
  <2>1. PICK s \in {"classify", "lock", "inspect", "skipped"} :
          Cmd(q, [CmdIdle EXCEPT !.release = b, !.step = s])
    BY <1>2 DEF SyncAll, InspectAll
  <2> DEFINE c == [CmdIdle EXCEPT !.release = b, !.step = s]
  <2>2. c \in Command /\ c.step = s /\ c.plan = Absent
    <3> HIDE DEF Absent
    <3> QED BY AbsentFine DEF Command, CmdSteps
  <2>3. Cmd(q, c) /\ UNCHANGED mLock
    BY <1>2, <2>1 DEF SyncAll, InspectAll
  <2> HIDE DEF c
  <2>4. CmdFine(c, mStrategy, mFile, mOldFile)
    BY <2>2, AbsentFine DEF CmdFine
  <2> QED BY <1>0, <1>1, <2>2, <2>3, <2>4, CommandMoves
<1>3. ASSUME runDoctorFix(q) PROVE MInv'
  <2>1. PICK s \in {"classify", "lock"} : Step(q, s) /\ UNCHANGED mLock
    BY <1>3 DEF runDoctorFix
  <2>2. s \in CmdSteps /\ s \notin {"write", "remove"} /\ mLock' \in Requests \cup {None}
    BY <1>1, <2>1 DEF CmdSteps
  <2> QED BY <1>0, <2>1, <2>2, CommandSteps
<1>4. ASSUME acquireFileLock(q) PROVE MInv'
  <2>1. Step(q, "classify") /\ mLock' \in Requests \cup {None} /\ "classify" \in CmdSteps
    BY <1>4 DEF acquireFileLock, CmdSteps
  <2> QED BY <1>0, <2>1, CommandSteps
<1>5. ASSUME SyncClassify(q) PROVE MInv'
  <2> DEFINE b == mCmd[q].release
             k == Classify(mFile, b)
             plan == Plan(mFile, b)
             no == FALSE
             c == [mCmd[q] EXCEPT !.step = "write", !.plan = plan, !.changed = no]
  <2>1. CASE Step(q, "skipped") /\ Unlocked(q)
    <3>1. "skipped" \in CmdSteps /\ mLock' \in Requests \cup {None}
      BY <2>1, UnlockedLock DEF CmdSteps
    <3> QED BY <1>0, <2>1, <3>1, CommandSteps
  <2>2. CASE k \notin {"drifted", "error"} /\ Cmd(q, c) /\ UNCHANGED mLock
    <3>1. b \in Releases
      BY <1>1 DEF Command
    <3>2. FileFine(plan) /\ Keeps(mStrategy, mFile, plan)
      <4> HIDE DEF b
      <4> QED BY <1>1, <2>2, <3>1, PlanKeeps
    <3>3. plan \in Content /\ "write" \in CmdSteps /\ no \in BOOLEAN
      BY <3>2 DEF FileFine, CmdSteps
    <3> HIDE DEF plan, no
    <3>4. c \in Command /\ c.step = "write" /\ c.plan = plan
      BY <1>1, <3>3 DEF Command
    <3>5. Cmd(q, c) /\ mLock' \in Requests \cup {None}
      BY <1>1, <2>2
    <3> HIDE DEF c
    <3>6. CmdFine(c, mStrategy, mFile, mOldFile)
      BY <3>2, <3>4 DEF CmdFine
    <3> QED BY <1>0, <3>4, <3>5, <3>6, CommandMoves
  <2> QED BY <1>5, <2>1, <2>2 DEF SyncClassify
<1>6. ASSUME supersedesGuardedDelete(q) PROVE MInv'
  <2> DEFINE no == FALSE
             c == [mCmd[q] EXCEPT !.step = "remove", !.oldChanged = no]
  <2>1. CASE Step(q, "done") /\ Unlocked(q)
    <3>1. "done" \in CmdSteps /\ mLock' \in Requests \cup {None}
      BY <2>1, UnlockedLock DEF CmdSteps
    <3> QED BY <1>0, <2>1, <3>1, CommandSteps
  <2>2. CASE mOldFile = "prior" /\ Cmd(q, c) /\ UNCHANGED mLock
    <3>1. "remove" \in CmdSteps /\ no \in BOOLEAN
      BY DEF CmdSteps
    <3> HIDE DEF no
    <3>2. c \in Command /\ c.step = "remove" /\ c.plan = mCmd[q].plan
      BY <1>1, <3>1 DEF Command
    <3>3. Cmd(q, c) /\ mLock' \in Requests \cup {None}
      BY <1>1, <2>2
    <3> HIDE DEF c
    <3>4. CmdFine(c, mStrategy, mFile, mOldFile)
      BY <1>1, <2>2, <3>2 DEF CmdFine
    <3> QED BY <1>0, <3>2, <3>3, <3>4, CommandMoves
  <2> QED BY <1>6, <2>1, <2>2 DEF supersedesGuardedDelete
<1>7. ASSUME Interrupt(q) PROVE MInv'
  <2>1. Cmd(q, CmdIdle) /\ mLock' \in Requests \cup {None}
    BY <1>7, UnlockedLock DEF Interrupt
  <2>2. CmdIdle \in Command /\ CmdFine(CmdIdle, mStrategy, mFile, mOldFile)
    BY AbsentFine DEF CmdFine
  <2> QED BY <1>0, <2>1, <2>2, CommandMoves
<1> QED BY <1>2, <1>3, <1>4, <1>5, <1>6, <1>7

\* The commands other than q know that the file has changed, if it has.
ToldOf(q) ==
    \A p \in Requests \ {q} :
        /\ mCmd'[p] \in Command /\ mCmd'[p].step = mCmd[p].step /\ mCmd'[p].plan = mCmd[p].plan
        /\ mCmd'[p].oldChanged = mCmd[p].oldChanged
        /\ ~mCmd'[p].changed => mFile' = mFile /\ ~mCmd[p].changed

\* A command that is told stays fine.
LEMMA ToldFine ==
  ASSUME MInv, NEW q, ToldOf(q), UNCHANGED <<mStrategy, mOldFile>>
  PROVE  \A p \in Requests \ {q} : CmdFine(mCmd'[p], mStrategy, mFile', mOldFile)
<1> SUFFICES ASSUME NEW p \in Requests \ {q} PROVE CmdFine(mCmd'[p], mStrategy, mFile', mOldFile)
  OBVIOUS
<1>1. CmdFine(mCmd[p], mStrategy, mFile, mOldFile)
  BY DEF MInv
<1>2. /\ mCmd'[p].step = mCmd[p].step /\ mCmd'[p].plan = mCmd[p].plan
      /\ mCmd'[p].oldChanged = mCmd[p].oldChanged
      /\ ~mCmd'[p].changed => mFile' = mFile /\ ~mCmd[p].changed
  BY DEF ToldOf
<1> HIDE DEF FileFine, Keeps
<1> QED BY <1>1, <1>2 DEF CmdFine

\* A command that is told of a change of the file, or of the older file.
Told(c) == [c EXCEPT !.changed = TRUE]
ToldOld(c) == [c EXCEPT !.oldChanged = (c.step = "remove")]

\* What it is told leaves the rest of a command as it is.
LEMMA ToldRest ==
  ASSUME NEW c \in Command
  PROVE  /\ Told(c) \in Command /\ Told(c).step = c.step /\ Told(c).plan = c.plan
         /\ Told(c).oldChanged = c.oldChanged /\ Told(c).changed
         /\ ToldOld(c) \in Command /\ ToldOld(c).step = c.step /\ ToldOld(c).plan = c.plan
         /\ ToldOld(c).changed = c.changed /\ (c.step = "remove" => ToldOld(c).oldChanged)
<1> DEFINE yes == TRUE
           at == c.step = "remove"
           d == [c EXCEPT !.changed = yes]
           o == [c EXCEPT !.oldChanged = at]
<1>1. Told(c) = d /\ ToldOld(c) = o /\ yes \in BOOLEAN /\ at \in BOOLEAN
  BY DEF Told, ToldOld
<1>2. d.changed /\ (c.step = "remove" => o.oldChanged)
  BY DEF Command
<1> HIDE DEF yes, at
<1>3. d \in Command /\ d.step = c.step /\ d.plan = c.plan /\ d.oldChanged = c.oldChanged
  BY <1>1 DEF Command
<1>4. o \in Command /\ o.step = c.step /\ o.plan = c.plan /\ o.changed = c.changed
  BY <1>1 DEF Command
<1> HIDE DEF d, o
<1> QED BY <1>1, <1>2, <1>3, <1>4

\* The write of a command: what it planned, kept unless the file has changed.
LEMMA WriteInv ==
  ASSUME MInv, NEW q \in Requests, SyncWrite(q)
  PROVE  /\ MInv'
         /\ \A p \in Requests : mCmd'[p].step # mCmd[p].step => p = q
         /\ mOldFile' = mOldFile
         /\ ~mCmd[q].changed => Keeps(mStrategy, mFile, mFile')
<1> DEFINE told == [p \in Requests |-> IF p # q THEN Told(mCmd[p]) ELSE mCmd[p]]
           base == IF mFile' # mFile THEN told ELSE mCmd
<1>1. /\ mCmd[q].step = "write" /\ mFile' = mCmd[q].plan
      /\ mCmd' = [base EXCEPT ![q].step = "supersede"] /\ UNCHANGED <<mStrategy, mOldFile, mLock>>
  BY DEF SyncWrite, Changed, Told
<1>2. mCmd \in [Requests -> Command] /\ CmdFine(mCmd[q], mStrategy, mFile, mOldFile)
  BY DEF MInv
<1>4. \A p \in Requests :
        /\ Told(mCmd[p]) \in Command /\ Told(mCmd[p]).step = mCmd[p].step
        /\ Told(mCmd[p]).plan = mCmd[p].plan /\ Told(mCmd[p]).oldChanged = mCmd[p].oldChanged
        /\ Told(mCmd[p]).changed
  BY <1>2, ToldRest
<1>5. told \in [Requests -> Command]
  BY <1>2, <1>4
<1>6. base \in [Requests -> Command] /\ base[q] = mCmd[q]
  BY <1>2, <1>5
<1>7. \A p \in Requests \ {q} :
        /\ base[p].step = mCmd[p].step /\ base[p].plan = mCmd[p].plan
        /\ base[p].oldChanged = mCmd[p].oldChanged
        /\ ~base[p].changed => mFile' = mFile /\ ~mCmd[p].changed
  BY <1>4
<1> HIDE DEF base
<1> DEFINE c == [mCmd[q] EXCEPT !.step = "supersede"]
<1>8. c \in Command /\ c.step = "supersede" /\ c.plan = mCmd[q].plan
  BY <1>2 DEF Command, CmdSteps
<1>9. mCmd' = [base EXCEPT ![q] = c]
  BY <1>1, <1>6
<1> HIDE DEF c
<1>10. mCmd' \in [Requests -> Command] /\ \A p \in Requests : mCmd'[p] = IF p = q THEN c ELSE base[p]
  BY <1>6, <1>8, <1>9
<1>11. ToldOf(q)
  BY <1>7, <1>10 DEF ToldOf
<1>12. \A p \in Requests : CmdFine(mCmd'[p], mStrategy, mFile', mOldFile)
  <2>1. \A p \in Requests \ {q} : CmdFine(mCmd'[p], mStrategy, mFile', mOldFile)
    BY <1>1, <1>11, ToldFine
  <2>2. CmdFine(c, mStrategy, mFile', mOldFile)
    BY <1>2, <1>8 DEF CmdFine
  <2> QED BY <1>10, <2>1, <2>2
<1>13. FileFine(mFile')
  BY <1>1, <1>2 DEF CmdFine
<1>14. MInv'
  <2> HIDE DEF FileFine, CmdFine
  <2> QED BY <1>1, <1>10, <1>12, <1>13 DEF MInv
<1>15. \A p \in Requests : mCmd'[p].step # mCmd[p].step => p = q
  BY <1>7, <1>10
<1>16. ~mCmd[q].changed => Keeps(mStrategy, mFile, mFile')
  BY <1>1, <1>2 DEF CmdFine
<1> QED BY <1>1, <1>14, <1>15, <1>16

\* The older file goes only if no edit of it is lost.
LEMMA RemoveInv ==
  ASSUME MInv, NEW q \in Requests, RemoveSuperseded(q)
  PROVE  /\ MInv'
         /\ \A p \in Requests : mCmd'[p].step # mCmd[p].step => p = q
         /\ mFile' = mFile
         /\ ~mCmd[q].oldChanged => mOldFile # "mine"
<1> DEFINE c == [mCmd[q] EXCEPT !.step = "done"]
<1>1. /\ mCmd[q].step = "remove" /\ mOldFile' = "absent" /\ mCmd' = [mCmd EXCEPT ![q] = c]
      /\ UNCHANGED <<mStrategy, mFile>> /\ mLock' \in Requests \cup {None}
  BY UnlockedLock DEF RemoveSuperseded, Step
<1>2. mCmd \in [Requests -> Command] /\ \A p \in Requests : CmdFine(mCmd[p], mStrategy, mFile, mOldFile)
  BY DEF MInv
<1>3. c \in Command /\ c.step = "done" /\ c.plan = mCmd[q].plan
  BY <1>2 DEF Command, CmdSteps
<1> HIDE DEF c
<1>4. mCmd' \in [Requests -> Command] /\ \A p \in Requests : mCmd'[p] = IF p = q THEN c ELSE mCmd[p]
  BY <1>1, <1>2, <1>3
<1>5. \A p \in Requests : CmdFine(mCmd'[p], mStrategy, mFile, "absent")
  <2>1. \A p \in Requests : CmdFine(mCmd[p], mStrategy, mFile, "absent")
    BY <1>2 DEF CmdFine
  <2>2. CmdFine(c, mStrategy, mFile, "absent")
    BY <1>2, <1>3 DEF CmdFine
  <2> QED BY <1>4, <2>1, <2>2
<1>6. MInv'
  <2> HIDE DEF FileFine, CmdFine
  <2> QED BY <1>1, <1>4, <1>5 DEF MInv
<1>7. ~mCmd[q].oldChanged => mOldFile # "mine"
  BY <1>1, <1>2 DEF CmdFine
<1> QED BY <1>1, <1>4, <1>6, <1>7

\* A write of the user, who tells every command.
LEMMA UserWritesInv ==
  ASSUME MInv, NEW f, FileFine(f), UserWrites(f)
  PROVE  MInv' /\ \A p \in Requests : mCmd'[p].step = mCmd[p].step
<1>1. /\ mFile' = f /\ mCmd' = [p \in Requests |-> Told(mCmd[p])]
      /\ UNCHANGED <<mStrategy, mOldFile, mLock>>
  BY DEF UserWrites, Told
<1>2. mCmd \in [Requests -> Command]
  BY DEF MInv
<1>4. \A p \in Requests :
        /\ Told(mCmd[p]) \in Command /\ Told(mCmd[p]).step = mCmd[p].step
        /\ Told(mCmd[p]).plan = mCmd[p].plan /\ Told(mCmd[p]).oldChanged = mCmd[p].oldChanged
        /\ Told(mCmd[p]).changed
  BY <1>2, ToldRest
<1>5. mCmd' \in [Requests -> Command] /\ \A p \in Requests : mCmd'[p] = Told(mCmd[p])
  BY <1>1, <1>4
<1>6. \A p \in Requests : CmdFine(mCmd'[p], mStrategy, mFile', mOldFile)
  <2> SUFFICES ASSUME NEW p \in Requests PROVE CmdFine(mCmd'[p], mStrategy, mFile', mOldFile)
    OBVIOUS
  <2>1. CmdFine(mCmd[p], mStrategy, mFile, mOldFile)
    BY DEF MInv
  <2>2. /\ mCmd'[p].step = mCmd[p].step /\ mCmd'[p].plan = mCmd[p].plan
        /\ mCmd'[p].oldChanged = mCmd[p].oldChanged /\ mCmd'[p].changed
    BY <1>4, <1>5
  <2> HIDE DEF FileFine, Keeps
  <2> QED BY <2>1, <2>2 DEF CmdFine
<1>7. MInv'
  <2> HIDE DEF FileFine, CmdFine
  <2> QED BY <1>1, <1>5, <1>6 DEF MInv
<1> QED BY <1>4, <1>5, <1>7

\* The user's edits of the file.
LEMMA UserEditsInv ==
  ASSUME MInv, UserEdits
  PROVE  MInv' /\ \A p \in Requests : mCmd'[p].step = mCmd[p].step
<1> DEFINE yes == TRUE
           np == ~mFile.parses
<1>1. FileFine(mFile) /\ mFile \in Content
  BY DEF MInv, FileFine
<1>2. yes \in BOOLEAN /\ np \in BOOLEAN /\ "mine" \in Texts /\ "none" \in Texts
  BY DEF Texts
<1>3. \/ mFile.there /\ UserWrites([mFile EXCEPT !.body = "mine"])
      \/ UserWrites([mFile EXCEPT !.extra = yes])
      \/ UserWrites([mFile EXCEPT !.body = "none", !.seal = "none"])
      \/ UserWrites([mFile EXCEPT !.seal = "none"])
      \/ UserWrites([mFile EXCEPT !.parses = np])
      \/ UserWrites(Absent)
  BY DEF UserEdits
<1> HIDE DEF yes, np
<1>4. PICK f : FileFine(f) /\ UserWrites(f)
  <2>1. CASE mFile.there /\ UserWrites([mFile EXCEPT !.body = "mine"])
    BY <1>1, <1>2, <2>1, FileWith
  <2>2. CASE UserWrites([mFile EXCEPT !.extra = yes])
    BY <1>1, <1>2, <2>2, FileWith
  <2>3. CASE UserWrites([mFile EXCEPT !.body = "none", !.seal = "none"])
    BY <1>1, <1>2, <2>3, FileWith
  <2>4. CASE UserWrites([mFile EXCEPT !.seal = "none"])
    BY <1>1, <1>2, <2>4, FileWith
  <2>5. CASE UserWrites([mFile EXCEPT !.parses = np])
    BY <1>1, <1>2, <2>5, FileWith
  <2>6. CASE UserWrites(Absent)
    BY <2>6, AbsentFine
  <2> QED BY <1>3, <2>1, <2>2, <2>3, <2>4, <2>5, <2>6
<1> QED BY <1>4, UserWritesInv

\* The user's edit of the older file, which tells the command about to delete it.
LEMMA UserEditsOldInv ==
  ASSUME MInv, UserEditsOld
  PROVE  MInv' /\ \A p \in Requests : mCmd'[p].step = mCmd[p].step
<1>1. /\ mOldFile' = "mine" /\ mCmd' = [p \in Requests |-> ToldOld(mCmd[p])]
      /\ UNCHANGED <<mStrategy, mFile, mLock>>
  BY DEF UserEditsOld, ToldOld
<1>2. mCmd \in [Requests -> Command]
  BY DEF MInv
<1>4. \A p \in Requests :
        /\ ToldOld(mCmd[p]) \in Command /\ ToldOld(mCmd[p]).step = mCmd[p].step
        /\ ToldOld(mCmd[p]).plan = mCmd[p].plan /\ ToldOld(mCmd[p]).changed = mCmd[p].changed
        /\ mCmd[p].step = "remove" => ToldOld(mCmd[p]).oldChanged
  BY <1>2, ToldRest
<1>5. mCmd' \in [Requests -> Command] /\ \A p \in Requests : mCmd'[p] = ToldOld(mCmd[p])
  BY <1>1, <1>4
<1>6. \A p \in Requests : CmdFine(mCmd'[p], mStrategy, mFile, "mine")
  <2> SUFFICES ASSUME NEW p \in Requests PROVE CmdFine(mCmd'[p], mStrategy, mFile, "mine")
    OBVIOUS
  <2>1. CmdFine(mCmd[p], mStrategy, mFile, mOldFile)
    BY DEF MInv
  <2>2. /\ mCmd'[p].step = mCmd[p].step /\ mCmd'[p].plan = mCmd[p].plan
        /\ mCmd'[p].changed = mCmd[p].changed
    BY <1>4, <1>5
  <2>3. mCmd'[p].step = "remove" => mCmd'[p].oldChanged
    BY <1>4, <1>5
  <2> HIDE DEF FileFine, Keeps
  <2> QED BY <2>1, <2>2, <2>3 DEF CmdFine
<1>7. MInv'
  <2> HIDE DEF FileFine, CmdFine
  <2> QED BY <1>1, <1>5, <1>6 DEF MInv
<1> QED BY <1>4, <1>5, <1>7

\* The first state.
LEMMA MInitInv ==
  ASSUME MInit
  PROVE  MInv
<1> DEFINE yes == TRUE
           f == [Absent EXCEPT !.there = yes, !.extra = yes]
           g == [Absent EXCEPT !.there = yes, !.body = "v1", !.seal = "v1", !.legacy = yes]
<1>1. mFile \in {Absent, f, g}
  BY DEF MInit
<1>2. yes \in BOOLEAN /\ "v1" \in Texts /\ Absent \in Content /\ Absent.seal = "none" /\ Absent.body = "none"
  BY AbsentFine DEF Texts, FileFine, Absent
<1> HIDE DEF yes, Absent
<1>3. f \in Content /\ f.seal = "none" /\ f.body = "none"
  BY <1>2 DEF Content
<1>4. g \in Content /\ g.seal = "v1" /\ g.there = yes
  BY <1>2 DEF Content
<1> HIDE DEF f, g
<1>5. FileFine(f)
  BY <1>3 DEF FileFine
<1>6. FileFine(g)
  <2>1. g.there
    BY <1>4 DEF yes
  <2> QED BY <1>4, <2>1 DEF FileFine
<1>7. FileFine(mFile)
  BY <1>1, <1>5, <1>6, AbsentFine
<1>8. mCmd = [q \in Requests |-> CmdIdle] /\ mStrategy \in Strategies /\ mLock = None
      /\ mOldFile \in {"absent", "prior", "mine"}
  BY DEF MInit
<1>9. mCmd \in [Requests -> Command] /\ \A q \in Requests : mCmd[q] = CmdIdle
  BY <1>8, AbsentFine
<1>10. CmdFine(CmdIdle, mStrategy, mFile, mOldFile)
  BY AbsentFine DEF CmdFine
<1> HIDE DEF FileFine, CmdFine
<1> QED BY <1>7, <1>8, <1>9, <1>10 DEF MInv

\* No step breaks the invariant, or loses what the user wrote.
LEMMA MNextInv ==
  ASSUME MInv, [MNext]_mVars
  PROVE  /\ MInv'
         /\ \A q \in Requests :
              mCmd'[q].step # mCmd[q].step =>
                /\ ~mCmd[q].changed => Keeps(mStrategy, mFile, mFile')
                /\ ~mCmd[q].oldChanged => (mOldFile = "mine" => mOldFile' = "mine")
<1>0. Keeps(mStrategy, mFile, mFile)
  BY DEF Keeps
<1> HIDE DEF Keeps
<1>1. ASSUME NEW q \in Requests,
             \/ \E b \in Releases : SyncAll(q, b) \/ InspectAll(q, b)
             \/ runDoctorFix(q) \/ acquireFileLock(q) \/ SyncClassify(q)
             \/ supersedesGuardedDelete(q) \/ Interrupt(q)
      PROVE  MInv' /\ UNCHANGED <<mFile, mOldFile>>
  BY <1>1, CommandInv
<1>2. ASSUME NEW q \in Requests, SyncWrite(q)
      PROVE  /\ MInv' /\ mOldFile' = mOldFile
             /\ \A p \in Requests : mCmd'[p].step # mCmd[p].step /\ ~mCmd[p].changed => Keeps(mStrategy, mFile, mFile')
  BY <1>2, WriteInv
<1>3. ASSUME NEW q \in Requests, RemoveSuperseded(q)
      PROVE  /\ MInv' /\ mFile' = mFile
             /\ \A p \in Requests : mCmd'[p].step # mCmd[p].step /\ ~mCmd[p].oldChanged => mOldFile # "mine"
  BY <1>3, RemoveInv
<1>4. CASE UserEdits
  BY <1>4, UserEditsInv
<1>5. CASE UserEditsOld
  BY <1>5, UserEditsOldInv
<1>6. CASE UNCHANGED mVars
  <2>1. UNCHANGED <<mStrategy, mFile, mOldFile, mLock, mCmd>>
    BY <1>6 DEF mVars
  <2> HIDE DEF CmdFine, FileFine
  <2> QED BY <1>0, <2>1 DEF MInv
<1> QED BY <1>0, <1>1, <1>2, <1>3, <1>4, <1>5, <1>6 DEF MNext

\* No command of any release, among any number of them, destroys what the user
\* wrote into a managed file or an older one, unless that was after the command
\* had read the file.
THEOREM UserEditsSurvive == MSpec => EditsSurvive
<1>1. MInv /\ [MNext]_mVars =>
        [\A q \in Requests :
           mCmd'[q].step # mCmd[q].step =>
              /\ ~mCmd[q].changed =>
                   /\ mFile.there => mFile'.there
                   /\ mFile.body = "mine" /\ mStrategy # "json" => mFile'.body = "mine"
                   /\ mFile.extra => mFile'.extra
              /\ ~mCmd[q].oldChanged => (mOldFile = "mine" => mOldFile' = "mine")]_mVars
  BY MNextInv DEF Keeps
<1>2. MInv /\ [MNext]_mVars => MInv'
  BY MNextInv
<1> QED BY <1>1, <1>2, MInitInv, PTL DEF MSpec, EditsSurvive
-----------------------------------------------------------------------------
(***************************************************************************)
(* The linter.  A set of specs is grounded if it holds what they wait for  *)
(* and each part of it has a spec that waits for nothing in that part.  As *)
(* long as the walk flags nothing, the specs that it has left are grounded,*)
(* and the union of grounded sets is grounded.                             *)
(***************************************************************************)
LintFrame == [node : LintSpecs, todo : SUBSET LintSpecs]
LintWalk == [pending : SUBSET LintSpecs, stack : Seq(LintFrame), visited : SUBSET LintSpecs,
             found : SUBSET LintSpecs]

\* What each spec waits for.
Waits == [n \in LintSpecs |-> GetDependencies(n)]

Grounded(D, G) ==
    /\ G \subseteq LintSpecs
    /\ \A v \in G : D[v] \subseteq G
    /\ \A T \in SUBSET G : T # {} => \E t \in T : D[t] \cap T = {}

Nodes(st) == {st[i].node : i \in 1 .. Len(st)}
Left(w) == w.visited \ Nodes(w.stack)

\* No spec is twice on the stack, and what a spec on it waits for is still to be
\* walked, has been left, or is the next one on the stack.
StackFine(D, st, left) ==
    /\ \A i, j \in 1 .. Len(st) : st[i].node = st[j].node => i = j
    /\ \A i \in 1 .. Len(st) : \A d \in D[st[i].node] :
         d \in st[i].todo \/ d \in left \/ (i < Len(st) /\ d = st[i + 1].node)

WalkFine(D, w) ==
    w.found = {} =>
        /\ Nodes(w.stack) \subseteq w.visited
        /\ StackFine(D, w.stack, Left(w))
        /\ Grounded(D, Left(w))
        /\ \E G : Grounded(D, G) /\ LintSpecs \subseteq w.pending \cup w.visited \cup G

GInv ==
    /\ gDepends \subseteq Pairs /\ gBlocks \subseteq Pairs
    /\ gWalk \in LintWalk
    /\ WalkFine(Waits, gWalk)

\* Two grounded sets are grounded together.
LEMMA GroundedUnion ==
  ASSUME NEW D, NEW G, NEW H, Grounded(D, G), Grounded(D, H)
  PROVE  Grounded(D, G \cup H)
<1>1. G \cup H \subseteq LintSpecs /\ \A v \in G \cup H : D[v] \subseteq G \cup H
  BY DEF Grounded
<1>2. ASSUME NEW T \in SUBSET (G \cup H), T # {}
      PROVE  \E t \in T : D[t] \cap T = {}
  <2>1. CASE T \cap G = {}
    <3>1. T \in SUBSET H
      BY <2>1
    <3> QED BY <1>2, <3>1 DEF Grounded
  <2>2. CASE T \cap G # {}
    <3> DEFINE U == T \cap G
    <3>1. U \in SUBSET G /\ U # {}
      BY <2>2
    <3>2. PICK t \in U : D[t] \cap U = {}
      <4> HIDE DEF U
      <4> QED BY <3>1 DEF Grounded
    <3>3. D[t] \subseteq G
      BY <3>2 DEF Grounded
    <3> QED BY <3>2, <3>3
  <2> QED BY <2>1, <2>2
<1> QED BY <1>1, <1>2 DEF Grounded

\* A spec that waits only for specs of a grounded set joins it.
LEMMA GroundedExtends ==
  ASSUME NEW D, NEW G, Grounded(D, G), NEW v \in LintSpecs, v \notin G, D[v] \subseteq G
  PROVE  Grounded(D, G \cup {v})
<1>1. G \cup {v} \subseteq LintSpecs /\ \A u \in G \cup {v} : D[u] \subseteq G \cup {v}
  BY DEF Grounded
<1>2. ASSUME NEW T \in SUBSET (G \cup {v}), T # {}
      PROVE  \E t \in T : D[t] \cap T = {}
  <2>1. CASE T = {v}
    BY <2>1
  <2>2. CASE T # {v}
    <3> DEFINE U == T \ {v}
    <3>1. U \in SUBSET G /\ U # {}
      BY <1>2, <2>2
    <3>2. PICK t \in U : D[t] \cap U = {}
      <4> HIDE DEF U
      <4> QED BY <3>1 DEF Grounded
    <3>3. D[t] \subseteq G
      BY <3>1, <3>2 DEF Grounded
    <3> QED BY <3>2, <3>3
  <2> QED BY <2>1, <2>2
<1> QED BY <1>1, <1>2 DEF Grounded

\* The stack with another top.
ReTop(st, x) == Front(st) \o <<x>>

\* The stack with another top, and without its top.
LEMMA TopReplaced ==
  ASSUME NEW st \in Seq(LintFrame), st # <<>>, NEW x \in LintFrame
  PROVE  /\ Len(st) \in Nat \ {0} /\ Last(st) = st[Len(st)] /\ Last(st) \in LintFrame
         /\ ReTop(st, x) \in Seq(LintFrame) /\ Len(ReTop(st, x)) = Len(st)
         /\ ReTop(st, x)[Len(st)] = x /\ \A i \in 1 .. Len(st) : i # Len(st) => ReTop(st, x)[i] = st[i]
         /\ Front(st) \in Seq(LintFrame) /\ Len(Front(st)) = Len(st) - 1
         /\ \A i \in 1 .. Len(st) - 1 : Front(st)[i] = st[i]
<1>1. Len(st) \in Nat \ {0}
  OBVIOUS
<1>2. Last(st) = st[Len(st)] /\ Last(st) \in LintFrame
  BY <1>1 DEF Last
<1>3. Front(st) = SubSeq(st, 1, Len(st) - 1)
  BY DEF Front
<1>4. /\ Front(st) \in Seq(LintFrame) /\ Len(Front(st)) = Len(st) - 1
      /\ \A i \in 1 .. Len(st) - 1 : Front(st)[i] = st[i]
  <2> DEFINE n == Len(st) - 1
  <2>1. n \in Nat /\ 1 \in Int /\ n \in Int /\ \A i \in 1 .. n : st[i] \in LintFrame
    BY <1>1
  <2> HIDE DEF n
  <2>2. /\ SubSeq(st, 1, n) \in Seq(LintFrame) /\ Len(SubSeq(st, 1, n)) = IF 1 <= n THEN n - 1 + 1 ELSE 0
        /\ \A i \in 1 .. n - 1 + 1 : SubSeq(st, 1, n)[i] = st[1 + i - 1]
    BY <2>1, SubSeqProperties
  <2>3. Len(SubSeq(st, 1, n)) = n /\ \A i \in 1 .. n : SubSeq(st, 1, n)[i] = st[i]
    BY <2>1, <2>2
  <2> QED BY <1>3, <2>2, <2>3 DEF n
<1> HIDE DEF Front
<1>5. /\ Front(st) \o <<x>> \in Seq(LintFrame) /\ Len(Front(st) \o <<x>>) = Len(st)
      /\ \A i \in 1 .. Len(st) : (Front(st) \o <<x>>)[i] = IF i = Len(st) THEN x ELSE st[i]
  BY <1>1, <1>4
<1>6. Len(st) \in 1 .. Len(st)
  BY <1>1
<1> QED BY <1>1, <1>2, <1>4, <1>5, <1>6 DEF ReTop

\* What the graph says does not change.
LEMMA WaitsStay ==
  ASSUME UNCHANGED <<gDepends, gBlocks>>
  PROVE  Waits' = Waits
BY DEF Waits, GetDependencies

\* The walk is that of specs.
LEMMA WalkTypes ==
  ASSUME GInv
  PROVE  /\ gWalk \in LintWalk /\ gWalk.stack \in Seq(LintFrame) /\ gWalk.pending \subseteq LintSpecs
         /\ gWalk.visited \subseteq LintSpecs /\ gWalk.found \subseteq LintSpecs
         /\ \A n \in LintSpecs : Waits[n] = GetDependencies(n) /\ Waits[n] \subseteq LintSpecs
<1>1. gWalk \in LintWalk
  BY DEF GInv
<1>2. /\ gWalk.stack \in Seq(LintFrame) /\ gWalk.pending \subseteq LintSpecs
      /\ gWalk.visited \subseteq LintSpecs /\ gWalk.found \subseteq LintSpecs
  BY <1>1 DEF LintWalk
<1>3. \A n \in LintSpecs : Waits[n] = GetDependencies(n) /\ GetDependencies(n) \subseteq LintSpecs
  BY DEF Waits, GetDependencies
<1> QED BY <1>1, <1>2, <1>3

\* A step to a walk that is fine.
LEMMA WalkMoves ==
  ASSUME GInv, NEW w \in LintWalk, gWalk' = w, UNCHANGED <<gDepends, gBlocks>>, WalkFine(Waits, w)
  PROVE  GInv'
<1>1. Waits' = Waits
  BY WaitsStay
<1> HIDE DEF WalkFine, Waits
<1> QED BY <1>1 DEF GInv

\* The walk from a spec: what was visited before joins what is grounded.
LEMMA lintSpecInv ==
  ASSUME GInv, NEW n \in LintSpecs, lintSpec(n)
  PROVE  GInv'
<1> DEFINE D == Waits
           fr == Frame(n, GetDependencies(n))
           st == <<fr>>
           rest == gWalk.pending \ {n}
           w == [gWalk EXCEPT !.pending = rest, !.visited = {n}, !.stack = st]
<1>1. gWalk.stack = <<>> /\ n \in gWalk.pending /\ gWalk' = w /\ UNCHANGED <<gDepends, gBlocks>>
  BY DEF lintSpec
<1>2. /\ gWalk \in LintWalk /\ gWalk.pending \subseteq LintSpecs
      /\ D[n] = GetDependencies(n) /\ D[n] \subseteq LintSpecs
  BY WalkTypes
<1>3. fr \in LintFrame /\ fr.node = n /\ fr.todo = D[n]
  BY <1>2 DEF LintFrame, Frame
<1>4. st \in Seq(LintFrame) /\ Len(st) = 1 /\ st[1] = fr
  BY <1>3
<1> HIDE DEF st, fr, rest
<1>5. w \in LintWalk /\ w.pending = rest /\ w.visited = {n} /\ w.stack = st /\ w.found = gWalk.found
  BY <1>2, <1>4 DEF LintWalk, rest
<1> HIDE DEF w
<1>6. ASSUME w.found = {}
      PROVE  /\ Nodes(w.stack) \subseteq w.visited
             /\ StackFine(D, w.stack, Left(w))
             /\ Grounded(D, Left(w))
             /\ \E G : Grounded(D, G) /\ LintSpecs \subseteq w.pending \cup w.visited \cup G
  <2>1. Nodes(st) = {n}
    BY <1>3, <1>4 DEF Nodes
  <2>2. Left(w) = {}
    BY <1>5, <2>1 DEF Left
  <2>3. StackFine(D, st, {})
    BY <1>3, <1>4 DEF StackFine
  <2>4. Grounded(D, {})
    BY DEF Grounded
  <2>5. Nodes(gWalk.stack) = {}
    BY <1>1 DEF Nodes
  <2>6. Left(gWalk) = gWalk.visited
    BY <2>5 DEF Left
  <2>7. /\ Grounded(D, Left(gWalk))
        /\ \E G : Grounded(D, G) /\ LintSpecs \subseteq gWalk.pending \cup gWalk.visited \cup G
    BY <1>5, <1>6 DEF GInv, WalkFine
  <2>8. PICK G : Grounded(D, G) /\ LintSpecs \subseteq gWalk.pending \cup gWalk.visited \cup G
    BY <2>7
  <2> HIDE DEF D
  <2>9. Grounded(D, gWalk.visited \cup G)
    BY <2>6, <2>7, <2>8, GroundedUnion
  <2>10. LintSpecs \subseteq w.pending \cup w.visited \cup (gWalk.visited \cup G)
    BY <1>5, <2>8 DEF rest
  <2> QED BY <1>5, <2>1, <2>2, <2>3, <2>4, <2>9, <2>10
<1>7. WalkFine(Waits, w)
  BY <1>6 DEF WalkFine
<1> QED BY <1>1, <1>5, <1>7, WalkMoves

\* The top of the stack has one dependency less to walk, which has been left or
\* comes next on the stack.
LEMMA TopShrinks ==
  ASSUME NEW st \in Seq(LintFrame), st # <<>>, NEW m
  PROVE  LET rest == ReTop(st, Frame(Last(st).node, Last(st).todo \ {m})) IN
         /\ rest \in Seq(LintFrame) /\ Len(rest) = Len(st) /\ Len(rest) \in Nat \ {0}
         /\ Nodes(rest) = Nodes(st)
         /\ \A i \in 1 .. Len(rest) : rest[i].node = st[i].node
         /\ \A i \in 1 .. Len(rest) : i # Len(rest) => rest[i] = st[i]
         /\ rest[Len(rest)].todo = st[Len(rest)].todo \ {m}
<1> DEFINE fr == Frame(Last(st).node, Last(st).todo \ {m})
           rest == ReTop(st, fr)
<1>1. Last(st) \in LintFrame /\ Last(st) = st[Len(st)]
  <2>1. Len(st) \in Nat \ {0}
    OBVIOUS
  <2> QED BY <2>1 DEF Last
<1>2. fr \in LintFrame /\ fr.node = st[Len(st)].node /\ fr.todo = st[Len(st)].todo \ {m}
  BY <1>1 DEF LintFrame, Frame
<1> HIDE DEF fr
<1>3. /\ Len(st) \in Nat \ {0} /\ rest \in Seq(LintFrame) /\ Len(rest) = Len(st)
      /\ rest[Len(st)] = fr /\ \A i \in 1 .. Len(st) : i # Len(st) => rest[i] = st[i]
  BY <1>2, TopReplaced
<1> HIDE DEF rest
<1>4. \A i \in 1 .. Len(st) : rest[i].node = st[i].node
  BY <1>2, <1>3
<1>5. Nodes(rest) = Nodes(st)
  BY <1>3, <1>4 DEF Nodes
<1>6. rest[Len(rest)].todo = st[Len(rest)].todo \ {m}
  BY <1>2, <1>3
<1> QED BY <1>3, <1>4, <1>5, <1>6 DEF rest, fr

\* A dependency of the top of the stack that the walk has left, that is on the
\* stack, too deep, or new.
LEMMA dfsInv ==
  ASSUME GInv, NEW m \in LintSpecs, dfs(m)
  PROVE  GInv'
<1> DEFINE D == Waits
           st == gWalk.stack
           rest == ReTop(st, Frame(Last(st).node, Last(st).todo \ {m}))
           seen == gWalk.visited \cup {m}
           flagged == gWalk.found \cup {m}
           fr == Frame(m, GetDependencies(m))
           w1 == [gWalk EXCEPT !.stack = rest, !.found = flagged]
           w2 == [gWalk EXCEPT !.stack = rest]
           w3 == [gWalk EXCEPT !.stack = rest, !.visited = seen, !.found = flagged]
           w4 == [gWalk EXCEPT !.stack = Append(rest, fr), !.visited = seen]
<1>1. UNCHANGED <<gDepends, gBlocks>>
  BY DEF dfs
<1>2. \/ gWalk' = w1
      \/ ~InStack(m) /\ m \in gWalk.visited /\ gWalk' = w2
      \/ gWalk' = w3
      \/ ~InStack(m) /\ m \notin gWalk.visited /\ gWalk' = w4
  BY DEF dfs, ReTop
<1>3. /\ gWalk \in LintWalk /\ st \in Seq(LintFrame)
      /\ gWalk.visited \subseteq LintSpecs /\ gWalk.found \subseteq LintSpecs
      /\ \A n \in LintSpecs : D[n] = GetDependencies(n) /\ D[n] \subseteq LintSpecs
  BY WalkTypes
<1>4. /\ rest \in Seq(LintFrame) /\ Len(rest) = Len(st) /\ Len(rest) \in Nat \ {0}
      /\ Nodes(rest) = Nodes(st)
      /\ \A i \in 1 .. Len(rest) : rest[i].node = st[i].node
      /\ \A i \in 1 .. Len(rest) : i # Len(rest) => rest[i] = st[i]
      /\ rest[Len(rest)].todo = st[Len(rest)].todo \ {m}
  <2>1. st # <<>>
    BY DEF dfs
  <2> HIDE DEF st
  <2> QED BY <1>3, <2>1, TopShrinks
<1>5. ~InStack(m) => m \notin Nodes(st)
  <2>1. DOMAIN st = 1 .. Len(st)
    BY <1>3
  <2> QED BY <2>1 DEF InStack, Nodes
<1> HIDE DEF st, rest, seen, flagged
\* A flag ends what the invariant says.
<1>6. CASE gWalk' = w1 \/ gWalk' = w3
  <2>1. flagged \in SUBSET LintSpecs /\ seen \in SUBSET LintSpecs /\ flagged # {}
    BY <1>3 DEF flagged, seen
  <2>2. w1 \in LintWalk /\ w1.found = flagged /\ w3 \in LintWalk /\ w3.found = flagged
    BY <1>3, <1>4, <2>1 DEF LintWalk
  <2> HIDE DEF w1, w3
  <2>3. WalkFine(Waits, w1) /\ WalkFine(Waits, w3)
    BY <2>1, <2>2 DEF WalkFine
  <2> QED BY <1>1, <1>6, <2>2, <2>3, WalkMoves
<1>7. CASE ~InStack(m) /\ m \in gWalk.visited /\ gWalk' = w2
  <2>1. /\ w2 \in LintWalk /\ w2.stack = rest /\ w2.visited = gWalk.visited /\ w2.found = gWalk.found
        /\ w2.pending = gWalk.pending
    BY <1>3, <1>4 DEF LintWalk
  <2> HIDE DEF w2
  <2>2. Left(w2) = Left(gWalk) /\ m \in Left(gWalk)
    BY <1>4, <1>5, <1>7, <2>1 DEF Left, st
  <2>3. ASSUME w2.found = {}
        PROVE  /\ Nodes(w2.stack) \subseteq w2.visited
               /\ StackFine(D, w2.stack, Left(w2))
               /\ Grounded(D, Left(w2))
               /\ \E G : Grounded(D, G) /\ LintSpecs \subseteq w2.pending \cup w2.visited \cup G
    <3>1. /\ Nodes(st) \subseteq gWalk.visited /\ StackFine(D, st, Left(gWalk)) /\ Grounded(D, Left(gWalk))
          /\ \E G : Grounded(D, G) /\ LintSpecs \subseteq gWalk.pending \cup gWalk.visited \cup G
      BY <2>1, <2>3 DEF GInv, WalkFine, st
    <3> HIDE DEF D
    <3>2. StackFine(D, rest, Left(gWalk))
      <4>1. \A i, j \in 1 .. Len(rest) : rest[i].node = rest[j].node => i = j
        BY <1>4, <3>1 DEF StackFine
      <4>2. ASSUME NEW i \in 1 .. Len(rest), NEW d \in D[rest[i].node]
            PROVE  d \in rest[i].todo \/ d \in Left(gWalk) \/ (i < Len(rest) /\ d = rest[i + 1].node)
        <5>1. d \in st[i].todo \/ d \in Left(gWalk) \/ (i < Len(st) /\ d = st[i + 1].node)
          BY <1>4, <3>1, <4>2 DEF StackFine
        <5>2. i < Len(rest) => i + 1 \in 1 .. Len(rest)
          BY <1>4
        <5>3. rest[i].todo = st[i].todo \/ rest[i].todo = st[i].todo \ {m}
          BY <1>4
        <5> QED BY <1>4, <2>2, <5>1, <5>2, <5>3
      <4> QED BY <4>1, <4>2 DEF StackFine
    <3> QED BY <1>4, <2>1, <2>2, <3>1, <3>2
  <2>4. WalkFine(Waits, w2)
    BY <2>3 DEF WalkFine
  <2> QED BY <1>1, <1>7, <2>1, <2>4, WalkMoves
<1>8. CASE ~InStack(m) /\ m \notin gWalk.visited /\ gWalk' = w4
  <2> DEFINE up == Append(rest, fr)
             k == Len(rest)
  <2>1. fr \in LintFrame /\ fr.node = m /\ fr.todo = D[m]
    BY <1>3 DEF LintFrame, Frame
  <2> HIDE DEF fr
  <2>2. /\ up \in Seq(LintFrame) /\ Len(up) = k + 1 /\ k \in Nat
        /\ up[k + 1] = fr /\ \A i \in 1 .. k : up[i] = rest[i]
    BY <1>4, <2>1
  <2>3. seen \in SUBSET LintSpecs
    BY <1>3 DEF seen
  <2>4. gWalk' = [gWalk EXCEPT !.stack = up, !.visited = seen]
    BY <1>8
  <2> HIDE DEF up, w4
  <2> DEFINE w == [gWalk EXCEPT !.stack = up, !.visited = seen]
  <2>5. /\ w \in LintWalk /\ w.stack = up /\ w.visited = seen /\ w.found = gWalk.found
        /\ w.pending = gWalk.pending /\ gWalk' = w
    BY <1>3, <2>2, <2>3, <2>4 DEF LintWalk
  <2> HIDE DEF w
  <2>6. Nodes(up) = Nodes(st) \cup {m}
    <3>1. \A i \in 1 .. k + 1 : i \in 1 .. k \/ i = k + 1
      BY <2>2
    <3>2. 1 .. k \subseteq 1 .. k + 1 /\ k + 1 \in 1 .. k + 1
      BY <2>2
    <3>3. Nodes(up) = Nodes(rest) \cup {m}
      <4> HIDE DEF k
      <4>1. \A x : x \in Nodes(up) <=> \E i \in 1 .. k + 1 : x = up[i].node
        BY <2>2 DEF Nodes
      <4>2. \A x : x \in Nodes(rest) <=> \E i \in 1 .. k : x = rest[i].node
        BY DEF Nodes, k
      <4> QED BY <2>1, <2>2, <3>1, <3>2, <4>1, <4>2
    <3> QED BY <1>4, <3>3
  <2>7. Left(w) = Left(gWalk)
    BY <1>8, <2>5, <2>6 DEF Left, seen, st
  <2>8. ASSUME w.found = {}
        PROVE  /\ Nodes(w.stack) \subseteq w.visited
               /\ StackFine(D, w.stack, Left(w))
               /\ Grounded(D, Left(w))
               /\ \E G : Grounded(D, G) /\ LintSpecs \subseteq w.pending \cup w.visited \cup G
    <3>1. /\ Nodes(st) \subseteq gWalk.visited /\ StackFine(D, st, Left(gWalk)) /\ Grounded(D, Left(gWalk))
          /\ \E G : Grounded(D, G) /\ LintSpecs \subseteq gWalk.pending \cup gWalk.visited \cup G
      BY <2>5, <2>8 DEF GInv, WalkFine, st
    <3> HIDE DEF D
    <3>2. Nodes(w.stack) \subseteq w.visited
      BY <2>5, <2>6, <3>1 DEF seen
    <3>3. \E G : Grounded(D, G) /\ LintSpecs \subseteq w.pending \cup w.visited \cup G
      BY <2>5, <3>1 DEF seen
    <3>4. StackFine(D, up, Left(gWalk))
      <4>1. \A i, j \in 1 .. Len(up) : up[i].node = up[j].node => i = j
        <5> SUFFICES ASSUME NEW i \in 1 .. k + 1, NEW j \in 1 .. k + 1, up[i].node = up[j].node
                     PROVE  i = j
          BY <2>2
        <5>1. \A x \in 1 .. k : up[x].node = st[x].node /\ up[x].node # m
          <6>1. \A x \in 1 .. k : st[x].node \in Nodes(st)
            BY <1>4 DEF Nodes
          <6> QED BY <1>4, <1>5, <1>8, <2>2, <6>1
        <5>2. i \in 1 .. k \/ i = k + 1
          BY <2>2
        <5>3. j \in 1 .. k \/ j = k + 1
          BY <2>2
        <5>4. \A x, y \in 1 .. k : st[x].node = st[y].node => x = y
          BY <1>4, <3>1 DEF StackFine
        <5> HIDE DEF k
        <5> QED BY <2>1, <2>2, <5>1, <5>2, <5>3, <5>4
      <4>2. ASSUME NEW i \in 1 .. Len(up), NEW d \in D[up[i].node]
            PROVE  d \in up[i].todo \/ d \in Left(gWalk) \/ (i < Len(up) /\ d = up[i + 1].node)
        <5>1. i \in 1 .. k \/ i = k + 1
          BY <2>2
        <5>2. CASE i = k + 1
          BY <2>1, <2>2, <4>2, <5>2
        <5>3. CASE i \in 1 .. k
          <6>1. up[i] = rest[i] /\ rest[i].node = st[i].node /\ i < Len(up)
            BY <1>4, <2>2, <5>3
          <6>2. d \in st[i].todo \/ d \in Left(gWalk) \/ (i < k /\ d = st[i + 1].node)
            BY <1>4, <3>1, <4>2, <5>3, <6>1 DEF StackFine
          <6>3. i < k => i + 1 \in 1 .. k
            BY <2>2, <5>3
          <6>4. i < k => up[i].todo = st[i].todo /\ up[i + 1].node = st[i + 1].node
            BY <1>4, <2>2, <5>3, <6>1, <6>3
          <6>5. i = k => up[i].todo = st[i].todo \ {m} /\ up[i + 1].node = m
            BY <1>4, <2>1, <2>2, <6>1
          <6>6. i < k \/ i = k
            BY <2>2, <5>3
          <6> HIDE DEF k
          <6> QED BY <6>1, <6>2, <6>4, <6>5, <6>6
        <5> QED BY <5>1, <5>2, <5>3
      <4> QED BY <4>1, <4>2 DEF StackFine
    <3> QED BY <2>5, <2>7, <3>1, <3>2, <3>3, <3>4
  <2>9. WalkFine(Waits, w)
    BY <2>8 DEF WalkFine
  <2> QED BY <1>1, <2>5, <2>9, WalkMoves
<1> QED BY <1>2, <1>6, <1>7, <1>8

\* The return from a spec, whose dependencies have all been left.
LEMMA dfsReturnInv ==
  ASSUME GInv, dfsReturn
  PROVE  GInv'
<1> DEFINE D == Waits
           st == gWalk.stack
           low == Front(st)
           k == Len(st)
           v == st[k].node
           w == [gWalk EXCEPT !.stack = low]
<1>1. st # <<>> /\ Last(st).todo = {} /\ gWalk' = w /\ UNCHANGED <<gDepends, gBlocks>>
  BY DEF dfsReturn
<1>2. /\ gWalk \in LintWalk /\ st \in Seq(LintFrame)
  BY WalkTypes
<1>3. /\ k \in Nat \ {0} /\ Last(st) = st[k] /\ Last(st) \in LintFrame
      /\ low \in Seq(LintFrame) /\ Len(low) = k - 1
      /\ \A i \in 1 .. k - 1 : low[i] = st[i]
  <2> HIDE DEF st
  <2>1. k \in Nat \ {0} /\ st[k] \in LintFrame
    BY <1>1, <1>2
  <2> HIDE DEF k
  <2> QED BY <1>1, <1>2, <2>1, TopReplaced DEF k
<1>4. v \in LintSpecs /\ st[k].todo = {}
  BY <1>1, <1>3 DEF LintFrame
<1> HIDE DEF low, st
<1>5. /\ w \in LintWalk /\ w.stack = low /\ w.visited = gWalk.visited /\ w.found = gWalk.found
      /\ w.pending = gWalk.pending
  BY <1>2, <1>3 DEF LintWalk
<1> HIDE DEF w
<1>6. ASSUME w.found = {}
      PROVE  /\ Nodes(w.stack) \subseteq w.visited
             /\ StackFine(D, w.stack, Left(w))
             /\ Grounded(D, Left(w))
             /\ \E G : Grounded(D, G) /\ LintSpecs \subseteq w.pending \cup w.visited \cup G
  <2>1. /\ Nodes(st) \subseteq gWalk.visited /\ StackFine(D, st, Left(gWalk)) /\ Grounded(D, Left(gWalk))
        /\ \E G : Grounded(D, G) /\ LintSpecs \subseteq gWalk.pending \cup gWalk.visited \cup G
    BY <1>5, <1>6 DEF GInv, WalkFine, st
  <2> HIDE DEF D
  <2>2. \A i, j \in 1 .. k : st[i].node = st[j].node => i = j
    BY <2>1 DEF StackFine
  <2>3. Nodes(st) = Nodes(low) \cup {v} /\ v \notin Nodes(low)
    <3>1. \A i \in 1 .. k : i \in 1 .. k - 1 \/ i = k
      BY <1>3
    <3>2. 1 .. k - 1 \subseteq 1 .. k /\ k \in 1 .. k /\ k \notin 1 .. k - 1
      BY <1>3
    <3>3. \A x : x \in Nodes(st) <=> \E i \in 1 .. k : x = st[i].node
      BY DEF Nodes
    <3>4. \A x : x \in Nodes(low) <=> \E i \in 1 .. k - 1 : x = st[i].node
      BY <1>3 DEF Nodes
    <3> HIDE DEF k
    <3>5. Nodes(st) = Nodes(low) \cup {v}
      BY <3>1, <3>2, <3>3, <3>4
    <3>6. v \notin Nodes(low)
      BY <2>2, <3>2, <3>4
    <3> QED BY <3>5, <3>6
  <2>4. v \in gWalk.visited /\ v \notin Left(gWalk)
    BY <2>1, <2>3 DEF Left, st
  <2>5. Left(w) = Left(gWalk) \cup {v}
    BY <1>5, <2>3, <2>4 DEF Left, st
  <2>6. D[v] \subseteq Left(gWalk)
    <3>1. k \in 1 .. Len(st) /\ ~(k < Len(st))
      BY <1>3
    <3> QED BY <1>4, <2>1, <3>1 DEF StackFine
  <2>7. Grounded(D, Left(w))
    BY <1>4, <2>1, <2>4, <2>5, <2>6, GroundedExtends
  <2>8. StackFine(D, low, Left(w))
    <3>1. \A i, j \in 1 .. Len(low) : low[i].node = low[j].node => i = j
      <4>1. 1 .. Len(low) \subseteq 1 .. k /\ \A i \in 1 .. Len(low) : low[i] = st[i]
        BY <1>3
      <4> QED BY <2>2, <4>1
    <3>2. ASSUME NEW i \in 1 .. Len(low), NEW d \in D[low[i].node]
          PROVE  d \in low[i].todo \/ d \in Left(w) \/ (i < Len(low) /\ d = low[i + 1].node)
      <4>1. i \in 1 .. Len(st) /\ low[i] = st[i] /\ i < Len(st)
        BY <1>3
      <4>2. d \in st[i].todo \/ d \in Left(gWalk) \/ d = st[i + 1].node
        BY <2>1, <3>2, <4>1 DEF StackFine
      <4>3. i + 1 = k \/ (i < Len(low) /\ low[i + 1] = st[i + 1])
        <5>1. i + 1 = k \/ (i < Len(low) /\ i + 1 \in 1 .. k - 1)
          BY <1>3, <4>1
        <5> QED BY <1>3, <5>1
      <4>4. i + 1 = k => st[i + 1].node = v
        OBVIOUS
      <4> HIDE DEF v, k
      <4> QED BY <2>5, <4>1, <4>2, <4>3, <4>4
    <3> QED BY <3>1, <3>2 DEF StackFine
  <2> QED BY <1>5, <2>1, <2>3, <2>7, <2>8
<1>7. WalkFine(Waits, w)
  BY <1>6 DEF WalkFine
<1> QED BY <1>1, <1>5, <1>7, WalkMoves

\* The first state.
LEMMA GInitInv ==
  ASSUME GInit
  PROVE  GInv
<1>1. gWalk = [pending |-> LintSpecs, stack |-> <<>>, visited |-> {}, found |-> {}]
  BY DEF GInit
<1>2. gWalk \in LintWalk /\ gWalk.stack = <<>> /\ gWalk.visited = {} /\ gWalk.pending = LintSpecs
  BY <1>1 DEF LintWalk
<1>3. Nodes(gWalk.stack) = {} /\ Left(gWalk) = {}
  BY <1>2 DEF Nodes, Left
<1>4. Grounded(Waits, {}) /\ StackFine(Waits, gWalk.stack, {})
  BY <1>2 DEF Grounded, StackFine
<1>5. \E G : Grounded(Waits, G) /\ LintSpecs \subseteq gWalk.pending \cup gWalk.visited \cup G
  BY <1>2, <1>4
<1>6. WalkFine(Waits, gWalk)
  BY <1>2, <1>3, <1>4, <1>5 DEF WalkFine
<1> QED BY <1>2, <1>6 DEF GInit, GInv

\* Every step keeps the invariant.
LEMMA GNextInv ==
  ASSUME GInv, [GNext]_gVars
  PROVE  GInv'
<1>1. ASSUME NEW n \in LintSpecs, lintSpec(n) \/ dfs(n) PROVE GInv'
  BY <1>1, lintSpecInv, dfsInv
<1>2. ASSUME dfsReturn PROVE GInv'
  BY <1>2, dfsReturnInv
<1>3. ASSUME UNCHANGED gVars PROVE GInv'
  <2>1. UNCHANGED <<gDepends, gBlocks>> /\ gWalk' = gWalk
    BY <1>3 DEF gVars
  <2>2. gWalk \in LintWalk /\ WalkFine(Waits, gWalk)
    BY DEF GInv
  <2> QED BY <2>1, <2>2, WalkMoves
<1> QED BY <1>1, <1>2, <1>3 DEF GNext

\* A graph in which the linter flags no cycle is one in which work never comes to
\* a standstill: any graph that one run lists in full, of any shape and depth.
THEOREM CleanGraphsGetReady == GSpec => []LintCleanMeansReady
<1>1. GInv => LintCleanMeansReady
  <2> SUFFICES ASSUME GInv, gWalk.pending = {}, gWalk.stack = <<>>, gWalk.found = {},
                      NEW finished \in (SUBSET LintSpecs) \ {LintSpecs}
               PROVE  GetReady([s \in LintSpecs |-> IF s \in finished THEN "done" ELSE "approved"]) # {}
    BY DEF LintCleanMeansReady
  <2>1. Nodes(gWalk.stack) = {}
    BY DEF Nodes
  <2>2. Left(gWalk) = gWalk.visited
    BY <2>1 DEF Left
  <2>3. Grounded(Waits, gWalk.visited)
    BY <2>2 DEF GInv, WalkFine
  <2>4. PICK G : Grounded(Waits, G) /\ LintSpecs \subseteq gWalk.visited \cup G
    BY DEF GInv, WalkFine
  <2> DEFINE D == Waits
  <2> HIDE DEF D
  <2>5. Grounded(D, gWalk.visited \cup G)
    BY <2>3, <2>4, GroundedUnion DEF D
  <2> DEFINE T == LintSpecs \ finished
  <2>6. T \in SUBSET (gWalk.visited \cup G) /\ T # {}
    BY <2>4
  <2>7. PICK t \in T : D[t] \cap T = {}
    <3> HIDE DEF T
    <3> QED BY <2>5, <2>6 DEF Grounded
  <2>8. \A d \in LintSpecs : <<t, d>> \in gDepends \/ <<d, t>> \in gBlocks => d \in finished
    <3>1. D[t] = GetDependencies(t)
      BY <2>7, WalkTypes DEF D
    <3> QED BY <2>7, <3>1 DEF GetDependencies
  <2> DEFINE stage == [s \in LintSpecs |-> IF s \in finished THEN "done" ELSE "approved"]
  <2>9. stage[t] = "approved" /\ \A d \in finished : stage[d] = "done"
    BY <2>7
  <2> HIDE DEF stage
  <2>10. t \in GetReady(stage)
    BY <2>7, <2>8, <2>9 DEF GetReady
  <2> QED BY <2>10 DEF stage
<1> QED BY <1>1, GInitInv, GNextInv, PTL DEF GSpec
-----------------------------------------------------------------------------
(***************************************************************************)
(* The front ends.  A caller's role counts when the interceptor judges a   *)
(* call, and not when the tool was chosen or the handler runs: so what     *)
(* readers may call is all that matters to ReadersChangeLittle, and a      *)
(* caller that has become a reader writes once more only if a call of its  *)
(* was already let in, which is the invariant behind DemotionHolds.  The   *)
(* hint of an amend needs the tables: only what was invoked as an amend,   *)
(* with a re-entry stage, calls TransitionAmend.                           *)
(***************************************************************************)

\* A tool or command makes at most four calls, and an amend is its only one.
Known(c) ==
    /\ \/ c = <<>>
       \/ \E p : c = <<p>>
       \/ \E p, q : c = <<p, q>>
       \/ \E p, q, r : c = <<p, q, r>>
       \/ \E p, q, r, t : c = <<p, q, r, t>>
    /\ c = <<"TransitionAmend">> \/ \A i \in 1..Len(c) : c[i] # "TransitionAmend"

KnownTool(tool) == \A a \in DOMAIN tool : Known(tool[a].calls)

CallFine(call) == call.calls # <<>> /\ Head(call.calls) = "TransitionAmend" => call.reentry \in ReEntryStages

\* A caller that is a reader has written at most the call that it had let in
\* before, and that call is still to be served only if nothing was written yet.
OneLateWrite ==
    /\ cPast \in 0..1 /\ cWrites \in 0..1
    /\ cRole = "reader" => cWrites <= cPast
    /\ cRole = "reader" /\ cCall.granted \notin {None, "reader"} => cPast = 1 /\ cWrites = 0

Granted(call) ==
    call.granted # None => call.calls # <<>> /\ Intercepted(call.granted, Head(call.calls))

CallSet == [calls : CallsLeft, reentry : ReEntryStages \cup {None}, granted : Roles \cup {None}]

ClInv ==
    /\ cRole \in Roles /\ cFront \in {"mcp", "cli"}
    /\ cCall \in CallSet
    /\ CallFine(cCall) /\ Granted(cCall)
    /\ cStage \in SpecStage \cup {None}
    /\ cHint \in ReEntryStages \cup {None}
    /\ cEffect \in [role : Roles, changed : SUBSET DOMAIN ChangedBy]
    /\ OneLateWrite
    /\ ReadersChangeLittle /\ AmendHintWorks

\* What the interceptor lets a reader call, no handler writes for: the groups
\* of base.cedar and the handlers agree on every procedure.
LEMMA ReadersRead == \A p : Intercepted("reader", p) => p \notin ProjectWrites /\ p \notin IdentityService.writes
<1> SUFFICES ASSUME NEW p, Intercepted("reader", p), p \in ProjectWrites \/ p \in IdentityService.writes
             PROVE  FALSE
  OBVIOUS
<1>0. p \in ProjectWrites =>
      p \in {"CreateSpec", "UpdateSpec", "CreateDecision", "UpdateDecision", "AddEdge", "RemoveEdge",
             "ClaimSpec", "Heartbeat", "UnclaimSpec", "UpdateConstitution", "RefreshConstitutionLayer",
             "Spark", "Shape", "Specify", "Decompose", "Approve", "RecordConversation",
             "ReportProgress", "ReportBlocker", "ReportCompletion",
             "TransitionAmend", "TransitionSupersede", "TransitionAbandon", "AcknowledgeDrift",
             "SyncBeads", "SyncGitHub", "StoreFindings", "ImportProject", "ClaimSlice", "CompleteSlice"}
  BY DEF ProjectWrites, Services, SpecService, DecisionService, EdgeService, GraphService, ClaimService,
     ConstitutionService, AuthoringService, BundleService, ExecutionService, LifecycleService, DriftService,
     SyncService, SyncStatus, AnalyticalPassService, FindingsService, ExportService, SliceService
<1>1. p \in {"CreateSpec", "UpdateSpec", "CreateDecision", "UpdateDecision", "AddEdge", "RemoveEdge",
             "ClaimSpec", "Heartbeat", "UnclaimSpec", "UpdateConstitution", "RefreshConstitutionLayer",
             "Spark", "Shape", "Specify", "Decompose", "Approve", "RecordConversation",
             "ReportProgress", "ReportBlocker", "ReportCompletion",
             "TransitionAmend", "TransitionSupersede", "TransitionAbandon", "AcknowledgeDrift",
             "SyncBeads", "SyncGitHub", "StoreFindings", "ImportProject", "ClaimSlice", "CompleteSlice",
             "UpdateUserRole", "SoftDeleteUser", "PurgeUser", "ResyncUserRole", "CreateServiceAccount",
             "CreateAPIKey", "RevokeAPIKey", "RotateAPIKey", "UnbindOIDC"}
  BY <1>0 DEF IdentityService
<1>2. p # "Health"
  BY <1>1
<1>3. PICK a \in DOMAIN procedureActions : p \in procedureActions[a] /\ "reader" \in basePolicy[actionVerb[a]]
  BY <1>2 DEF Intercepted, exemptProcedures, Authorize, ActionForProcedure, Evaluate
<1>4. actionVerb[a] \in {"read", "self"}
  BY <1>3 DEF actionVerb, basePolicy, Roles
<1>5. a \in {"spec_read", "decision_read", "graph_read", "constitution_read", "authoring_read",
             "execution_read", "lifecycle_read", "sync_read", "analytical_pass_read",
             "export_read", "slice_read", "identity_read", "apikey_self"}
  BY <1>4 DEF actionVerb
<1> QED BY <1>1, <1>3, <1>5 DEF procedureActions

\* What a call may change, and what one of a reader's.
LEMMA ChangesKnown ==
  /\ DOMAIN ChangedBy = {"row", "data", "accounts", "own_keys"}
  /\ \A p : Changes(p) \subseteq DOMAIN ChangedBy
  /\ \A p : Intercepted("reader", p) => Changes(p) \subseteq {"row", "own_keys"}
<1>1. DOMAIN ChangedBy = {"row", "data", "accounts", "own_keys"}
  BY DEF ChangedBy
<1>2. \A p : Changes(p) \subseteq DOMAIN ChangedBy
  BY DEF Changes
<1>3. ChangedBy["data"] = ProjectWrites /\ ChangedBy["accounts"] = IdentityService.writes
  BY DEF ChangedBy
<1>4. ASSUME NEW p, Intercepted("reader", p) PROVE Changes(p) \subseteq {"row", "own_keys"}
  <2>1. "data" \notin Changes(p) /\ "accounts" \notin Changes(p)
    BY <1>3, <1>4, ReadersRead DEF Changes
  <2> QED BY <2>1, <1>1, <1>2
<1> QED BY <1>1, <1>2, <1>4

\* An entry of a table that makes one call, or none.
LEMMA OneOp == /\ \A n, p : Known(Op(n, <<p>>).calls)
               /\ \A n : Known(Op(n, <<>>).calls)
BY DEF Known, Op

\* The tables of the MCP server.
LEMMA ToolsKnown == \A tool \in Tools("mcp") : KnownTool(tool)
<1>1. /\ KnownTool(decisionTool) /\ KnownTool(edgeTool) /\ KnownTool(graphQueryTool)
      /\ KnownTool(constitutionTool) /\ KnownTool(findingsTool) /\ KnownTool(healthTool)
      /\ KnownTool(resources) /\ KnownTool(primeResources) /\ KnownTool(analyticalPrompts)
  BY OneOp DEF KnownTool, decisionTool, edgeTool, graphQueryTool,
     constitutionTool, findingsTool, healthTool, resources, primeResources, analyticalPrompts
<1>2. KnownTool(specTool) /\ KnownTool(skillTools)
  <2>1. Known(<<>>)
    BY DEF Known
  <2>2. KnownTool(skillTools)
    BY <2>1 DEF KnownTool, skillTools, Op
  <2>3. /\ specVersions.update = Op({"slug"}, <<"UpdateSpec">>)
        /\ specVersions.changes = Op({"slug"}, <<"ListChanges">>)
        /\ specVersions.compare = Op({"slug", "from_version", "to_version"}, <<"CompareVersions">>)
    BY DEF specVersions
  <2>4. Known(specCreate.calls)
    BY OneOp DEF specCreate
  <2>5. KnownTool(specTool)
    BY <2>3, <2>4, OneOp DEF KnownTool, specTool
  <2> QED BY <2>2, <2>5
<1>3. KnownTool(stagePrompts)
  <2>1. Known(<<"GetConstitution", "GetSpec", "GetDependencies">>)
    BY DEF Known
  <2> QED BY <2>1 DEF KnownTool, stagePrompts, Op
<1>4. /\ KnownTool(authorTool) /\ KnownTool(authorLifecycle) /\ KnownTool(conversationTool)
      /\ KnownTool(analyticalPassTool) /\ KnownTool(driftTool) /\ KnownTool(lintTool) /\ KnownTool(syncTool)
      /\ KnownTool(exportTool)
  BY OneOp DEF KnownTool, authorTool, authorLifecycle, conversationTool, analyticalPassTool, driftTool,
     lintTool, syncTool, exportTool
<1>5. /\ KnownTool(claimTool) /\ KnownTool(sliceTool) /\ KnownTool(bundleTool) /\ KnownTool(primeTool)
      /\ KnownTool(reportTool) /\ KnownTool(executionEventsTool)
  BY OneOp DEF KnownTool, claimTool, sliceTool, bundleTool, primeTool, reportTool, executionEventsTool
<1>6. Tools("mcp") \subseteq coreTools \cup authoringTools \cup executionTools
  BY DEF Tools, ToolsForProfile
<1> QED BY <1>1, <1>2, <1>3, <1>4, <1>5, <1>6 DEF coreTools, authoringTools, executionTools

\* The tables of the command line.
LEMMA CommandsKnown == \A tool \in Tools("cli") : KnownTool(tool)
<1>6. KnownTool(specCommands)
  <2>1. Known(createCommand.calls)
    BY OneOp DEF createCommand
  <2> QED BY <2>1, OneOp DEF KnownTool, specCommands
<1>1. /\ KnownTool(changesCommands) /\ KnownTool(decisionCreate)
      /\ KnownTool(decisionCommands) /\ KnownTool(edgeCommands) /\ KnownTool(graphCommands)
      /\ KnownTool(claimCommands) /\ KnownTool(sliceCommands) /\ KnownTool(reportCommands)
      /\ KnownTool(progressCommand) /\ KnownTool(bundleCommand) /\ KnownTool(primeCommand)
  BY OneOp DEF KnownTool, changesCommands, decisionCreate, decisionCommands,
     edgeCommands, graphCommands, claimCommands, sliceCommands, reportCommands, progressCommand,
     bundleCommand, primeCommand
<1>2. /\ KnownTool(sparkCommand) /\ KnownTool(shapeCommand) /\ KnownTool(specifyCommand)
      /\ KnownTool(decomposeCommand) /\ KnownTool(approveCommand) /\ KnownTool(lifecycleCommands)
      /\ KnownTool(driftCommands) /\ KnownTool(lintCommand) /\ KnownTool(conversationCommands)
      /\ KnownTool(findingsCommands) /\ KnownTool(passCommand)
  BY OneOp DEF KnownTool, sparkCommand, shapeCommand, specifyCommand, decomposeCommand, approveCommand,
     lifecycleCommands, driftCommands, lintCommand, conversationCommands, findingsCommands, passCommand
<1>3. /\ KnownTool(constitutionCommands) /\ KnownTool(constitutionImport) /\ KnownTool(exportCommands)
      /\ KnownTool(syncCommands) /\ KnownTool(statusCommand) /\ KnownTool(whoamiCommand)
      /\ KnownTool(userCommands) /\ KnownTool(oidcCommands) /\ KnownTool(apiKeyCommands)
      /\ KnownTool(apiKeyRetire)
  BY OneOp DEF KnownTool, constitutionCommands, constitutionImport, exportCommands, syncCommands,
     statusCommand, whoamiCommand, userCommands, oidcCommands, apiKeyCommands, apiKeyRetire
<1>4. KnownTool(constitutionSync)
  <2>1. Known(<<"GetConstitution", "GetConstitution", "RefreshConstitutionLayer", "RefreshConstitutionLayer">>)
    <3> DEFINE c == <<"GetConstitution", "GetConstitution", "RefreshConstitutionLayer", "RefreshConstitutionLayer">>
    <3>1. \E p, q, r, t : c = <<p, q, r, t>>
      OBVIOUS
    <3>2. \A i \in 1..Len(c) : c[i] # "TransitionAmend"
      OBVIOUS
    <3> HIDE DEF c
    <3>3. Known(c)
      BY <3>1, <3>2 DEF Known
    <3> QED BY <3>3 DEF c
  <2> QED BY <2>1 DEF KnownTool, constitutionSync, Op
<1>5. Tools("cli") = commands
  BY DEF Tools
<1> QED BY <1>6, <1>1, <1>2, <1>3, <1>4, <1>5 DEF commands

\* Known calls are a sequence.
LEMMA ShortCalls ==
    ASSUME NEW c, Known(c)
    PROVE  \E S : c \in Seq(S) /\ Len(c) <= 4
<1>1. CASE c = <<>>
  <2>1. c \in Seq({}) /\ Len(c) = 0
    BY <1>1
  <2> QED BY <2>1
<1>2. ASSUME NEW p, c = <<p>> PROVE \E S : c \in Seq(S) /\ Len(c) <= 4
  <2>1. c \in Seq({p}) /\ Len(c) = 1
    BY <1>2
  <2> QED BY <2>1
<1>3. ASSUME NEW p, NEW q, c = <<p, q>> PROVE \E S : c \in Seq(S) /\ Len(c) <= 4
  <2>1. c \in Seq({p, q}) /\ Len(c) = 2
    BY <1>3
  <2> QED BY <2>1
<1>4. ASSUME NEW p, NEW q, NEW r, c = <<p, q, r>> PROVE \E S : c \in Seq(S) /\ Len(c) <= 4
  <2>1. c \in Seq({p, q, r}) /\ Len(c) = 3
    BY <1>4
  <2> QED BY <2>1
<1>5. ASSUME NEW p, NEW q, NEW r, NEW t, c = <<p, q, r, t>> PROVE \E S : c \in Seq(S) /\ Len(c) <= 4
  <2>1. c \in Seq({p, q, r, t}) /\ Len(c) = 4
    BY <1>5
  <2> QED BY <2>1
<1> QED BY <1>1, <1>2, <1>3, <1>4, <1>5 DEF Known

\* In the beginning all the calls are left.
LEMMA WholeCalls ==
    ASSUME NEW c, Known(c)
    PROVE  SubSeq(c, 1, Len(c)) = c
<1>1. PICK S : c \in Seq(S)
  BY ShortCalls
<1> DEFINE all == SubSeq(c, 1, Len(c))
<1>2. all \in Seq(S) /\ Len(all) = Len(c) /\ \A j \in 1..Len(all) : all[j] = c[j]
  BY <1>1
<1> QED BY <1>1, <1>2, SeqEqual

\* Calls that begin with an amend are no more than that.
LEMMA AmendAlone ==
    ASSUME NEW c, Known(c), c # <<>>, Head(c) = "TransitionAmend"
    PROVE  c = <<"TransitionAmend">>
<1>1. PICK S : c \in Seq(S)
  BY ShortCalls
<1>2. 1 \in 1..Len(c) /\ c[1] = "TransitionAmend"
  BY <1>1
<1> QED BY <1>2 DEF Known

\* What is left of known calls, one call later.
LEMMA CallsGoOn ==
    ASSUME NEW c, Known(c), NEW i \in 1..5, SubSeq(c, i, Len(c)) # <<>>
    PROVE  LET left == SubSeq(c, i, Len(c)) IN
           /\ i + 1 \in 1..5
           /\ Tail(left) = SubSeq(c, i + 1, Len(c))
           /\ Head(left) = c[i]
           /\ Tail(left) # <<>> => Head(Tail(left)) # "TransitionAmend"
<1>1. PICK S : c \in Seq(S) /\ Len(c) <= 4
  BY ShortCalls
<1> DEFINE left == SubSeq(c, i, Len(c))
           rest == SubSeq(c, i + 1, Len(c))
<1>2. i <= Len(c)
  BY <1>1
<1>3. /\ left \in Seq(S) /\ Len(left) = Len(c) - i + 1
      /\ \A j \in 1..Len(left) : left[j] = c[i + j - 1]
  BY <1>1, <1>2
<1>4. /\ rest \in Seq(S) /\ Len(rest) = Len(c) - i
      /\ \A j \in 1..Len(rest) : rest[j] = c[i + j]
  BY <1>1, <1>2
<1>5. Tail(left) \in Seq(S) /\ Len(Tail(left)) = Len(left) - 1 /\ \A j \in 1..Len(left) - 1 : Tail(left)[j] = left[j + 1]
  BY <1>1, <1>2, <1>3
<1>6. Tail(left) = rest
  <2>1. \A j \in 1..Len(rest) : Tail(left)[j] = rest[j]
    BY <1>1, <1>2, <1>3, <1>4, <1>5
  <2>2. Len(Tail(left)) = Len(rest)
    BY <1>1, <1>3, <1>4, <1>5
  <2> QED BY <2>1, <2>2, <1>4, <1>5, SeqEqual
<1>7. Head(left) = c[i]
  BY <1>1, <1>2, <1>3
<1>8. Tail(left) # <<>> => Head(Tail(left)) # "TransitionAmend"
  <2> SUFFICES ASSUME rest # <<>> PROVE Head(rest) # "TransitionAmend"
    BY <1>6
  <2>1. Len(c) >= i + 1 /\ Head(rest) = c[i + 1]
    BY <1>1, <1>2, <1>4
  <2>2. c # <<"TransitionAmend">>
    BY <2>1
  <2> QED BY <1>1, <2>1, <2>2 DEF Known
<1> QED BY <1>1, <1>2, <1>6, <1>7, <1>8

\* Every operation of a front end is known, and what is left of its calls.
LEMMA OpsKnown ==
  /\ \A op \in AllOps : Known(op.calls)
  /\ \A front \in {"mcp", "cli"} : \A tool \in Tools(front) : \A a \in DOMAIN tool :
       tool[a] \in AllOps /\ tool[a].calls \in CallsLeft
  /\ <<>> \in CallsLeft
<1>1. \A op \in AllOps : Known(op.calls)
  BY ToolsKnown, CommandsKnown DEF AllOps, KnownTool
<1>2. \A front \in {"mcp", "cli"} : \A tool \in Tools(front) : \A a \in DOMAIN tool : tool[a] \in AllOps
  BY DEF AllOps
<1>3. ASSUME NEW op \in AllOps PROVE op.calls \in CallsLeft
  <2>1. SubSeq(op.calls, 1, Len(op.calls)) = op.calls
    <3> DEFINE c == op.calls
    <3>1. Known(c)
      BY <1>1
    <3> HIDE DEF c
    <3>2. SubSeq(c, 1, Len(c)) = c
      BY <3>1, WholeCalls
    <3> QED BY <3>2 DEF c
  <2> QED BY <2>1 DEF CallsLeft
<1>4. <<>> \in CallsLeft
  <2>1. skillTools \in Tools("mcp") /\ "list" \in DOMAIN skillTools /\ skillTools["list"].calls = <<>>
    <3>1. skillTools \in Tools("mcp")
      BY DEF Tools, ToolsForProfile, coreTools
    <3> QED BY <3>1 DEF skillTools, Op
  <2> QED BY <2>1, <1>2, <1>3
<1> QED BY <1>1, <1>2, <1>3, <1>4

\* The calls of an operation from its i-th on are among those that may be left.
LEMMA StillLeft ==
    ASSUME NEW op \in AllOps, NEW i \in 1..5
    PROVE  SubSeq(op.calls, i, Len(op.calls)) \in CallsLeft
<1> DEFINE places == 1..5
           all == {SubSeq(o.calls, j, Len(o.calls)) : o \in AllOps, j \in places}
           left == SubSeq(op.calls, i, Len(op.calls))
<1>1. CallsLeft = all
  BY DEF CallsLeft
<1>2. left \in all
  <2>1. i \in places
    OBVIOUS
  <2> HIDE DEF places
  <2> QED BY <2>1
<1>3. left \in CallsLeft
  <2> HIDE DEF all, left
  <2> QED BY <1>1, <1>2
<1> QED BY <1>3

\* What is left of a known tool call, one call later.
LEMMA LeftGoesOn ==
    ASSUME NEW left \in CallsLeft, left # <<>>
    PROVE  /\ Tail(left) \in CallsLeft
           /\ Tail(left) # <<>> => Head(Tail(left)) # "TransitionAmend"
<1>1. PICK op \in AllOps, i \in 1..5 : left = SubSeq(op.calls, i, Len(op.calls))
  BY DEF CallsLeft
<1> DEFINE c == op.calls
<1>2. Known(c)
  BY OpsKnown
<1>3. i + 1 \in 1..5 /\ Tail(left) = SubSeq(c, i + 1, Len(c))
      /\ (Tail(left) # <<>> => Head(Tail(left)) # "TransitionAmend")
  <2> HIDE DEF c
  <2>1. left = SubSeq(c, i, Len(c))
    BY <1>1 DEF c
  <2> QED BY <2>1, <1>2, CallsGoOn
<1>4. PICK j \in 1..5 : Tail(left) = SubSeq(op.calls, j, Len(op.calls))
  BY <1>3
<1>5. Tail(left) \in CallsLeft
  BY <1>4, StillLeft
<1> QED BY <1>3, <1>5

\* What is left after a refused call.
LEMMA RefusedLeft ==
    ASSUME NEW left \in CallsLeft, left # <<>>
    PROVE  /\ AfterRefusal(left) \in CallsLeft
           /\ AfterRefusal(left) # <<>> => Head(AfterRefusal(left)) # "TransitionAmend"
BY LeftGoesOn, OpsKnown DEF AfterRefusal

\* A call that is over leaves calls that are fine and not judged yet.
LEMMA CallOver ==
    ASSUME NEW left \in CallsLeft, left # <<>> => Head(left) # "TransitionAmend",
           NEW call, call = [NoCall EXCEPT !.calls = left]
    PROVE  call \in CallSet /\ CallFine(call) /\ Granted(call) /\ call.granted = None
BY DEF NoCall, CallSet, CallFine, Granted

\* The re-entry stages and the command that each hint names.
LEMMA HintStages ==
  /\ PrecedingAuthStage("spark") = "spark" /\ PrecedingAuthStage("shape") = "spark"
  /\ PrecedingAuthStage("specify") = "shape" /\ PrecedingAuthStage("decompose") = "specify"
  /\ authorTool["shape"].calls = <<"Shape">> /\ authorTool["specify"].calls = <<"Specify">>
  /\ authorTool["decompose"].calls = <<"Decompose">>
<1>1. stageIndex("spark") = 1 /\ stageIndex("shape") = 2 /\ stageIndex("specify") = 3 /\ stageIndex("decompose") = 4
  BY StageIndexValues
<1>2. /\ PrecedingAuthStage("spark") = "spark" /\ PrecedingAuthStage("shape") = "spark"
      /\ PrecedingAuthStage("specify") = "shape" /\ PrecedingAuthStage("decompose") = "specify"
  BY <1>1 DEF PrecedingAuthStage, authoringStages
<1>3. /\ authorTool["shape"].calls = <<"Shape">> /\ authorTool["specify"].calls = <<"Specify">>
      /\ authorTool["decompose"].calls = <<"Decompose">>
  BY DEF authorTool, Op
<1> QED BY <1>2, <1>3

\* The invariant holds before anything is invoked.
LEMMA ClInitInv == CInit => ClInv
<1> SUFFICES ASSUME CInit PROVE ClInv
  OBVIOUS
<1>1. cCall = [NoCall EXCEPT !.calls = <<>>] /\ cPast = 0 /\ cWrites = 0
  BY DEF CInit, NoCall
<1>2. cCall \in CallSet /\ CallFine(cCall) /\ Granted(cCall) /\ cCall.granted = None
  BY <1>1, OpsKnown, CallOver
<1>3. cEffect \in [role : Roles, changed : SUBSET DOMAIN ChangedBy] /\ ReadersChangeLittle
  BY DEF CInit, Roles, ReadersChangeLittle
<1>4. cHint = None /\ cRole \in Roles /\ cFront \in {"mcp", "cli"} /\ cStage \in SpecStage \cup {None}
  BY DEF CInit
<1>5. AmendHintWorks
  BY <1>4 DEF AmendHintWorks
<1>6. OneLateWrite
  BY <1>1, <1>2 DEF OneLateWrite
<1> QED BY <1>2, <1>3, <1>4, <1>5, <1>6 DEF ClInv

\* A tool is invoked: an amend brings its re-entry stage.
LEMMA InvokeInv ==
    ASSUME ClInv, NEW tool \in Tools(cFront), NEW a \in DOMAIN tool, Invoke(tool, a)
    PROVE  ClInv'
<1> DEFINE op == tool[a]
<1>1. op.calls \in CallsLeft /\ Known(op.calls)
  BY OpsKnown DEF ClInv
<1>2. PICK re \in IF op.calls = <<"TransitionAmend">> THEN ReEntryStages ELSE {None} :
         cCall' = [calls |-> op.calls, reentry |-> re, granted |-> None]
  BY DEF Invoke
<1>3. cCall' \in CallSet /\ cCall'.calls = op.calls /\ cCall'.reentry = re /\ cCall'.granted = None
  <2>1. re \in ReEntryStages \cup {None}
    BY <1>2
  <2> HIDE DEF op
  <2> QED BY <2>1, <1>1, <1>2 DEF CallSet
<1>4. CallFine(cCall')
  <2> SUFFICES ASSUME op.calls # <<>>, Head(op.calls) = "TransitionAmend" PROVE re \in ReEntryStages
    BY <1>3 DEF CallFine
  <2>1. op.calls = <<"TransitionAmend">>
    <3> DEFINE c == op.calls
    <3> HIDE DEF c
    <3>1. Known(c) /\ c # <<>> /\ Head(c) = "TransitionAmend"
      BY <1>1 DEF c
    <3>2. c = <<"TransitionAmend">>
      BY <3>1, AmendAlone
    <3> QED BY <3>2 DEF c
  <2> QED BY <2>1, <1>2
<1>5. cHint' = None /\ UNCHANGED <<cRole, cFront, cStage, cEffect, cPast, cWrites>>
  BY DEF Invoke, cHist
<1>6. Granted(cCall') /\ ReadersChangeLittle' /\ AmendHintWorks'
  BY <1>3, <1>5 DEF ClInv, Granted, ReadersChangeLittle, AmendHintWorks
<1>7. OneLateWrite'
  BY <1>3, <1>5 DEF ClInv, OneLateWrite
<1> QED BY <1>3, <1>4, <1>5, <1>6, <1>7 DEF ClInv

\* The interceptor lets a call in under the caller's role, or refuses it.
LEMMA InterceptInv ==
    ASSUME ClInv, Intercept PROVE ClInv'
<1>1. cCall.calls # <<>> /\ cCall.granted = None /\ UNCHANGED <<cRole, cFront, cStage, cHint, cEffect, cPast, cWrites>>
  BY DEF Intercept, cHist
<1>2. cCall \in CallSet /\ cRole \in Roles
  BY DEF ClInv
<1>3. CASE Intercepted(cRole, Head(cCall.calls))
  <2>1. cCall' = [cCall EXCEPT !.granted = cRole]
    BY <1>3 DEF Intercept
  <2>2. cCall' \in CallSet /\ cCall'.calls = cCall.calls /\ cCall'.reentry = cCall.reentry /\ cCall'.granted = cRole
    BY <2>1, <1>2 DEF CallSet
  <2>3. CallFine(cCall') /\ Granted(cCall')
    BY <2>2, <1>1, <1>3 DEF ClInv, CallFine, Granted
  <2>4. OneLateWrite'
    BY <2>2, <1>1 DEF ClInv, OneLateWrite
  <2>5. ReadersChangeLittle' /\ AmendHintWorks'
    BY <1>1 DEF ClInv, ReadersChangeLittle, AmendHintWorks, StageAfter
  <2> QED BY <2>2, <2>3, <2>4, <2>5, <1>1 DEF ClInv
<1>4. CASE ~Intercepted(cRole, Head(cCall.calls))
  <2> DEFINE left == AfterRefusal(cCall.calls)
  <2>1. cCall' = [NoCall EXCEPT !.calls = left]
    BY <1>4 DEF Intercept
  <2>2. left \in CallsLeft /\ (left # <<>> => Head(left) # "TransitionAmend")
    BY <1>1, <1>2, RefusedLeft DEF CallSet
  <2>3. cCall' \in CallSet /\ CallFine(cCall') /\ Granted(cCall') /\ cCall'.granted = None
    <3> HIDE DEF left
    <3> QED BY <2>1, <2>2, CallOver
  <2>4. OneLateWrite'
    BY <2>3, <1>1 DEF ClInv, OneLateWrite
  <2>5. ReadersChangeLittle' /\ AmendHintWorks'
    BY <1>1 DEF ClInv, ReadersChangeLittle, AmendHintWorks, StageAfter
  <2> QED BY <2>3, <2>4, <2>5, <1>1 DEF ClInv
<1> QED BY <1>3, <1>4

\* What a handler changes: for a call let in under the reader role next to
\* nothing, and for one of a caller demoted since, the one late write.
LEMMA LeaveInv ==
    ASSUME ClInv, cCall.granted # None, NEW changed \in SUBSET Changes(Head(cCall.calls)), Leave(changed),
           cCall'.granted = None
    PROVE  /\ cEffect' \in [role : Roles, changed : SUBSET DOMAIN ChangedBy]
           /\ ReadersChangeLittle' /\ OneLateWrite' /\ UNCHANGED <<cRole, cFront>>
<1> DEFINE g == cCall.granted
<1>1. g \in Roles /\ Intercepted(g, Head(cCall.calls))
  BY DEF ClInv, CallSet, Granted
<1>2. changed \subseteq DOMAIN ChangedBy /\ (g = "reader" => changed \subseteq {"row", "own_keys"})
  BY <1>1, ChangesKnown
<1>3. cEffect' = [role |-> g, changed |-> changed] /\ UNCHANGED <<cRole, cFront, cPast>>
  BY DEF Leave
<1>4. cEffect' \in [role : Roles, changed : SUBSET DOMAIN ChangedBy] /\ ReadersChangeLittle'
  <2> HIDE DEF g
  <2> QED BY <1>1, <1>2, <1>3 DEF ReadersChangeLittle
<1>5. OneLateWrite'
  <2>1. CASE cRole = "reader" /\ changed \cap {"data", "accounts"} # {}
    <3>1. g # "reader"
      BY <1>2, <2>1
    <3>2. cPast = 1 /\ cWrites = 0
      BY <2>1, <3>1 DEF ClInv, OneLateWrite
    <3>3. cWrites' = cWrites + 1
      BY <2>1 DEF Leave
    <3>4. cWrites' = 1 /\ cPast' = 1
      BY <3>2, <3>3, <1>3
    <3> QED BY <3>4 DEF OneLateWrite
  <2>2. CASE ~(cRole = "reader" /\ changed \cap {"data", "accounts"} # {})
    <3>1. cWrites' = cWrites
      BY <2>2 DEF Leave
    <3> QED BY <3>1, <1>3 DEF ClInv, OneLateWrite
  <2> QED BY <2>1, <2>2
<1> QED BY <1>3, <1>4, <1>5

\* A call is served.
LEMMA ServeInv ==
    ASSUME ClInv, Serve PROVE ClInv'
<1> DEFINE p == Head(cCall.calls)
           after == StageAfter(p, cCall.reentry)
<1>1. cCall.granted # None /\ after # None /\ cStage' = after /\ cHint' = AmendHint(p, cCall.reentry)
      /\ Leave(Changes(p)) /\ cCall' = [NoCall EXCEPT !.calls = Tail(cCall.calls)]
  BY DEF Serve
<1>2. cCall \in CallSet /\ cCall.calls # <<>> /\ cCall.calls \in CallsLeft
  BY <1>1 DEF ClInv, CallSet, Granted
<1>3. Tail(cCall.calls) \in CallsLeft /\ (Tail(cCall.calls) # <<>> => Head(Tail(cCall.calls)) # "TransitionAmend")
  BY <1>2, LeftGoesOn
<1>4. cCall' \in CallSet /\ CallFine(cCall') /\ Granted(cCall') /\ cCall'.granted = None
  <2> DEFINE left == Tail(cCall.calls)
  <2>1. left \in CallsLeft /\ (left # <<>> => Head(left) # "TransitionAmend") /\ cCall' = [NoCall EXCEPT !.calls = left]
    BY <1>1, <1>3
  <2> HIDE DEF left
  <2> QED BY <2>1, CallOver
<1>5. p = "TransitionAmend" => cCall.reentry \in ReEntryStages
  BY <1>2 DEF ClInv, CallFine
<1>6. cStage' \in SpecStage \cup {None}
  BY <1>1, <1>5, HintStages DEF ClInv, StageAfter, SpecStage, AuthoringStageSet, ReEntryStages
<1>7. cHint' \in ReEntryStages \cup {None}
  BY <1>1, <1>5 DEF AmendHint
<1>8. /\ cEffect' \in [role : Roles, changed : SUBSET DOMAIN ChangedBy]
      /\ ReadersChangeLittle' /\ OneLateWrite' /\ UNCHANGED <<cRole, cFront>>
  <2> DEFINE changed == Changes(Head(cCall.calls))
  <2>1. changed \in SUBSET Changes(Head(cCall.calls)) /\ Leave(changed)
    BY <1>1
  <2> HIDE DEF changed
  <2> QED BY <2>1, <1>1, <1>4, LeaveInv
<1>9. AmendHintWorks'
  <2> SUFFICES ASSUME cHint' # None
               PROVE  \E n \in {"Shape", "Specify", "Decompose"} :
                        authorTool[cHint'].calls = <<n>> /\ StageAfter(n, None)' # None
    BY DEF AmendHintWorks
  <2>1. p = "TransitionAmend" /\ cHint' = cCall.reentry /\ cCall.reentry # "spark"
    BY <1>1 DEF AmendHint
  <2>2. cHint' \in {"shape", "specify", "decompose"}
    BY <2>1, <1>5 DEF ReEntryStages
  <2>3. cStage' = PrecedingAuthStage(cHint')
    BY <1>1, <2>1 DEF StageAfter
  <2>4. CASE cHint' = "shape"
    <3>1. authorTool[cHint'].calls = <<"Shape">> /\ StageAfter("Shape", None)' = "shape"
      BY <2>3, <2>4, HintStages DEF StageAfter
    <3> QED BY <3>1, <2>4
  <2>5. CASE cHint' = "specify"
    <3>1. authorTool[cHint'].calls = <<"Specify">> /\ StageAfter("Specify", None)' = "specify"
      BY <2>3, <2>5, HintStages DEF StageAfter
    <3> QED BY <3>1, <2>5
  <2>6. CASE cHint' = "decompose"
    <3>1. authorTool[cHint'].calls = <<"Decompose">> /\ StageAfter("Decompose", None)' = "decompose"
      BY <2>3, <2>6, HintStages DEF StageAfter
    <3> QED BY <3>1, <2>6
  <2> QED BY <2>2, <2>4, <2>5, <2>6
<1> QED BY <1>4, <1>6, <1>7, <1>8, <1>9 DEF ClInv

\* A handler refuses a call, or fails in the middle of it.
LEMMA MissInv ==
    ASSUME ClInv, Miss PROVE ClInv'
<1>1. cCall.granted # None /\ UNCHANGED <<cStage, cHint>>
  BY DEF Miss
<1>2. cCall.calls # <<>> /\ cCall.calls \in CallsLeft
  BY <1>1 DEF ClInv, CallSet, Granted
<1>3. \E left \in {AfterRefusal(cCall.calls), Tail(cCall.calls)} : cCall' = [NoCall EXCEPT !.calls = left]
  BY DEF Miss
<1>4. PICK left \in {AfterRefusal(cCall.calls), Tail(cCall.calls)} : cCall' = [NoCall EXCEPT !.calls = left]
  BY <1>3
<1>5. left \in CallsLeft /\ (left # <<>> => Head(left) # "TransitionAmend")
  BY <1>2, <1>4, LeftGoesOn, RefusedLeft
<1>6. cCall' \in CallSet /\ CallFine(cCall') /\ Granted(cCall') /\ cCall'.granted = None
  BY <1>4, <1>5, CallOver
<1>7. PICK changed \in SUBSET Changes(Head(cCall.calls)) : Leave(changed)
  BY DEF Miss
<1>8. /\ cEffect' \in [role : Roles, changed : SUBSET DOMAIN ChangedBy]
      /\ ReadersChangeLittle' /\ OneLateWrite' /\ UNCHANGED <<cRole, cFront>>
  BY <1>1, <1>6, <1>7, LeaveInv
<1>9. AmendHintWorks'
  BY <1>1 DEF ClInv, AmendHintWorks, StageAfter
<1> QED BY <1>1, <1>6, <1>8, <1>9 DEF ClInv

\* Every step of the caller, the server and the administrator keeps it.
LEMMA ClNextInv == ClInv /\ [CNext]_cVars => ClInv'
<1> SUFFICES ASSUME ClInv, [CNext]_cVars PROVE ClInv'
  OBVIOUS
<1>1. ASSUME NEW role \in Roles, Reassign(role) PROVE ClInv'
  <2>1. /\ cRole' = role /\ cWrites' = 0 /\ cPast' = (IF cCall.granted = None THEN 0 ELSE 1)
        /\ UNCHANGED <<cFront, cCall, cStage, cHint, cEffect>>
    BY <1>1 DEF Reassign
  <2>2. OneLateWrite'
    BY <2>1 DEF OneLateWrite
  <2>3. ReadersChangeLittle' /\ AmendHintWorks' /\ CallFine(cCall') /\ Granted(cCall')
    BY <2>1 DEF ClInv, ReadersChangeLittle, AmendHintWorks, StageAfter
  <2> QED BY <2>1, <2>2, <2>3, <1>1 DEF ClInv
<1>2. CASE UNCHANGED cVars
  BY <1>2 DEF cVars, cHist, ClInv, OneLateWrite, ReadersChangeLittle, AmendHintWorks, StageAfter, CallFine, Granted
<1> QED BY <1>1, <1>2, InvokeInv, InterceptInv, ServeInv, MissInv DEF CNext

\* A call that was let in under the reader role changes nothing but the row of
\* a new project and the caller's own keys, whichever tool or command made it;
\* of the calls of a caller that has been made a reader only the one that had
\* passed the interceptor by then may still write; and the author action that
\* an amend's reply recommends is one the funnel accepts: for all the tools of
\* internal/mcp and the commands of cmd/specgraph, against actions.go,
\* base.cedar, the interceptor and the handlers.
THEOREM FrontEndsFit == CSpec => []ClientsFitServer
<1>1. ClInv => ClientsFitServer
  BY DEF ClInv, ClientsFitServer, OneLateWrite, DemotionHolds
<1> QED BY <1>1, ClInitInv, ClNextInv, PTL DEF CSpec

-----------------------------------------------------------------------------
(***************************************************************************)
(* The types of all services in their composition.  Most of a service's    *)
(* types are part of the invariant above; what is left are bounds: the     *)
(* channel's size, the age of a question to a provider, and the origin of  *)
(* a key, which is an earlier key because keys are numbered as they come.  *)
(***************************************************************************)

\* The tracker's channel is bounded.
UBound == Len(uQueue) <= BufferSize /\ uLate \subseteq UsedKeys /\ uDropped \in BOOLEAN

\* The tracker keeps its types.
LEMMA UTyped ==
  /\ UInit => UBound
  /\ UInv /\ UBound /\ [UNext]_uVars => UBound'
  /\ UInv /\ UBound => UTypeOK
<1>1. UInit => UBound
  <2>1. UInit => Len(uQueue) = 0 /\ uLate = {} /\ uDropped \in BOOLEAN
    BY DEF UInit
  <2> QED BY <2>1, BufferAssumption DEF UBound
<1>2. ASSUME UInv, UBound, [UNext]_uVars PROVE UBound'
  <2>1. ASSUME NEW k \in UsedKeys, Touch(k) PROVE UBound'
    <3>1. CASE uQueue' = Append(uQueue, k) /\ Len(uQueue) < BufferSize
               /\ uLate' = (IF Closed THEN uLate \cup {k} ELSE uLate) /\ UNCHANGED uDropped
      <4>1. Len(uQueue') <= BufferSize
        BY <3>1, <1>2, <2>1, BufferAssumption DEF UInv
      <4>2. uLate' \subseteq UsedKeys /\ uDropped' \in BOOLEAN
        BY <3>1, <1>2, <2>1, Zenon DEF UBound
      <4> QED BY <4>1, <4>2 DEF UBound
    <3>2. CASE uDropped' = TRUE /\ UNCHANGED <<uQueue, uOwed, uFailed, uLate>>
      <4>1. uDropped' \in BOOLEAN
        BY <3>2
      <4> QED BY <1>2, <4>1, <3>2 DEF UBound
    <3> QED BY <2>1, <3>1, <3>2, Zenon DEF Touch
  <2>2. CASE flushAll
    <3>1. Len(uQueue') <= BufferSize
      BY <1>2, <2>2, BufferAssumption DEF UInv, UBound, flushAll
    <3>2. UNCHANGED <<uLate, uDropped>>
      BY <2>2 DEF flushAll
    <3> QED BY <1>2, <3>1, <3>2 DEF UBound
  <2>3. CASE UNCHANGED <<uQueue, uLate, uDropped>>
    BY <1>2, <2>3 DEF UBound
  <2> QED BY <1>2, <2>1, <2>2, <2>3, Zenon DEF UNext, TouchLastUsed, drain, Drained, Close, CloseReturns, uVars
<1>3. ASSUME UInv, UBound PROVE UTypeOK
  <2>1. uQueue \in [1 .. Len(uQueue) -> UsedKeys] /\ Len(uQueue) \in 0 .. BufferSize
    BY <1>3, BufferAssumption DEF UInv, UBound
  <2>2. uQueue \in UNION {[1 .. n -> UsedKeys] : n \in 0 .. BufferSize}
    BY <2>1
  <2>3. uOwed \subseteq UsedKeys
    <3>1. Queued(uQueue) \subseteq UsedKeys
      BY <2>1 DEF Queued
    <3> QED BY <3>1, <1>3 DEF UInv
  <2> QED BY <1>3, <2>2, <2>3 DEF UInv, UBound, UTypeOK
<1> QED BY <1>1, <1>2, <1>3

\* The times and the providers that a request may have come to.
BReqBound(x) ==
    /\ x.p <= Len(bProviders) + 1 /\ x.asked <= now
    /\ x.step \in {"ask", "answered"} => x.p <= Len(bProviders)
BBound == bExpires <= Never /\ \A q \in Requests : BReqBound(bReq[q])

\* Bearer credentials keep their types.
LEMMA BTypes ==
  /\ BInit => BBound
  /\ BInv /\ BBound /\ [BNext]_bVars => BBound'
  /\ BInv /\ BBound => BTypeOK
<1>1. ASSUME BInit PROVE BBound
  <2>1. bExpires <= Never /\ now = 0 /\ bReq = [q \in Requests |-> BIdle]
    BY <1>1, BearersAssumption DEF BInit, Times, Never
  <2>2. Len(bProviders) \in Nat
    BY <1>1 DEF BInit
  <2>3. BIdle.p = 1 /\ BIdle.asked = 0 /\ BIdle.step = "idle"
    BY DEF BIdle
  <2> QED BY <2>1, <2>2, <2>3 DEF BBound, BReqBound
<1>2. ASSUME BInv, BBound, [BNext]_bVars PROVE BBound'
  <2>1. /\ now \in Nat /\ bProviders \in Seq(ProviderKinds) /\ Len(bProviders) \in Nat
        /\ bReq \in [Requests -> BRequest] /\ bExpires <= Never
        /\ \A q \in Requests : BReqBound(bReq[q])
    BY <1>2 DEF BInv, BTyped, BBound
  <2>2. ASSUME NEW q \in Requests, NEW x \in {BIdle, bReq[q]}, NEW y,
               y.p = x.p \/ (y.p = x.p + 1 /\ x.p <= Len(bProviders)), y.asked = x.asked \/ y.asked = now,
               y.step \in {"ask", "answered"} => y.p <= Len(bProviders),
               bReq' = [bReq EXCEPT ![q] = y], UNCHANGED <<now, bExpires, bProviders>>
        PROVE  BBound'
    <3>1. x.p \in Nat /\ x.asked \in Nat /\ x.p <= Len(bProviders) + 1 /\ x.asked <= now
      <4>1. BIdle.p = 1 /\ BIdle.asked = 0
        BY DEF BIdle
      <4>2. bReq[q].p \in Nat /\ bReq[q].asked \in Nat
        BY <2>1 DEF BRequest
      <4> QED BY <2>1, <2>2, <4>1, <4>2 DEF BReqBound
    <3>2. y.p <= Len(bProviders) + 1 /\ y.asked <= now
      BY <2>1, <2>2, <3>1
    <3>3. \A r \in Requests : bReq'[r] = IF r = q THEN y ELSE bReq[r]
      BY <2>1, <2>2
    <3> QED BY <2>1, <2>2, <3>2, <3>3 DEF BBound, BReqBound, Never
  <2>3. ASSUME NEW q \in Requests, NEW st \in BSteps \ {"ask", "answered"}, Resolving(q, st),
               UNCHANGED <<now, bExpires, bProviders>>
        PROVE  BBound'
    <3> DEFINE y == [BIdle EXCEPT !.late = bReq[q].late, !.step = st]
    <3>1. y.p = BIdle.p /\ y.asked = BIdle.asked /\ y.step = st
      BY DEF BIdle
    <3>2. bReq' = [bReq EXCEPT ![q] = y]
      BY <2>3 DEF Resolving
    <3> HIDE DEF y
    <3> QED BY <2>2, <2>3, <3>1, <3>2
  <2>4. ASSUME NEW q \in Requests, Resolve(q) PROVE BBound'
    <3> DEFINE y == [BIdle EXCEPT !.late = Dead, !.step = IF bKind = "opaque" THEN "introspect" ELSE "lookup"]
    <3>1. y.p = BIdle.p /\ y.asked = BIdle.asked /\ y.step \in {"introspect", "lookup"}
      BY DEF BIdle
    <3>2. bReq' = [bReq EXCEPT ![q] = y] /\ UNCHANGED <<now, bExpires, bProviders>>
      BY <2>4 DEF Resolve
    <3> HIDE DEF y
    <3> QED BY <2>2, <3>1, <3>2
  <2>5. ASSUME NEW q \in Requests,
               \/ ErrTransient(q) \/ resolveAPIKey(q) \/ resolveSession(q) \/ resolveJWT(q)
               \/ materializeIdentity(q) \/ LoadUser(q) \/ IntrospectionOver(q) \/ IntrospectCached(q)
        PROVE  BBound'
    <3>1. UNCHANGED <<now, bExpires, bProviders>> /\ \E st \in BSteps \ {"ask", "answered"} : Resolving(q, st)
      BY <2>5 DEF BSteps, ErrTransient, resolveAPIKey, resolveSession, resolveJWT, materializeIdentity, LoadUser,
         IntrospectionOver, IntrospectCached
    <3> QED BY <2>3, <3>1
  <2>6. ASSUME NEW q \in Requests, NonDecisive(q) PROVE BBound'
    <3> DEFINE y == [bReq[q] EXCEPT !.step = "introspect", !.p = bReq[q].p + 1]
    <3>1. y.p = bReq[q].p + 1 /\ y.asked = bReq[q].asked /\ y.step = "introspect"
      BY <2>1 DEF BRequest
    <3>2. bReq' = [bReq EXCEPT ![q] = y] /\ UNCHANGED <<now, bExpires, bProviders>> /\ bReq[q].p <= Len(bProviders)
      BY <2>6 DEF NonDecisive
    <3> HIDE DEF y
    <3> QED BY <2>2, <3>1, <3>2
  <2>7. ASSUME NEW q \in Requests, Introspect(q) PROVE BBound'
    <3> DEFINE y == [bReq[q] EXCEPT !.step = "ask", !.asked = now]
    <3>1. y.p = bReq[q].p /\ y.asked = now
      BY <2>1 DEF BRequest
    <3>2. bReq' = [bReq EXCEPT ![q] = y] /\ UNCHANGED <<now, bExpires, bProviders>> /\ bReq[q].p <= Len(bProviders)
      BY <2>7 DEF Introspect
    <3> HIDE DEF y
    <3> QED BY <2>2, <3>1, <3>2
  <2>8. ASSUME NEW q \in Requests, Decide(q) PROVE BBound'
    <3> DEFINE a == bProviders[bReq[q].p] # "foreign" /\ bRevoked = Never /\ ~Expired
               y == [bReq[q] EXCEPT !.step = "answered", !.active = a]
    <3>1. bReq' = [bReq EXCEPT ![q] = y] /\ UNCHANGED <<now, bExpires, bProviders>> /\ bReq[q].step = "ask"
      BY <2>8 DEF Decide
    <3> HIDE DEF a
    <3>2. y.p = bReq[q].p /\ y.asked = bReq[q].asked
      BY <2>1 DEF BRequest
    <3> HIDE DEF y
    <3>3. bReq[q].p <= Len(bProviders)
      BY <2>1, <3>1 DEF BReqBound
    <3> QED BY <2>2, <3>1, <3>2, <3>3
  <2>9. ASSUME NEW q \in Requests, Answer(q) PROVE BBound'
    <3>1. bReq[q].step = "answered" /\ UNCHANGED <<now, bExpires, bProviders>>
      BY <2>9 DEF Answer
    <3>2. CASE Resolving(q, "binding")
      BY <2>3, <3>1, <3>2 DEF BSteps
    <3>3. CASE bReq' = [bReq EXCEPT ![q].step = "introspect", ![q].p = @ + 1, ![q].decisive = TRUE]
      <4> DEFINE yes == TRUE
                 y == [bReq[q] EXCEPT !.step = "introspect", !.p = bReq[q].p + 1, !.decisive = yes]
      <4>1. bReq' = [bReq EXCEPT ![q] = y]
        BY <3>3
      <4> HIDE DEF yes
      <4>2. y.p = bReq[q].p + 1 /\ y.asked = bReq[q].asked /\ y.step = "introspect"
        BY <2>1 DEF BRequest
      <4>3. bReq[q].p <= Len(bProviders)
        BY <3>1, <2>1 DEF BReqBound
      <4> HIDE DEF y
      <4> QED BY <2>2, <3>1, <4>1, <4>2, <4>3
    <3> QED BY <2>9, <3>2, <3>3, Zenon DEF Answer
  <2>10. CASE Tick
    <3>1. now' = now + 1 /\ UNCHANGED <<bExpires, bProviders, bReq>>
      BY <2>10 DEF Tick
    <3>2. \A q \in Requests : bReq[q].asked \in Nat
      BY <2>1 DEF BRequest
    <3> QED BY <2>1, <3>1, <3>2 DEF BBound, BReqBound, Never
  <2>11. CASE UNCHANGED <<now, bExpires, bProviders, bReq>>
    BY <2>1, <2>11 DEF BBound, BReqBound, Never
  <2> QED BY <1>2, <2>4, <2>5, <2>6, <2>7, <2>8, <2>9, <2>10, <2>11, Zenon
          DEF BNext, Revoke, BDeleteUser, DeleteExpiredSessions, bVars
<1>3. ASSUME BInv, BBound PROVE BTypeOK
  <2>1. /\ now \in Nat /\ now <= MaxTime /\ bExpires \in Nat /\ bRevoked \in Nat
        /\ bRevoked <= now \/ bRevoked = Never
        /\ bProviders \in Seq(ProviderKinds) /\ bCache \in [1..Len(bProviders) -> Nat]
        /\ bReq \in [Requests -> BRequest]
    BY <1>3 DEF BInv, BTyped
  <2>2. now \in Times /\ bExpires \in 0 .. Never /\ bRevoked \in 0 .. Never
    BY <2>1, <1>3, BearersAssumption DEF BBound, Times, Never
  <2>3. bCache \in [DOMAIN bProviders -> 0 .. MaxTime + TTLCap]
    <3>1. \A p \in 1..Len(bProviders) : bCache[p] \in 0 .. MaxTime + TTLCap
      BY <2>1, <1>3, BearersAssumption DEF BInv, CacheBounded
    <3>2. DOMAIN bProviders = 1..Len(bProviders)
      BY <2>1
    <3> QED BY <2>1, <3>1, <3>2
  <2>4. ASSUME NEW q \in Requests
        PROVE  bReq[q].step \in BSteps /\ bReq[q].p \in 1 .. Len(bProviders) + 1 /\ bReq[q].asked \in Times
    <3>1. bReq[q].step \in BSteps /\ bReq[q].p \in Nat \ {0} /\ bReq[q].asked \in Nat
      BY <2>1 DEF BRequest
    <3>2. bReq[q].p <= Len(bProviders) + 1 /\ bReq[q].asked <= now /\ Len(bProviders) \in Nat
      BY <2>1, <1>3 DEF BBound, BReqBound
    <3> QED BY <2>1, <3>1, <3>2, BearersAssumption DEF Times
  <2>5. bDeleted \in BOOLEAN /\ bSwept \in BOOLEAN /\ bKind \in CredKinds
    BY <1>3 DEF BInv, BTyped
  <2> QED BY <2>1, <2>2, <2>3, <2>4, <2>5 DEF BTypeOK
<1> QED BY <1>1, <1>2, <1>3

\* Keys are numbered as they come, and a key that is named has come.
NoGaps(keys) == \A j, k \in KeyIds : j < k /\ keys[k].status # "none" => keys[j].status # "none"
KBound ==
    /\ kAccount \in {"active", "deleted", "purged"}
    /\ NoGaps(kKeys)
    /\ \A k \in KeyIds : kKeys[k].from < k
    /\ \A q \in Requests : kReq[q].key \in KeyIds => kKeys[kReq[q].key].status # "none"

\* A key as far as KBound goes: has it come, and from which one.
SameKey(old, new) == (new.status = "none" <=> old.status = "none") /\ new.from = old.from

\* A request names the key it named, or one that has come.
NamesKey(q) == kReq'[q].key \in {kReq[q].key, 0} \/ kKeys[kReq'[q].key].status # "none"

\* A step that inserts no key.
LEMMA KeysStay ==
    ASSUME KBound, KInv, \A k \in KeyIds : SameKey(kKeys[k], kKeys'[k]),
           \A q \in Requests : NamesKey(q), kAccount' \in {"active", "deleted", "purged"}
    PROVE  KBound'
<1>1. NoGaps(kKeys')
  BY DEF KBound, NoGaps, SameKey
<1>2. \A k \in KeyIds : kKeys'[k].from < k
  BY DEF KBound, SameKey
<1>3. \A q \in Requests : kReq'[q].key \in KeyIds => kKeys'[kReq'[q].key].status # "none"
  <2> SUFFICES ASSUME NEW q \in Requests, kReq'[q].key \in KeyIds PROVE kKeys[kReq'[q].key].status # "none"
    BY DEF SameKey
  <2>1. kReq'[q].key # 0
    BY ApiKeysAssumption DEF KeyIds
  <2> QED BY <2>1 DEF NamesKey, KBound
<1> QED BY <1>1, <1>2, <1>3 DEF KBound

\* A step that inserts one.
LEMMA KeyComes ==
    ASSUME KBound, KInv, Room, NEW from \in 0..MaxKeys,
           from \in KeyIds => kKeys[from].status # "none",
           kKeys'[Fresh].status # "none", kKeys'[Fresh].from = from,
           \A k \in KeyIds \ {Fresh} : SameKey(kKeys[k], kKeys'[k]),
           \A q \in Requests : NamesKey(q), kAccount' \in {"active", "deleted", "purged"}
    PROVE  KBound'
<1> DEFINE n == Fresh
<1>1. n \in KeyIds /\ kKeys[n].status = "none" /\ \A j \in 1..n-1 : kKeys[j].status # "none"
  BY FreshIsFirst
<1>2. MaxKeys \in Nat /\ \A k \in KeyIds : k \in Nat /\ k >= 1 /\ k <= MaxKeys
  BY ApiKeysAssumption DEF KeyIds
<1> HIDE DEF n
<1>3. \A k \in KeyIds : k < n <=> kKeys[k].status # "none"
  <2> SUFFICES ASSUME NEW k \in KeyIds PROVE k < n <=> kKeys[k].status # "none"
    OBVIOUS
  <2>1. ASSUME k < n PROVE kKeys[k].status # "none"
    <3>1. k \in 1..n-1
      BY <1>1, <1>2, <2>1
    <3> QED BY <1>1, <3>1
  <2>2. ASSUME ~(k < n) PROVE kKeys[k].status = "none"
    <3>1. k = n \/ n < k
      BY <1>1, <1>2, <2>2
    <3> QED BY <1>1, <3>1 DEF KBound, NoGaps
  <2> QED BY <2>1, <2>2
<1>4. from < n
  <2>1. CASE from = 0
    BY <1>1, <1>2, <2>1
  <2>2. CASE from \in KeyIds
    BY <1>3, <2>2
  <2> QED BY <2>1, <2>2, <1>2 DEF KeyIds
<1>5. \A k \in KeyIds : kKeys'[k].status # "none" <=> (k = n \/ k < n)
  BY <1>3 DEF SameKey, n
<1>6. NoGaps(kKeys')
  BY <1>1, <1>2, <1>5 DEF NoGaps
<1>7. \A k \in KeyIds : kKeys'[k].from < k
  BY <1>4 DEF KBound, SameKey, n
<1>8. \A q \in Requests : kReq'[q].key \in KeyIds => kKeys'[kReq'[q].key].status # "none"
  <2> SUFFICES ASSUME NEW q \in Requests, kReq'[q].key \in KeyIds PROVE kKeys[kReq'[q].key].status # "none"
    BY <1>3, <1>5
  <2>1. kReq'[q].key # 0
    BY <1>2
  <2> QED BY <2>1 DEF NamesKey, KBound
<1> QED BY <1>6, <1>7, <1>8 DEF KBound

\* What the requests name when one of them goes on, is over or begins.
LEMMA NamesOn ==
    ASSUME KTyped, NEW q \in Requests, NEW x, kReq' = [kReq EXCEPT ![q] = x],
           x.key \in {kReq[q].key, 0} \/ kKeys[x.key].status # "none"
    PROVE  \A r \in Requests : NamesKey(r)
<1>1. \A r \in Requests : kReq'[r] = IF r = q THEN x ELSE kReq[r]
  BY DEF KTyped
<1> QED BY <1>1 DEF NamesKey

\* A request that is over, or goes on to another step.
LEMMA NamesSame ==
    ASSUME KTyped, NEW q \in Requests, KDone(q) \/ \E st : kReq' = [kReq EXCEPT ![q].step = st]
    PROVE  \A r \in Requests : NamesKey(r)
<1>1. CASE KDone(q)
  <2>1. KIdle.key = 0 /\ kReq' = [kReq EXCEPT ![q] = KIdle]
    BY <1>1 DEF KDone, KIdle
  <2> QED BY <2>1, NamesOn
<1>2. ASSUME NEW st, kReq' = [kReq EXCEPT ![q].step = st] PROVE \A r \in Requests : NamesKey(r)
  <2> DEFINE x == [kReq[q] EXCEPT !.step = st]
  <2>1. x.key = kReq[q].key
    BY DEF KTyped, KRequest
  <2>2. kReq' = [kReq EXCEPT ![q] = x]
    BY <1>2
  <2> HIDE DEF x
  <2> QED BY <2>1, <2>2, NamesOn
<1> QED BY <1>1, <1>2

\* Rows that are locked, settled, revoked or expired are the same keys.
LEMMA SameKeys ==
    ASSUME KTyped, NEW q, NEW committed \in BOOLEAN, NEW ids, NEW k \in KeyIds
    PROVE  /\ SameKey(kKeys[k], Settled(kKeys, q, FALSE)[k])
           /\ SameKey(kKeys[k], RevokedIn(ids)[k])
           /\ \A j \in KeyIds : SameKey(kKeys[k], [kKeys EXCEPT ![j].lock = q][k])
           /\ \A j \in KeyIds : kKeys[j].status = "active" =>
                SameKey(kKeys[k], [kKeys EXCEPT ![j].status = "expired"][k])
<1>1. kKeys \in [KeyIds -> KKey] /\ kKeys[k] \in KKey
  BY DEF KTyped
<1>2. \A r \in KKey : DOMAIN r = {"status", "by", "from", "lock"}
  BY DEF KKey
<1>3. SameKey(kKeys[k], Settled(kKeys, q, FALSE)[k])
  BY <1>1, <1>2 DEF Settled, SameKey
<1>4. SameKey(kKeys[k], RevokedIn(ids)[k])
  BY <1>1, <1>2 DEF RevokedIn, Unrevoked, SameKey
<1>5. \A j \in KeyIds : SameKey(kKeys[k], [kKeys EXCEPT ![j].lock = q][k])
  BY <1>1, <1>2 DEF SameKey
<1>6. \A j \in KeyIds : kKeys[j].status = "active" =>
         SameKey(kKeys[k], [kKeys EXCEPT ![j].status = "expired"][k])
  BY <1>1, <1>2 DEF SameKey
<1> QED BY <1>3, <1>4, <1>5, <1>6

\* The owner's and the administrator's keys are inserted, or a rotation's successor.
LEMMA InsertsBound ==
    ASSUME KBound, KInv, NEW q \in Requests,
           CreateAPIKeyForUser(q) \/ InsertAPIKey(q) \/ RotateInsert(q)
    PROVE  KBound'
<1>0. KTyped /\ 0 \in 0..MaxKeys /\ ~(0 \in KeyIds)
  BY ApiKeysAssumption DEF KInv, KeyIds
<1>1. kAccount' \in {"active", "deleted", "purged"}
  BY DEF KBound, CreateAPIKeyForUser, InsertAPIKey, RotateInsert
<1>2. \A r \in Requests : NamesKey(r)
  <2>1. CASE KDone(q)
    BY <1>0, <2>1, NamesSame
  <2>2. CASE kReq' = kReq
    BY <2>2 DEF NamesKey
  <2> QED BY <2>1, <2>2 DEF CreateAPIKeyForUser, InsertAPIKey, RotateInsert
<1>3. ASSUME NEW by \in {"mint", "admin"}, Room, kKeys' = Inserted(by, 0) PROVE KBound'
  <2>1. by \in KeyOrigins
    BY DEF KeyOrigins
  <2> DEFINE y == [status |-> "active", by |-> by, from |-> 0, lock |-> None]
  <2>2. kKeys'[Fresh] = y /\ \A k \in KeyIds \ {Fresh} : kKeys'[k] = kKeys[k]
    BY <1>0, <1>3, <2>1, NewKey
  <2>3. y.status = "active" /\ y.from = 0
    OBVIOUS
  <2> HIDE DEF y
  <2>4. kKeys'[Fresh].status # "none" /\ kKeys'[Fresh].from = 0
    BY <2>2, <2>3
  <2>5. \A k \in KeyIds \ {Fresh} : SameKey(kKeys[k], kKeys'[k])
    BY <2>2 DEF SameKey
  <2> QED BY <1>0, <1>1, <1>2, <1>3, <2>4, <2>5, KeyComes
<1>4. ASSUME kKeys' = kKeys PROVE KBound'
  <2>1. \A k \in KeyIds : SameKey(kKeys[k], kKeys'[k])
    BY <1>4 DEF SameKey
  <2> QED BY <1>1, <1>2, <2>1, KeysStay
<1>5. CASE RotateInsert(q)
  <2>1. CASE kAccount = "purged"
    <3>1. kKeys' = Settled(kKeys, q, FALSE)
      BY <1>5, <2>1 DEF RotateInsert
    <3>2. \A k \in KeyIds : SameKey(kKeys[k], kKeys'[k])
      BY <1>0, <3>1, SameKeys
    <3> QED BY <1>1, <1>2, <3>2, KeysStay
  <2>2. CASE kAccount # "purged"
    <3> DEFINE from == kReq[q].key
               by == kReq[q].op
               keys == Inserted(by, from)
               y == [status |-> "active", by |-> by, from |-> from, lock |-> None]
    <3>1. kKeys' = Settled(keys, q, TRUE) /\ Room /\ by \in {"own rotation", "admin rotation"}
      BY <1>5, <2>2 DEF RotateInsert
    <3>2. by \in KeyOrigins /\ from \in 0..MaxKeys
      BY <1>0, <3>1 DEF KeyOrigins, KTyped, KRequest
    <3>3. keys \in [KeyIds -> KKey] /\ keys[Fresh] = y /\ \A k \in KeyIds \ {Fresh} : keys[k] = kKeys[k]
      BY <3>1, <3>2, NewKey
    <3>4. y.status = "active" /\ y.from = from
      OBVIOUS
    <3>5. from \in KeyIds => kKeys[from].status # "none"
      BY DEF KBound
    <3>6. Fresh \in KeyIds
      BY <3>1, FreshIsFree
    <3> HIDE DEF y, keys, from, by
    <3>7. \A k \in KeyIds : SameKey(keys[k], Settled(keys, q, TRUE)[k]) \/ (keys[k].lock = q /\ keys[k].status = "none")
      <4>1. \A r \in KKey : DOMAIN r = {"status", "by", "from", "lock"}
        BY DEF KKey
      <4> QED BY <3>3, <4>1 DEF Settled, SameKey
    <3>8. keys[Fresh].lock # q
      <4>1. y.lock = None
        BY DEF y
      <4> QED BY <3>3, <4>1, NoneAssumption
    <3>9. kKeys'[Fresh].status # "none" /\ kKeys'[Fresh].from = from
      BY <3>1, <3>3, <3>4, <3>6, <3>7, <3>8 DEF SameKey
    <3>10. \A k \in KeyIds \ {Fresh} : SameKey(kKeys[k], kKeys'[k])
      <4> SUFFICES ASSUME NEW k \in KeyIds \ {Fresh} PROVE SameKey(keys[k], kKeys'[k])
        BY <3>3
      <4>1. ~(keys[k].lock = q /\ keys[k].status = "none")
        BY <3>3, NoneAssumption DEF KInv, KeyFine
      <4> QED BY <3>1, <3>7, <4>1
    <3> QED BY <1>1, <1>2, <3>1, <3>2, <3>5, <3>9, <3>10, KeyComes
  <2> QED BY <2>1, <2>2
<1> QED BY <1>3, <1>4, <1>5 DEF CreateAPIKeyForUser, InsertAPIKey

\* The keys of an account keep their types.
LEMMA KTypes ==
  /\ KInit => KBound
  /\ KInv /\ KBound /\ [KNext]_kVars => KBound'
  /\ KInv /\ KBound => KTypeOK
<1>1. ASSUME KInit PROVE KBound
  <2>1. NoKey.status = "none" /\ NoKey.from = 0 /\ KIdle.key = 0
    BY DEF NoKey, KIdle
  <2>2. \A k \in KeyIds : k \in Nat /\ k > 0
    BY ApiKeysAssumption DEF KeyIds
  <2> QED BY <1>1, <2>1, <2>2 DEF KInit, KBound, NoGaps
<1>2. ASSUME KInv, KBound, [KNext]_kVars PROVE KBound'
  <2>1. KTyped
    BY <1>2 DEF KInv
  <2>2. ASSUME NEW q \in Requests, NEW op, NEW key, NEW st, Begin(q, op, key, st),
               key = 0 \/ kKeys[key].status # "none"
        PROVE  KBound'
    <3> DEFINE x == [KIdle EXCEPT !.op = op, !.key = key, !.step = st]
    <3>1. x.key = key
      BY DEF KIdle
    <3>2. kReq' = [kReq EXCEPT ![q] = x] /\ UNCHANGED <<kAccount, kUserLock, kKeys>>
      BY <2>2 DEF Begin
    <3> HIDE DEF x
    <3>3. \A r \in Requests : NamesKey(r)
      BY <2>1, <2>2, <3>1, <3>2, NamesOn
    <3>4. \A k \in KeyIds : SameKey(kKeys[k], kKeys'[k])
      BY <3>2 DEF SameKey
    <3>5. kAccount' \in {"active", "deleted", "purged"}
      BY <1>2, <3>2 DEF KBound
    <3> QED BY <1>2, <3>3, <3>4, <3>5, KeysStay
  <2>3. ASSUME NEW q \in Requests, KDone(q) \/ (\E st : kReq' = [kReq EXCEPT ![q].step = st]) \/ kReq' = kReq,
               \A k \in KeyIds : SameKey(kKeys[k], kKeys'[k]), kAccount' \in {"active", "deleted", "purged"}
        PROVE  KBound'
    <3>1. \A r \in Requests : NamesKey(r)
      <4>1. CASE kReq' = kReq
        BY <4>1 DEF NamesKey
      <4> QED BY <4>1, <2>1, <2>3, NamesSame
    <3> QED BY <1>2, <2>3, <3>1, KeysStay
  <2>4. kKeys' = kKeys => \A k \in KeyIds : SameKey(kKeys[k], kKeys'[k])
    BY DEF SameKey
  <2>5. ASSUME NEW q \in Requests, LockUser(q) \/ CountKeys(q) \/ AdminReadOld(q) \/ DeleteUser(q)
        PROVE  KBound'
    <3>1. /\ UNCHANGED <<kAccount, kKeys>>
          /\ KDone(q) \/ (\E st : kReq' = [kReq EXCEPT ![q].step = st])
      BY <2>5, Zenon DEF LockUser, CountKeys, AdminReadOld, DeleteUser
    <3>2. kAccount' \in {"active", "deleted", "purged"}
      BY <1>2, <3>1 DEF KBound
    <3> QED BY <2>3, <2>4, <3>1, <3>2
  <2>6. ASSUME NEW q \in Requests, OwnRevoke(q) \/ AdminRevoke(q) PROVE KBound'
    <3>1. /\ UNCHANGED kAccount
          /\ KDone(q) \/ (\E st : kReq' = [kReq EXCEPT ![q].step = st])
      BY <2>6, Zenon DEF OwnRevoke, AdminRevoke
    <3>2. kKeys' = kKeys \/ (kReq[q].key \in KeyIds /\ kKeys' = [kKeys EXCEPT ![kReq[q].key].lock = q])
          \/ (kReq[q].key \notin KeyIds /\ kKeys' = [kKeys EXCEPT ![kReq[q].key].lock = q])
      BY <2>6, Zenon DEF OwnRevoke, AdminRevoke
    <3>3. \A k \in KeyIds : SameKey(kKeys[k], kKeys'[k])
      <4>1. kReq[q].key \notin KeyIds => \A z : [kKeys EXCEPT ![kReq[q].key] = z] = kKeys
        BY <2>1 DEF KTyped
      <4> QED BY <2>1, <2>4, <3>2, <4>1, SameKeys
    <3>4. kAccount' \in {"active", "deleted", "purged"}
      BY <1>2, <3>1 DEF KBound
    <3> QED BY <2>3, <3>1, <3>3, <3>4
  <2>7. ASSUME NEW q \in Requests, Fail(q) \/ PurgeUser(q) \/ DeleteCommit(q) PROVE KBound'
    <3>1. kAccount' \in {"active", "deleted", "purged"}
      BY <1>2, <2>7 DEF KBound, Fail, PurgeUser, DeleteCommit
    <3>2. KDone(q) \/ kReq' = kReq
      BY <2>7 DEF Fail, PurgeUser, DeleteCommit
    <3>3. kKeys' = Settled(kKeys, q, FALSE) \/ \E ids : kKeys' = RevokedIn(ids)
      BY <2>7, Zenon DEF Fail, PurgeUser, DeleteCommit
    <3>4. \A k \in KeyIds : SameKey(kKeys[k], kKeys'[k])
      BY <2>1, <3>3, SameKeys
    <3> QED BY <2>3, <3>1, <3>2, <3>4
  <2>8. ASSUME NEW q \in Requests, NEW k \in KeyIds, RevokeAPIKey(q, k) PROVE KBound'
    <3>1. kKeys' = RevokedIn({k}) /\ UNCHANGED <<kAccount, kReq>>
      BY <2>8 DEF RevokeAPIKey
    <3>2. \A j \in KeyIds : SameKey(kKeys[j], kKeys'[j])
      BY <2>1, <3>1, SameKeys
    <3>3. kAccount' \in {"active", "deleted", "purged"}
      BY <1>2, <3>1 DEF KBound
    <3> QED BY <2>3, <3>1, <3>2, <3>3
  <2>9. ASSUME NEW k \in KeyIds, Expire(k) PROVE KBound'
    <3>1. kKeys' = [kKeys EXCEPT ![k].status = "expired"] /\ kKeys[k].status = "active" /\ UNCHANGED <<kAccount, kReq>>
      BY <2>9 DEF Expire
    <3>2. \A j \in KeyIds : SameKey(kKeys[j], kKeys'[j])
      BY <2>1, <3>1, SameKeys
    <3>3. kAccount' \in {"active", "deleted", "purged"} /\ \A r \in Requests : NamesKey(r)
      BY <1>2, <3>1 DEF KBound, NamesKey
    <3> QED BY <1>2, <3>2, <3>3, KeysStay
  <2>10. ASSUME NEW q \in Requests, SnapshotKeys(q) \/ ListAPIKeys(q) PROVE KBound'
    <3>1. PICK s, t : kReq' = [kReq EXCEPT ![q].seen = s, ![q].step = t]
      BY <2>10 DEF SnapshotKeys, ListAPIKeys
    <3> DEFINE x == [kReq[q] EXCEPT !.seen = s, !.step = t]
    <3>2. x.key = kReq[q].key
      BY <2>1 DEF KTyped, KRequest
    <3>3. kReq' = [kReq EXCEPT ![q] = x]
      BY <2>1, <3>1 DEF KTyped
    <3> HIDE DEF x
    <3>4. \A r \in Requests : NamesKey(r)
      BY <2>1, <3>2, <3>3, NamesOn
    <3>5. kKeys' = kKeys /\ kAccount' \in {"active", "deleted", "purged"}
      BY <1>2, <2>10 DEF SnapshotKeys, ListAPIKeys, KBound
    <3> QED BY <1>2, <2>4, <3>4, <3>5, KeysStay
  <2>11. ASSUME NEW q \in Requests, ResyncRevoke(q) PROVE KBound'
    <3>1. kAccount' \in {"active", "deleted", "purged"}
      BY <1>2, <2>11 DEF KBound, ResyncRevoke
    <3>2. CASE KDone(q) /\ UNCHANGED kKeys
      BY <2>3, <2>4, <3>1, <3>2
    <3>3. ASSUME NEW k, kKeys' = RevokedIn({k}), kReq' = [kReq EXCEPT ![q].seen = @ \ {k}] PROVE KBound'
      <4> DEFINE x == [kReq[q] EXCEPT !.seen = kReq[q].seen \ {k}]
      <4>1. x.key = kReq[q].key
        BY <2>1 DEF KTyped, KRequest
      <4>2. kReq' = [kReq EXCEPT ![q] = x]
        BY <3>3
      <4> HIDE DEF x
      <4>3. \A r \in Requests : NamesKey(r)
        BY <2>1, <4>1, <4>2, NamesOn
      <4>4. \A j \in KeyIds : SameKey(kKeys[j], kKeys'[j])
        BY <2>1, <3>3, SameKeys
      <4> QED BY <1>2, <3>1, <4>3, <4>4, KeysStay
    <3> QED BY <2>11, <3>2, <3>3, Zenon DEF ResyncRevoke
  <2>12. CASE UNCHANGED kVars
    BY <1>2, <2>12 DEF KBound, kVars
  <2>13. ASSUME NEW q \in Requests,
                \/ CreateMyAPIKey(q) \/ CreateAPIKey(q) \/ SoftDeleteUser(q) \/ ResyncUserRole(q)
                \/ \E k \in KeyIds : RotateMyAPIKey(q, k) \/ RotateAPIKeyRequest(q, k)
         PROVE  KBound'
    BY <2>2, <2>13, Zenon DEF CreateMyAPIKey, CreateAPIKey, SoftDeleteUser, ResyncUserRole, RotateMyAPIKey, RotateAPIKeyRequest
  <2>14. ASSUME NEW q \in Requests, CreateAPIKeyForUser(q) \/ InsertAPIKey(q) \/ RotateInsert(q) PROVE KBound'
    BY <1>2, <2>14, InsertsBound
  <2> QED BY <1>2, <2>5, <2>6, <2>7, <2>8, <2>9, <2>10, <2>11, <2>12, <2>13, <2>14, Zenon DEF KNext
<1>3. ASSUME KInv, KBound PROVE KTypeOK
  <2>1. /\ kUserLock \in Requests \cup {None} /\ kKeys \in [KeyIds -> KKey] /\ kReq \in [Requests -> KRequest]
    BY <1>3 DEF KInv, KTyped
  <2>2. ASSUME NEW k \in KeyIds
        PROVE  /\ kKeys[k].status \in KeyStatus /\ kKeys[k].by \in KeyOrigins \cup {None}
               /\ kKeys[k].from \in 0 .. k - 1 /\ kKeys[k].lock \in Requests \cup {None}
    <3>1. /\ kKeys[k].status \in KeyStatus /\ kKeys[k].by \in KeyOrigins \cup {None}
          /\ kKeys[k].from \in 0 .. MaxKeys /\ kKeys[k].lock \in Requests \cup {None}
      BY <2>1 DEF KKey
    <3>2. kKeys[k].from < k /\ k \in Nat
      BY <1>3, ApiKeysAssumption DEF KBound, KeyIds
    <3>3. kKeys[k].from \in 0 .. k - 1
      BY <3>1, <3>2, ApiKeysAssumption
    <3> QED BY <3>1, <3>3
  <2>3. \A q \in Requests : kReq[q].key \in 0 .. MaxKeys /\ kReq[q].seen \subseteq KeyIds
    BY <2>1 DEF KRequest
  <2> QED BY <1>3, <2>1, <2>2, <2>3 DEF KBound, KTypeOK
<1> QED BY <1>1, <1>2, <1>3

\* Logins keep their types.
LEMMA LTypes ==
  /\ LInit => lUnbound \subseteq LoginUsers
  /\ LInv /\ lUnbound \subseteq LoginUsers /\ [LNext]_lVars => lUnbound' \subseteq LoginUsers
  /\ LInv /\ lUnbound \subseteq LoginUsers => LTypeOK
<1>1. LInit => lUnbound \subseteq LoginUsers
  BY DEF LInit
<1>2. ASSUME LInv, lUnbound \subseteq LoginUsers, [LNext]_lVars PROVE lUnbound' \subseteq LoginUsers
  <2>1. lBinding \in LoginUsers \cup {None}
    BY <1>2 DEF LInv, LTyped
  <2>2. CASE UnbindOIDC
    BY <1>2, <2>1, <2>2 DEF UnbindOIDC
  <2>3. UnbindOIDC \/ lUnbound' = lUnbound
    <3>1. \A f \in Flows : /\ FlowExpires(f) => lUnbound' = lUnbound
                           /\ \A cli \in BOOLEAN : handleStart(f, cli) => lUnbound' = lUnbound
      BY DEF FlowExpires, handleStart
    <3>2. \A q \in Requests :
             LookupOIDCBinding(q) \/ jitResolve(q) \/ GetUserByID(q) \/ applyLoginSync(q) => lUnbound' = lUnbound
      BY DEF LookupOIDCBinding, jitResolve, JITCreateHuman, GetUserByID, applyLoginSync
    <3>3. \A q \in Requests : handleCallback(q) \/ ExchangeCLICode(q) => lUnbound' = lUnbound
      BY DEF handleCallback, ExchangeCLICode
    <3>4. \A q \in Requests, f \in Flows : ConsumeLoginFlow(q, f) \/ handleCLIExchange(q, f) => lUnbound' = lUnbound
      BY DEF ConsumeLoginFlow, handleCLIExchange
    <3>5. \A u \in LoginUsers : /\ LSoftDeleteUser(u) => lUnbound' = lUnbound
                                /\ \A role \in LoginRoles : UpdateUserRole(u, role) => lUnbound' = lUnbound
      BY DEF LSoftDeleteUser, UpdateUserRole
    <3>6. UNCHANGED lVars => lUnbound' = lUnbound
      BY DEF lVars
    <3> QED BY <1>2, <3>1, <3>2, <3>3, <3>4, <3>5, <3>6, Zenon DEF LNext
  <2> QED BY <1>2, <2>2, <2>3
<1>3. ASSUME LInv, lUnbound \subseteq LoginUsers PROVE LTypeOK
  <2>1. LTyped
    BY <1>3 DEF LInv
  <2>2. \A f \in Flows :
          /\ lFlows[f].status \in {"new", "open", "consumed", "coded", "spent", "expired"}
          /\ lFlows[f].cli \in BOOLEAN
          /\ lFlows[f].user \in LoginUsers \cup {None}
          /\ lFlows[f].lock \in Requests \cup {None}
    BY <2>1 DEF LTyped, LFlow
  <2>3. \A u \in LoginUsers : lUsers[u].status \in {"none", "active", "deleted"} /\ lUsers[u].role \in LoginRoles
    BY <2>1 DEF LTyped, LUser
  <2>4. lConfig.sync \in BOOLEAN /\ lConfig.mapped \in LoginRoles \cup {None}
    BY <2>1 DEF LTyped
  <2> QED BY <1>3, <2>1, <2>2, <2>3, <2>4 DEF LTyped, LTypeOK
<1> QED BY <1>1, <1>2, <1>3

\* For the others the invariant has all the types.
LEMMA OtherTypes ==
  (MInv => MTypeOK) /\ (CoInv /\ MergeInv => CoTypeOK) /\ (GInv => GTypeOK) /\ (ClInv => CTypeOK)
<1>1. ASSUME MInv PROVE MTypeOK
  <2>1. \A q \in Requests :
          /\ mCmd[q].step \in CmdSteps /\ mCmd[q].release \in Releases /\ mCmd[q].plan \in Content
          /\ mCmd[q].changed \in BOOLEAN /\ mCmd[q].oldChanged \in BOOLEAN
    BY <1>1 DEF MInv, Command
  <2> QED BY <1>1, <2>1 DEF MInv, MTypeOK, FileFine
<1>2. ASSUME CoInv, MergeInv PROVE CoTypeOK
  <2>1. \A l \in CLayers :
          /\ cRows[l].there \in BOOLEAN /\ cRows[l].entry \in Entries /\ cRows[l].url \in BOOLEAN
          /\ cRows[l].hash \in Hashes
    BY <1>2 DEF CoInv, ConstitutionRow
  <2>2. \A q \in Requests :
          /\ cReq[q].step \in {"idle", "fetched", "write", "unchanged", "would change", "changed"}
          /\ cReq[q].layer \in CLayers \cup {None} /\ cReq[q].doc \in Documents
    BY <1>2 DEF CoInv, RefreshRequest, RefreshSteps
  <2>3. /\ cSaid \in Seq(Mentions) /\ Len(cSaid) <= MaxSaid
        /\ cMerged.keyed.order \in Seq(MergeKeys) /\ cMerged.list.order \in Seq(MergeKeys)
        /\ cMerged.scalar.order = <<>>
    BY <1>2 DEF MergeInv, KeyedKnown, ListKnown
  <2>4. cRemote \in Documents /\ cGiven \subseteq CLayers
    BY <1>2 DEF CoInv
  <2> QED BY <2>1, <2>2, <2>3, <2>4 DEF CoTypeOK
<1>3. ASSUME GInv PROVE GTypeOK
  <2>1. gWalk.stack \in Seq(LintFrame) /\ gWalk.pending \subseteq LintSpecs
        /\ gWalk.visited \subseteq LintSpecs /\ gWalk.found \subseteq LintSpecs
    BY <1>3, WalkTypes
  <2>2. \A i \in DOMAIN gWalk.stack : gWalk.stack[i].node \in LintSpecs /\ gWalk.stack[i].todo \subseteq LintSpecs
    <3>1. DOMAIN gWalk.stack = 1 .. Len(gWalk.stack) /\ \A i \in 1 .. Len(gWalk.stack) : gWalk.stack[i] \in LintFrame
      BY <2>1
    <3> QED BY <3>1 DEF LintFrame
  <2> QED BY <1>3, <2>1, <2>2 DEF GInv, GTypeOK
<1>4. ASSUME ClInv PROVE CTypeOK
  BY <1>4 DEF ClInv, CTypeOK, CallSet, OneLateWrite
<1> QED BY <1>1, <1>2, <1>3, <1>4

ServicesInv ==
    /\ KInv /\ KBound /\ UInv /\ UBound /\ LInv /\ lUnbound \subseteq LoginUsers
    /\ BInv /\ BBound /\ ClInv /\ MInv /\ CoInv /\ MergeInv /\ GInv

\* The keys, the tracker, logins, credentials, front ends, managed files, the
\* constitution and the linter have their types in every state of the composed
\* specification.
THEOREM ServicesTyped == MCSpec => []ServicesTypeOK
<1>1. MCInit => ServicesInv
  <2> SUFFICES ASSUME MCInit PROVE ServicesInv
    OBVIOUS
  <2>1. KInit /\ UInit /\ LInit /\ BInit /\ CInit /\ MInit /\ CoInit /\ GInit
    BY DEF MCInit
  <2> QED BY <2>1, KInitInv, KTypes, UInitInv, UTyped, LInitInv, LTypes, BInitInv, BTypes, ClInitInv, MInitInv,
             CoInitInv, MergeInitInv, GInitInv, Zenon DEF ServicesInv
<1>2. ServicesInv /\ [MCNext]_MCVars => ServicesInv'
  <2> SUFFICES ASSUME ServicesInv, [MCNext]_MCVars PROVE ServicesInv'
    OBVIOUS
  <2>1. /\ [KNext]_kVars /\ [UNext]_uVars /\ [LNext]_lVars /\ [BNext]_bVars
        /\ [CNext]_cVars /\ [MNext]_mVars /\ [CoNext]_coVars /\ [GNext]_gVars
    BY DEF MCNext, MCVars, Only
  <2>2. KInv' /\ KBound' /\ UInv' /\ UBound'
    BY <2>1, KNextInv, KTypes, UNextInv, UTyped, Zenon DEF ServicesInv
  <2>3. LInv' /\ lUnbound' \subseteq LoginUsers /\ BInv' /\ BBound'
    BY <2>1, LNextInv, LTypes, BNextInv, BTypes, Zenon DEF ServicesInv
  <2>4. ClInv' /\ MInv' /\ CoInv' /\ MergeInv' /\ GInv'
    BY <2>1, ClNextInv, MNextInv, CoNextInv, MergeNextInv, GNextInv, Zenon DEF ServicesInv
  <2> QED BY <2>2, <2>3, <2>4 DEF ServicesInv
<1>3. ServicesInv => ServicesTypeOK
  BY KTypes, UTyped, LTypes, BTypes, OtherTypes, Zenon DEF ServicesInv, ServicesTypeOK
<1> QED BY <1>1, <1>2, <1>3, PTL DEF MCSpec
=============================================================================
