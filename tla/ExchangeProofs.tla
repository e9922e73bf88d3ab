--------------------------- MODULE ExchangeProofs ---------------------------
(***************************************************************************)
(* Proofs about what compares the project with a copy of it, each for its  *)
(* own specification and every value of the constants: synchronisation     *)
(* with an external tracker, drift checks, and export and import.          *)
(***************************************************************************)
EXTENDS MCExchange, FiniteSetTheorems, TLAPS

(***************************************************************************)
(* Synchronisation.  A request that pushes a spec nobody else pushes, and   *)
(* whose item no search missed, knows that the spec has no item; one that  *)
(* maps a spec holds an item of it unless a search for it went astray.     *)
(***************************************************************************)

\* The item i that stands for s, as far as the searches for s can be trusted.
ItemFits(i, s, its, stray) == i \in Items /\ its[i] # None /\ (s \notin stray => its[i] = s)

\* The request x fits the items and the mappings there are.
SyncFine(x, its, maps, stray) ==
    /\ x.pc \notin {"idle", "next"} => x.spec \in SyncedSpecs
    /\ x.pc \in {"map", "remap"} => ItemFits(x.ext, x.spec, its, stray)
    /\ \A s \in x.reported : maps[s] # None

Pushing(x, s) == x.pc = "push" /\ x.spec = s

\* Specs that a race or a search may have given a second item.
Doubtful == overlap \cup missed

PushesAlone ==
    /\ \A r, o \in Requests, s \in SyncedSpecs :
         Pushing(syncReq[r], s) /\ Pushing(syncReq[o], s) /\ r # o => s \in Doubtful
    /\ \A r \in Requests, s \in SyncedSpecs \ Doubtful, i \in Items :
         Pushing(syncReq[r], s) => item[i] # s

OneItem == \A s \in SyncedSpecs \ Doubtful : \A i, j \in Items : item[i] = s /\ item[j] = s => i = j

MapsFit(maps, its, stray) ==
    /\ maps \in [SyncedSpecs -> Items \cup {None}]
    /\ \A s \in SyncedSpecs : maps[s] # None => ItemFits(maps[s], s, its, stray)

SyncInv ==
    /\ SyncTypeOK
    /\ \A r \in Requests : SyncFine(syncReq[r], item, mapping, strayed)
    /\ PushesAlone
    /\ OneItem
    /\ MapsFit(mapping, item, strayed)

\* What the histories know of a spec they know for good.
SearchesGrow ==
    /\ overlap \subseteq overlap' /\ overlap' \subseteq SyncedSpecs
    /\ missed \subseteq missed' /\ missed' \subseteq SyncedSpecs
    /\ strayed \subseteq strayed' /\ strayed' \subseteq SyncedSpecs

\* Histories that a step leaves alone.
LEMMA SearchesStay ==
    ASSUME SyncInv, UNCHANGED searches
    PROVE  SearchesGrow /\ strayed' = strayed
BY DEF SyncInv, SyncTypeOK, SearchesGrow, searches

\* The result of a spec.
LEMMA ResultFields ==
    ASSUME NEW q \in SyncRequest, NEW ss \in SUBSET SyncedSpecs
    PROVE  /\ Result(q, ss) \in SyncRequest /\ Result(q, ss).pc = "next"
           /\ Result(q, ss).reported = q.reported \cup ss
<1> DEFINE res == q.reported \cup ss
           x == [q EXCEPT !.pc = "next", !.reported = res, !.spec = None]
           y == [x EXCEPT !.ext = None]
<1>1. res \in SUBSET SyncedSpecs
  BY DEF SyncRequest
<1>2. Result(q, ss) = y
  BY DEF Result, SyncRequest
<1> HIDE DEF res
<1>3. x \in SyncRequest /\ x.pc = "next" /\ x.reported = res
  BY <1>1 DEF SyncRequest
<1> HIDE DEF x
<1>4. y \in SyncRequest /\ y.pc = "next" /\ y.reported = res
  BY <1>3 DEF SyncRequest
<1> QED BY <1>2, <1>4 DEF res

\* A request becomes x; no item changes and no mapping goes.
LEMMA OneSync ==
    ASSUME SyncInv, NEW r \in Requests, NEW x \in SyncRequest, SyncGo(r, x),
           item' = item, MapsFit(mapping', item, strayed'),
           \A s \in SyncedSpecs : mapping[s] # None => mapping'[s] = mapping[s],
           SyncFine(x, item, mapping', strayed'), x.pc # "push", SearchesGrow
    PROVE  SyncInv'
<1>1. /\ syncReq' \in [Requests -> SyncRequest]
      /\ \A o \in Requests : syncReq'[o] = IF o = r THEN x ELSE syncReq[o]
  BY DEF SyncInv, SyncTypeOK, SyncGo
<1>2. SyncTypeOK'
  BY <1>1 DEF SyncInv, SyncTypeOK, SearchesGrow, MapsFit
<1>3. ASSUME NEW o \in Requests PROVE SyncFine(syncReq[o], item, mapping', strayed')
  <2>1. SyncFine(syncReq[o], item, mapping, strayed) /\ syncReq[o].reported \subseteq SyncedSpecs
    BY DEF SyncInv, SyncTypeOK, SyncRequest
  <2> QED BY <2>1 DEF SyncFine, ItemFits, SearchesGrow
<1>4. \A o \in Requests : SyncFine(syncReq'[o], item', mapping', strayed')
  BY <1>1, <1>3
<1>5. \A o \in Requests, s \in SyncedSpecs : Pushing(syncReq'[o], s) => Pushing(syncReq[o], s)
  BY <1>1 DEF Pushing
<1>6. Doubtful \subseteq Doubtful'
  BY DEF Doubtful, SearchesGrow
<1>7. PushesAlone'
  BY <1>5, <1>6 DEF SyncInv, PushesAlone
<1>8. OneItem' /\ MapsFit(mapping', item', strayed')
  BY <1>6 DEF SyncInv, OneItem
<1> QED BY <1>2, <1>4, <1>7, <1>8 DEF SyncInv

\* The outcome of a spec, when it is backed by the mappings there are.
LEMMA SyncResult ==
    ASSUME SyncInv, NEW r \in Requests, NEW ss \in SUBSET SyncedSpecs,
           SyncGo(r, Result(syncReq[r], ss)),
           item' = item, MapsFit(mapping', item, strayed'),
           \A s \in SyncedSpecs : mapping[s] # None => mapping'[s] = mapping[s],
           \A s \in ss : mapping'[s] # None, SearchesGrow
    PROVE  SyncInv'
<1> DEFINE q == syncReq[r]
           x == Result(q, ss)
<1>1. q \in SyncRequest /\ SyncFine(q, item, mapping, strayed) /\ q.reported \subseteq SyncedSpecs
  BY DEF SyncInv, SyncTypeOK, SyncRequest
<1>2. x \in SyncRequest /\ x.pc = "next" /\ x.reported = q.reported \cup ss
  <2> HIDE DEF q
  <2> QED BY <1>1, ResultFields
<1>3. \A s \in x.reported : mapping'[s] # None
  BY <1>1, <1>2 DEF SyncFine
<1> HIDE DEF x
<1>4. SyncFine(x, item, mapping', strayed')
  BY <1>2, <1>3 DEF SyncFine
<1>5. SyncGo(r, x)
  BY DEF x
<1> QED BY <1>2, <1>4, <1>5, OneSync

\* An idle request, and the results of a spec.
LEMMA SyncOutcomes ==
    /\ SyncIdle \in SyncRequest /\ SyncIdle.pc = "idle" /\ SyncIdle.reported = {}
    /\ \A q : ResultOther(q) = Result(q, {}) /\ ResultSynced(q) = Result(q, {q.spec})
    /\ \A its, maps, stray : SyncFine(SyncIdle, its, maps, stray)
<1>1. SyncIdle \in SyncRequest /\ SyncIdle.pc = "idle" /\ SyncIdle.reported = {}
  BY DEF SyncIdle, SyncRequest
<1> QED BY <1>1 DEF ResultOther, ResultSynced, SyncFine

\* The initial states satisfy the invariant.
LEMMA SyncInitInv == SyncInit => SyncInv
<1> SUFFICES ASSUME SyncInit PROVE SyncInv
  OBVIOUS
<1>1. \A r \in Requests : syncReq[r] = SyncIdle
  BY DEF SyncInit
<1>2. item \in [Items -> SyncedSpecs \cup {None, "stranger"}] /\ \A i \in Items : item[i] \notin SyncedSpecs
  BY ExternalSyncAssumption DEF SyncInit
<1>3. SyncTypeOK
  BY <1>2, SyncOutcomes DEF SyncInit, SyncTypeOK
<1>4. \A r \in Requests : SyncFine(syncReq[r], item, mapping, strayed)
  BY <1>1, SyncOutcomes
<1>5. PushesAlone /\ OneItem
  BY <1>1, <1>2, SyncOutcomes DEF PushesAlone, OneItem, Pushing
<1>6. MapsFit(mapping, item, strayed)
  BY DEF SyncInit, MapsFit
<1> QED BY <1>3, <1>4, <1>5, <1>6 DEF SyncInv

\* A sync starts, ends where it is, or goes on with the next spec.
LEMMA SyncLoopInv ==
    ASSUME SyncInv, NEW r \in Requests, SyncStart(r) \/ SyncLost(r) \/ SyncNextSpec(r)
    PROVE  SyncInv'
<1>0. /\ syncReq[r] \in SyncRequest /\ SyncFine(syncReq[r], item, mapping, strayed)
      /\ UNCHANGED <<item, mapping, searches>> /\ MapsFit(mapping, item, strayed)
  BY DEF SyncInv, SyncTypeOK, SyncStart, SyncLost, SyncNextSpec
<1>1. SearchesGrow /\ strayed' = strayed
  BY <1>0, SearchesStay
<1>2. PICK x \in SyncRequest : SyncGo(r, x) /\ SyncFine(x, item, mapping, strayed) /\ x.pc # "push"
  <2>1. CASE SyncStart(r)
    <3>1. PICK dry \in BOOLEAN, todo \in SUBSET SyncedSpecs :
            SyncGo(r, [SyncIdle EXCEPT !.pc = "next", !.dryRun = dry, !.todo = todo])
      BY <2>1 DEF SyncStart
    <3> DEFINE x == [SyncIdle EXCEPT !.pc = "next", !.dryRun = dry, !.todo = todo]
    <3>2. x \in SyncRequest /\ x.pc = "next" /\ x.reported = SyncIdle.reported
      BY <3>1, SyncOutcomes DEF SyncRequest
    <3> HIDE DEF x
    <3>3. SyncFine(x, item, mapping, strayed)
      BY <3>2, SyncOutcomes DEF SyncFine
    <3> QED BY <3>1, <3>2, <3>3 DEF x
  <2>2. CASE SyncLost(r)
    BY <2>2, SyncOutcomes DEF SyncLost
  <2>3. CASE SyncNextSpec(r)
    <3>1. PICK s \in syncReq[r].todo :
            SyncGo(r, [syncReq[r] EXCEPT !.pc = "check", !.spec = s, !.todo = @ \ {s}])
      BY <2>3 DEF SyncNextSpec
    <3> DEFINE left == syncReq[r].todo \ {s}
               x == [syncReq[r] EXCEPT !.pc = "check", !.spec = s, !.todo = left]
    <3>2. left \in SUBSET SyncedSpecs /\ s \in SyncedSpecs /\ SyncGo(r, x)
      BY <1>0, <3>1 DEF SyncRequest
    <3> HIDE DEF left
    <3>3. x \in SyncRequest /\ x.pc = "check" /\ x.spec = s /\ x.reported = syncReq[r].reported
      BY <1>0, <3>2 DEF SyncRequest
    <3> HIDE DEF x
    <3>4. SyncFine(x, item, mapping, strayed)
      BY <1>0, <3>2, <3>3 DEF SyncFine
    <3> QED BY <3>2, <3>3, <3>4
  <2> QED BY <2>1, <2>2, <2>3
<1> QED BY <1>0, <1>1, <1>2, OneSync

\* The mapping is looked up.
LEMMA SyncCheckInv ==
    ASSUME SyncInv, NEW r \in Requests, GetSyncMapping(r)
    PROVE  SyncInv'
<1>0. /\ syncReq[r] \in SyncRequest /\ SyncFine(syncReq[r], item, mapping, strayed)
      /\ UNCHANGED <<item, mapping, searches>> /\ syncReq[r].pc = "check"
      /\ MapsFit(mapping, item, strayed)
  BY DEF SyncInv, SyncTypeOK, GetSyncMapping
<1>1. syncReq[r].spec \in SyncedSpecs /\ SearchesGrow /\ strayed' = strayed
  BY <1>0, SearchesStay DEF SyncFine
<1>2. CASE SyncGo(r, ResultOther(syncReq[r]))
  BY <1>0, <1>1, <1>2, SyncOutcomes, SyncResult
<1>3. CASE mapping[syncReq[r].spec] # None /\ SyncGo(r, ResultSynced(syncReq[r]))
  <2> DEFINE ss == {syncReq[r].spec}
  <2>1. ss \in SUBSET SyncedSpecs /\ SyncGo(r, Result(syncReq[r], ss))
    BY <1>1, <1>3, SyncOutcomes
  <2>2. mapping' = mapping /\ item' = item /\ \A s \in ss : mapping'[s] # None
    BY <1>0, <1>3
  <2> HIDE DEF ss
  <2> QED BY <1>0, <1>1, <2>1, <2>2, SyncResult
<1> DEFINE x == [syncReq[r] EXCEPT !.pc = "search"]
<1>4. CASE SyncGo(r, x)
  <2>1. x \in SyncRequest /\ x.pc = "search" /\ x.spec = syncReq[r].spec /\ x.reported = syncReq[r].reported
    BY <1>0 DEF SyncRequest
  <2> HIDE DEF x
  <2>2. SyncFine(x, item, mapping, strayed)
    BY <1>0, <1>1, <2>1 DEF SyncFine
  <2> QED BY <1>0, <1>1, <1>4, <2>1, <2>2, OneSync
<1> QED BY <1>2, <1>3, <1>4 DEF GetSyncMapping

\* The tracker is searched: a spec that two requests push was overlapped, and a
\* push of a spec that has an item follows a search that missed it.
LEMMA SyncFindInv ==
    ASSUME SyncInv, NEW r \in Requests, FindOrCreate(r)
    PROVE  SyncInv'
<1>0. /\ syncReq[r] \in SyncRequest /\ SyncFine(syncReq[r], item, mapping, strayed)
      /\ UNCHANGED <<item, mapping>> /\ syncReq[r].pc = "search"
      /\ MapsFit(mapping, item, strayed)
      /\ overlap \subseteq SyncedSpecs /\ missed \subseteq SyncedSpecs /\ strayed \subseteq SyncedSpecs
  BY DEF SyncInv, SyncTypeOK, FindOrCreate
<1> DEFINE p == syncReq[r].spec
<1>1. p \in SyncedSpecs
  BY <1>0 DEF SyncFine
<1>2. CASE SyncGo(r, ResultOther(syncReq[r])) /\ UNCHANGED searches
  BY <1>0, <1>2, SearchesStay, SyncOutcomes, SyncResult
<1>3. ASSUME NEW a \in Find(p), missed' = missed \cup a.missed, strayed' = strayed \cup a.strayed,
             a.hit # None, SyncGo(r, [syncReq[r] EXCEPT !.pc = "map", !.ext = a.hit]), UNCHANGED overlap
      PROVE  SyncInv'
  <2> DEFINE x == [syncReq[r] EXCEPT !.pc = "map", !.ext = a.hit]
  <2>1. /\ a.hit \in Items /\ item[a.hit] # None /\ a.missed = {} /\ a.strayed \subseteq {p}
        /\ item[a.hit] # p => p \in a.strayed
    BY <1>3 DEF Find, ItemsOf
  <2>2. SearchesGrow /\ strayed \subseteq strayed' /\ (item[a.hit] # p => p \in strayed')
    BY <1>0, <1>1, <1>3, <2>1 DEF SearchesGrow
  <2>3. x \in SyncRequest /\ x.pc = "map" /\ x.spec = p /\ x.reported = syncReq[r].reported /\ x.ext = a.hit
    BY <1>0, <2>1 DEF SyncRequest
  <2>4. SyncGo(r, x)
    BY <1>3
  <2> HIDE DEF x
  <2>5. SyncFine(x, item, mapping, strayed')
    BY <1>0, <1>1, <2>1, <2>2, <2>3 DEF SyncFine, ItemFits
  <2>6. MapsFit(mapping', item, strayed') /\ mapping' = mapping /\ item' = item
    BY <1>0, <2>2 DEF MapsFit, ItemFits
  <2> QED BY <2>2, <2>3, <2>4, <2>5, <2>6, OneSync
<1> DEFINE x == [syncReq[r] EXCEPT !.pc = "push"]
           both == {s \in {p} : \E o \in Requests \ {r} : syncReq[o].pc = "push" /\ syncReq[o].spec = s}
<1>4. ASSUME NEW a \in Find(p), missed' = missed \cup a.missed, strayed' = strayed \cup a.strayed,
             a.hit = None, SyncGo(r, x), overlap' = overlap \cup both
      PROVE  SyncInv'
  <2>1. x \in SyncRequest /\ x.pc = "push" /\ x.spec = p /\ x.reported = syncReq[r].reported
    BY <1>0 DEF SyncRequest
  <2> HIDE DEF x
  <2>12. a.strayed = {} /\ a.missed \subseteq {p} /\ (ItemsOf(p) # {} => p \in a.missed)
    BY <1>4, ExternalSyncAssumption DEF Find
  <2>2. strayed' = strayed /\ SyncFine(x, item, mapping, strayed)
    BY <1>0, <1>1, <1>4, <2>1, <2>12 DEF SyncFine
  <2>3. /\ syncReq' \in [Requests -> SyncRequest]
        /\ \A o \in Requests : syncReq'[o] = IF o = r THEN x ELSE syncReq[o]
    BY <1>4, <2>1 DEF SyncInv, SyncTypeOK, SyncGo
  <2>4. both \subseteq {p} /\ (\A o \in Requests \ {r} : Pushing(syncReq[o], p) => p \in both)
    BY DEF Pushing
  <2> HIDE DEF both
  <2>5. /\ Doubtful \subseteq Doubtful' /\ overlap' \subseteq SyncedSpecs /\ missed' \subseteq SyncedSpecs
        /\ both \subseteq Doubtful' /\ a.missed \subseteq Doubtful'
    BY <1>0, <1>1, <1>4, <2>4, <2>12 DEF Doubtful
  <2>6. SyncTypeOK'
    BY <1>0, <2>2, <2>3, <2>5 DEF SyncInv, SyncTypeOK
  <2>7. \A o \in Requests : SyncFine(syncReq'[o], item', mapping', strayed')
    BY <1>0, <2>2, <2>3 DEF SyncInv
  <2>8. \A o \in Requests, s \in SyncedSpecs :
          Pushing(syncReq'[o], s) => Pushing(syncReq[o], s) \/ (o = r /\ s = p)
    BY <2>1, <2>3 DEF Pushing
  <2>9. \A o, u \in Requests, s \in SyncedSpecs :
          Pushing(syncReq'[o], s) /\ Pushing(syncReq'[u], s) /\ o # u => s \in Doubtful'
    <3> SUFFICES ASSUME NEW o \in Requests, NEW u \in Requests, NEW s \in SyncedSpecs,
                        Pushing(syncReq'[o], s), Pushing(syncReq'[u], s), o # u
                 PROVE  s \in Doubtful'
      OBVIOUS
    <3>1. CASE Pushing(syncReq[o], s) /\ Pushing(syncReq[u], s)
      BY <2>5, <3>1 DEF SyncInv, PushesAlone
    <3>2. CASE o = r /\ s = p /\ Pushing(syncReq[u], s)
      BY <2>4, <2>5, <3>2
    <3>3. CASE u = r /\ s = p /\ Pushing(syncReq[o], s)
      BY <2>4, <2>5, <3>3
    <3> QED BY <2>8, <3>1, <3>2, <3>3
  <2>10. \A o \in Requests, s \in SyncedSpecs \ Doubtful', i \in Items :
           Pushing(syncReq'[o], s) => item'[i] # s
    <3>1. p \notin Doubtful' => \A i \in Items : item[i] # p
      BY <2>5, <2>12 DEF ItemsOf
    <3> QED BY <1>0, <2>5, <2>8, <3>1 DEF SyncInv, PushesAlone
  <2>11. OneItem' /\ MapsFit(mapping', item', strayed')
    BY <1>0, <2>2, <2>5 DEF SyncInv, OneItem
  <2> QED BY <2>6, <2>7, <2>9, <2>10, <2>11 DEF SyncInv, PushesAlone
<1> HIDE DEF x, both
<1> QED BY <1>2, <1>3, <1>4 DEF FindOrCreate, x, both

\* An item is created, and the answer may be lost.
LEMMA SyncPushInv ==
    ASSUME SyncInv, NEW r \in Requests, Push(r)
    PROVE  SyncInv'
<1>0. /\ syncReq[r] \in SyncRequest /\ SyncFine(syncReq[r], item, mapping, strayed)
      /\ UNCHANGED <<mapping, searches>> /\ syncReq[r].pc = "push"
      /\ MapsFit(mapping, item, strayed)
      /\ item \in [Items -> SyncedSpecs \cup {None, "stranger"}]
  BY DEF SyncInv, SyncTypeOK, Push
<1> DEFINE p == syncReq[r].spec
<1>1. p \in SyncedSpecs /\ Pushing(syncReq[r], p) /\ SearchesGrow /\ strayed' = strayed
  BY <1>0, SearchesStay DEF SyncFine, Pushing
<1>2. CASE SyncGo(r, ResultOther(syncReq[r])) /\ UNCHANGED item
  BY <1>0, <1>1, <1>2, SyncOutcomes, SyncResult
<1>3. ASSUME NEW i \in Items, item[i] = None, item' = [item EXCEPT ![i] = p],
             NEW x \in SyncRequest, SyncGo(r, x), x.pc # "push", SyncFine(x, item', mapping, strayed)
      PROVE  SyncInv'
  <2>1. /\ syncReq' \in [Requests -> SyncRequest]
        /\ \A o \in Requests : syncReq'[o] = IF o = r THEN x ELSE syncReq[o]
    BY <1>3 DEF SyncInv, SyncTypeOK, SyncGo
  <2>2. /\ item' \in [Items -> SyncedSpecs \cup {None, "stranger"}]
        /\ \A j \in Items : item'[j] = IF j = i THEN p ELSE item[j]
    BY <1>0, <1>1, <1>3
  <2>3. SyncTypeOK' /\ Doubtful' = Doubtful
    BY <1>0, <2>1, <2>2 DEF SyncInv, SyncTypeOK, searches, Doubtful
  <2>4. \A j \in Items : item[j] # None => item'[j] = item[j]
    BY <1>3, <2>2
  <2>5. ASSUME NEW o \in Requests PROVE SyncFine(syncReq[o], item', mapping, strayed)
    BY <2>4 DEF SyncInv, SyncFine, ItemFits
  <2>6. \A o \in Requests : SyncFine(syncReq'[o], item', mapping', strayed')
    BY <1>0, <1>1, <1>3, <2>1, <2>5
  <2>7. \A o \in Requests, s \in SyncedSpecs : Pushing(syncReq'[o], s) => Pushing(syncReq[o], s) /\ o # r
    BY <1>3, <2>1 DEF Pushing
  <2>8. PushesAlone'
    <3>1. \A o, u \in Requests, s \in SyncedSpecs :
            Pushing(syncReq'[o], s) /\ Pushing(syncReq'[u], s) /\ o # u => s \in Doubtful'
      BY <2>3, <2>7 DEF SyncInv, PushesAlone
    <3>2. \A o \in Requests, s \in SyncedSpecs \ Doubtful, j \in Items :
            Pushing(syncReq'[o], s) => item'[j] # s
      <4> SUFFICES ASSUME NEW o \in Requests, NEW s \in SyncedSpecs \ Doubtful, NEW j \in Items,
                          Pushing(syncReq'[o], s), item'[j] = s
                   PROVE  FALSE
        OBVIOUS
      <4>1. Pushing(syncReq[o], s) /\ o # r
        BY <2>7
      <4>2. item[j] # s
        BY <4>1 DEF SyncInv, PushesAlone
      <4>3. s = p
        BY <2>2, <4>2
      <4> QED BY <1>1, <4>1, <4>3 DEF SyncInv, PushesAlone
    <3> QED BY <2>3, <3>1, <3>2 DEF PushesAlone
  <2>9. OneItem'
    <3>1. p \notin Doubtful => \A j \in Items : item[j] # p
      BY <1>1 DEF SyncInv, PushesAlone
    <3> QED BY <2>2, <2>3, <3>1 DEF SyncInv, OneItem
  <2>10. MapsFit(mapping', item', strayed')
    BY <1>0, <1>1, <2>4 DEF MapsFit, ItemFits
  <2> QED BY <2>3, <2>6, <2>8, <2>9, <2>10 DEF SyncInv
<1>4. ASSUME NEW i \in Items, item[i] = None, item' = [item EXCEPT ![i] = p],
             SyncGo(r, [syncReq[r] EXCEPT !.pc = "map", !.ext = i])
      PROVE  SyncInv'
  <2> DEFINE x == [syncReq[r] EXCEPT !.pc = "map", !.ext = i]
  <2>1. x \in SyncRequest /\ x.pc = "map" /\ x.spec = p /\ x.reported = syncReq[r].reported /\ x.ext = i
    BY <1>0 DEF SyncRequest
  <2>2. SyncGo(r, x) /\ item'[i] = p
    BY <1>0, <1>4
  <2> HIDE DEF x
  <2>3. SyncFine(x, item', mapping, strayed)
    BY <1>0, <1>1, <2>1, <2>2, ExternalSyncAssumption DEF SyncFine, ItemFits
  <2> QED BY <1>3, <1>4, <2>1, <2>2, <2>3
<1>5. ASSUME NEW i \in Items, item[i] = None, item' = [item EXCEPT ![i] = p],
             SyncGo(r, ResultOther(syncReq[r]))
      PROVE  SyncInv'
  <2> DEFINE x == Result(syncReq[r], {})
  <2>1. /\ x \in SyncRequest /\ x.pc = "next"
        /\ x.reported = syncReq[r].reported \cup {}
    BY <1>0, ResultFields
  <2>2. SyncGo(r, x)
    BY <1>5, SyncOutcomes
  <2> HIDE DEF x
  <2>3. SyncFine(x, item', mapping, strayed)
    BY <1>0, <2>1 DEF SyncFine
  <2> QED BY <1>3, <1>5, <2>1, <2>2, <2>3
<1> QED BY <1>2, <1>4, <1>5 DEF Push

\* The mapping is written, or not, or written and reported as failed.
LEMMA SyncMapInv ==
    ASSUME SyncInv, NEW r \in Requests, CreateSyncMapping(r)
    PROVE  SyncInv'
<1>0. /\ syncReq[r] \in SyncRequest /\ SyncFine(syncReq[r], item, mapping, strayed)
      /\ UNCHANGED <<item, searches>> /\ syncReq[r].pc \in {"map", "remap"}
      /\ MapsFit(mapping, item, strayed)
  BY DEF SyncInv, SyncTypeOK, CreateSyncMapping
<1> DEFINE p == syncReq[r].spec
           e == syncReq[r].ext
<1>1. p \in SyncedSpecs /\ ItemFits(e, p, item, strayed) /\ SearchesGrow /\ strayed' = strayed
  BY <1>0, SearchesStay DEF SyncFine
<1>2. \/ mapping' = mapping
      \/ mapping[p] = None /\ mapping' = [mapping EXCEPT ![p] = e]
  BY DEF CreateSyncMapping
<1>3. /\ MapsFit(mapping', item, strayed')
      /\ \A s \in SyncedSpecs : mapping[s] # None => mapping'[s] = mapping[s]
  <2>1. CASE mapping' = mapping
    BY <1>0, <1>1, <2>1
  <2>2. CASE mapping[p] = None /\ mapping' = [mapping EXCEPT ![p] = e]
    <3>1. e \in Items
      BY <1>1 DEF ItemFits
    <3>2. /\ mapping' \in [SyncedSpecs -> Items \cup {None}]
          /\ \A s \in SyncedSpecs : mapping'[s] = IF s = p THEN e ELSE mapping[s]
      BY <1>0, <2>2, <3>1 DEF MapsFit
    <3> QED BY <1>0, <1>1, <2>2, <3>2 DEF MapsFit
  <2> QED BY <1>2, <2>1, <2>2
<1>4. CASE SyncGo(r, ResultOther(syncReq[r]))
  BY <1>0, <1>1, <1>3, <1>4, SyncOutcomes, SyncResult
<1>5. ASSUME SyncGo(r, ResultSynced(syncReq[r])), mapping'[p] # None PROVE SyncInv'
  <2> DEFINE ss == {p}
  <2>1. ss \in SUBSET SyncedSpecs /\ SyncGo(r, Result(syncReq[r], ss))
    BY <1>1, <1>5, SyncOutcomes
  <2>2. \A s \in ss : mapping'[s] # None
    BY <1>5
  <2> HIDE DEF ss
  <2> QED BY <1>0, <1>1, <1>3, <2>1, <2>2, SyncResult
<1> DEFINE x == [syncReq[r] EXCEPT !.pc = "remap"]
<1>6. CASE SyncGo(r, x)
  <2>1. x \in SyncRequest /\ x.pc = "remap" /\ x.spec = p /\ x.reported = syncReq[r].reported /\ x.ext = e
    BY <1>0 DEF SyncRequest
  <2>2. x.reported \subseteq SyncedSpecs
    BY <1>0, <2>1 DEF SyncRequest
  <2> HIDE DEF x
  <2>3. SyncFine(x, item, mapping', strayed')
    BY <1>0, <1>1, <1>3, <2>1, <2>2 DEF SyncFine
  <2> QED BY <1>0, <1>1, <1>3, <1>6, <2>1, <2>3, OneSync
<1>7. CASE mapping[p] = None /\ mapping' = [mapping EXCEPT ![p] = e] /\ SyncGo(r, ResultSynced(syncReq[r]))
  <2>1. mapping'[p] # None
    BY <1>0, <1>1, <1>7, ExternalSyncAssumption DEF ItemFits, MapsFit
  <2> QED BY <1>5, <1>7, <2>1
<1>8. CASE mapping[p] # None /\ mapping' = mapping /\ SyncGo(r, ResultSynced(syncReq[r]))
  BY <1>5, <1>8
<1>9. CASE SyncGo(r, AfterFailure(syncReq[r])) \/ SyncGo(r, ResultOther(syncReq[r]))
  <2>1. SyncGo(r, x) \/ SyncGo(r, ResultOther(syncReq[r]))
    BY <1>9 DEF AfterFailure
  <2> HIDE DEF x
  <2> QED BY <1>4, <1>6, <2>1
<1> HIDE DEF x
<1> QED BY <1>7, <1>8, <1>9 DEF CreateSyncMapping

\* Every step keeps the invariant.
LEMMA SyncNextInv == SyncInv /\ [SyncNext]_syncVars => SyncInv'
<1>1. SyncInv /\ UNCHANGED syncVars => SyncInv'
  BY DEF syncVars, searches, SyncInv, SyncTypeOK, PushesAlone, OneItem, Doubtful
<1> QED BY <1>1, SyncLoopInv, SyncCheckInv, SyncFindInv, SyncPushInv, SyncMapInv DEF SyncNext

\* In every reachable state, a spec has at most one external item unless two
\* requests searched before either pushed or a search missed its item, and a
\* spec reported as synced is mapped to an item, its own unless a search for it
\* returned another's: whatever answers, requests and statements are lost or
\* fail and whatever the tracker answers, for any number of specs, items and
\* requests.
THEOREM SyncedOnceHolds == SyncSpec => []SyncedOnce
<1>1. SyncInv => SyncedOnce
  <2> SUFFICES ASSUME SyncInv PROVE SyncedOnce
    OBVIOUS
  <2>1. DuplicatesHaveCause
    <3> SUFFICES ASSUME NEW s \in SyncedSpecs \ (overlap \cup missed) PROVE Cardinality(ItemsOf(s)) <= 1
      BY DEF DuplicatesHaveCause
    <3>1. ItemsOf(s) = {} \/ \E i : ItemsOf(s) = {i}
      BY DEF SyncInv, OneItem, ItemsOf, Doubtful
    <3>2. ASSUME ItemsOf(s) = {} PROVE Cardinality(ItemsOf(s)) <= 1
      <4>1. Cardinality(ItemsOf(s)) = 0
        BY <3>2, FS_EmptySet
      <4> QED BY <4>1
    <3>3. ASSUME NEW i, ItemsOf(s) = {i} PROVE Cardinality(ItemsOf(s)) <= 1
      <4>1. Cardinality({i}) = 1
        BY FS_Singleton
      <4> QED BY <3>3, <4>1
    <3> QED BY <3>1, <3>2, <3>3
  <2>2. ReportedSyncedIsMapped
    <3>1. ASSUME NEW r \in Requests, NEW s \in syncReq[r].reported
          PROVE  /\ mapping[s] # None /\ item[mapping[s]] # None
                 /\ s \notin strayed => item[mapping[s]] = s
      <4>1. s \in SyncedSpecs /\ mapping[s] # None
        BY DEF SyncInv, SyncTypeOK, SyncRequest, SyncFine
      <4> QED BY <4>1 DEF SyncInv, MapsFit, ItemFits
    <3> QED BY <3>1 DEF ReportedSyncedIsMapped
  <2> QED BY <2>1, <2>2 DEF SyncedOnce
<1> QED BY <1>1, SyncInitInv, SyncNextInv, PTL DEF SyncSpec
-----------------------------------------------------------------------------
(***************************************************************************)
(* Drift checks.  While a check has an edge still to look at, either the   *)
(* history already holds a moment out of step, or edge and upstream are    *)
(* what they were when the edges were read and agree.  No one step changes *)
(* the hash of an upstream and that of an edge from another spec to it.    *)
(***************************************************************************)

\* A refresh or a check holds hashes of edges that leave its own spec.
DriftFine(q) ==
    /\ q.pc = "insert" => <<q.spec, q.to>> \in Links
    /\ q.pc \in {"complete", "acknowledge", "deps", "check"} => q.spec \in DriftSpecs
    /\ q.pc \in {"complete", "acknowledge", "check"} =>
         \A l \in Links : q.read[l] # None => l[1] = q.spec
    /\ q.pc = "deps" => q.items = {}

OutOfStep(m, u) == m \cap {<<u, "drift">>, <<u, "unlinked">>} # {}

\* The spec that a check is about was linked to u at some moment of it.
Tied(m, u) == m \cap {<<u, "drift">>, <<u, "sync">>} # {}

\* An edge that a check has still to look at was there, and if it leads to a spec
\* it can raise no false alarm.
Covered(q, n, k, m) ==
    q.pc = "check" => \A l \in Links :
        /\ q.read[l] # None => Tied(m, l[2])
        /\ q.read[l] # None /\ l[2] \in DriftSpecs /\ l[2] # q.spec =>
            OutOfStep(m, l[2]) \/ (k[l] = q.read[l] /\ n[l[2]].hash = q.read[l])

Justified(q, m) ==
    q.pc \in {"check", "report"} =>
        /\ \A u \in q.items \cap (DriftSpecs \ {q.spec}) : OutOfStep(m, u)
        /\ \A u \in q.items \cap DriftDecisions : Tied(m, u)

DriftInv ==
    /\ DriftTypeOK
    /\ \A r \in Requests : DriftFine(driftReq[r])
    /\ \A r \in Requests : Covered(driftReq[r], node, link, moments[r])
    /\ \A r \in Requests : Justified(driftReq[r], moments[r])

\* The step of one request, as its report sees it: x before, y after.
Turn(x, y, n, k) ==
    \/ y = x
    \/ y.pc \notin {"check", "report"}
    \/ /\ x.pc = "deps" /\ y.pc = "check"
       /\ y.items = x.items /\ y.spec = x.spec
       /\ \A l \in Links : y.read[l] # None => l[1] = y.spec /\ k[l] = y.read[l]
    \/ /\ x.pc = "check" /\ y.pc \in {"check", "report"}
       /\ y.spec = x.spec
       /\ \A l \in Links : y.read[l] # None => y.read[l] = x.read[l]
       /\ \A u \in y.items : u \in x.items \/
            \E l \in Links : l[2] = u /\ x.read[l] # None
                              /\ (u \in DriftSpecs => n[u].hash # x.read[l])

\* No step changes both sides of the comparison of an edge.
OneSide(n, k, n2, k2) ==
    \A l \in Links : l[2] \in DriftSpecs /\ l[1] # l[2] =>
        k2[l] = k[l] \/ n2[l[2]].hash = n[l[2]].hash

\* What the history gains while y checks: how each upstream stands now.
Seen(y, n2, k2, m, m2) ==
    /\ y.pc = "check" =>
         /\ m \subseteq m2
         /\ \A l \in Links : l[1] = y.spec /\ (k2[l] = None \/ k2[l] # n2[l[2]].hash)
                               => OutOfStep(m2, l[2])
         /\ \A l \in Links : l[1] = y.spec /\ k2[l] # None => Tied(m2, l[2])
    /\ y.pc = "report" => m2 = m

\* A request's turn keeps what its report rests on.
LEMMA TurnKeepsReports ==
  ASSUME NEW x, NEW y, NEW n, NEW k, NEW n2, NEW k2, NEW m, NEW m2,
         DriftFine(x), DriftFine(y), Covered(x, n, k, m), Justified(x, m),
         Turn(x, y, n, k), OneSide(n, k, n2, k2), Seen(y, n2, k2, m, m2),
         x.pc = "deps" /\ y.pc = "check" => n2 = n /\ k2 = k
  PROVE  Covered(y, n2, k2, m2) /\ Justified(y, m2)
<1>0. \A u : m \subseteq m2 => /\ OutOfStep(m, u) => OutOfStep(m2, u)
                               /\ Tied(m, u) => Tied(m2, u)
  BY DEF OutOfStep, Tied
<1>3. ASSUME y.pc = "check", NEW l \in Links, y.read[l] # None PROVE Tied(m2, l[2])
  <2>1. l[1] = y.spec
    BY <1>3 DEF DriftFine
  <2>2. CASE x.pc = "deps"
    BY <1>3, <2>1, <2>2 DEF Turn, Seen
  <2>3. CASE x.pc = "check" /\ y.read[l] = x.read[l]
    BY <1>0, <1>3, <2>3 DEF Covered, Seen
  <2> QED BY <1>3, <2>2, <2>3 DEF Turn
<1>1. Covered(y, n2, k2, m2)
  <2> SUFFICES ASSUME y.pc = "check", NEW l \in Links, y.read[l] # None,
                      l[2] \in DriftSpecs, l[2] # y.spec, ~OutOfStep(m2, l[2])
               PROVE  k2[l] = y.read[l] /\ n2[l[2]].hash = y.read[l]
    BY <1>3 DEF Covered
  <2>1. l[1] = y.spec
    BY DEF DriftFine
  <2>2. k2[l] # None /\ k2[l] = n2[l[2]].hash
    BY <2>1 DEF Seen
  <2>3. CASE x.pc = "deps"
    BY <2>1, <2>2, <2>3 DEF Turn
  <2>4. CASE x.pc = "check" /\ y.read[l] = x.read[l] /\ y.spec = x.spec
    <3>1. ~OutOfStep(m, l[2])
      BY <1>0 DEF Seen
    <3>2. k[l] = y.read[l] /\ n[l[2]].hash = y.read[l]
      BY <2>4, <3>1 DEF Covered
    <3>3. k2[l] = k[l] \/ n2[l[2]].hash = n[l[2]].hash
      BY <2>1 DEF OneSide
    <3> QED BY <2>2, <3>2, <3>3
  <2> QED BY <2>3, <2>4 DEF Turn
<1>2. Justified(y, m2)
  <2> SUFFICES ASSUME y.pc \in {"check", "report"}, NEW u \in y.items
               PROVE  /\ u \in DriftSpecs /\ u # y.spec => OutOfStep(m2, u)
                      /\ u \in DriftDecisions => Tied(m2, u)
    BY DEF Justified
  <2>1. m \subseteq m2
    BY DEF Seen
  <2>2. SUFFICES /\ u \in DriftSpecs /\ u # y.spec => OutOfStep(m, u)
                 /\ u \in DriftDecisions => Tied(m, u)
    BY <1>0, <2>1
  <2>3. CASE y = x \/ x.pc = "deps"
    BY <2>3 DEF Justified, Turn, DriftFine
  <2>4. CASE x.pc = "check" /\ y.spec = x.spec /\ u \in x.items
    BY <2>4 DEF Justified
  <2>5. CASE x.pc = "check" /\ y.spec = x.spec /\
             \E l \in Links : l[2] = u /\ x.read[l] # None
                               /\ (u \in DriftSpecs => n[u].hash # x.read[l])
    BY <2>5 DEF Covered
  <2> QED BY <2>3, <2>4, <2>5 DEF Turn
<1> QED BY <1>1, <1>2

\* The requests after a step, and what the reports of theirs rest on.
RequestsTurn ==
    /\ driftReq' \in [Requests -> DriftRequest]
    /\ \A r \in Requests : DriftFine(driftReq'[r])
    /\ \A r \in Requests : Turn(driftReq[r], driftReq'[r], node, link)
    /\ \A r \in Requests : driftReq[r].pc = "deps" /\ driftReq'[r].pc = "check"
                             => node' = node /\ link' = link

RowsTurn ==
    /\ node' \in [Upstreams -> Node]
    /\ link' \in [Links -> DriftHash \cup {None}]
    /\ edits' \in 0 .. MaxEdits
    /\ OneSide(node, link, node', link')

\* A request that is idle is a request, and a hash of a row is a hash.
LEMMA DriftTypes ==
  /\ DriftIdle \in DriftRequest /\ DriftFine(DriftIdle)
  /\ NoRead \in [Links -> DriftHash \cup {None}]
  /\ \A n \in Node, c \in Contents, b \in BOOLEAN :
       Rehash([n EXCEPT !.content = c], b) \in Node
  /\ \A n \in Node, s \in Stage, b \in BOOLEAN :
       Rehash([n EXCEPT !.stage = s], b) \in Node
<1>1. NoRead \in [Links -> DriftHash \cup {None}]
  BY DEF NoRead
<1>2. DriftIdle \in DriftRequest /\ DriftFine(DriftIdle)
  <2> HIDE DEF NoRead
  <2> QED BY <1>1 DEF DriftIdle, DriftRequest, DriftFine
<1>3. ASSUME NEW n \in Node, NEW b \in BOOLEAN PROVE Rehash(n, b) \in Node
  <2>1. HashOf(n, b) \in DriftHash
    BY <1>3 DEF HashOf, DriftHash, Node
  <2> QED BY <2>1, <1>3 DEF Rehash, Node
<1>4. \A n \in Node, c \in Contents : [n EXCEPT !.content = c] \in Node
  BY DEF Node
<1>5. \A n \in Node, s \in Stage : [n EXCEPT !.stage = s] \in Node
  BY DEF Node
<1> QED BY <1>1, <1>2, <1>3, <1>4, <1>5

\* A request moves on and the others stay.
LEMMA DriftMoves ==
  ASSUME DriftInv, NEW r \in Requests, NEW f \in DriftRequest, DriftGo(r, f), DriftFine(f),
         Turn(driftReq[r], f, node, link),
         driftReq[r].pc = "deps" /\ f.pc = "check" => node' = node /\ link' = link
  PROVE  RequestsTurn
<1>1. driftReq \in [Requests -> DriftRequest] /\ \A o \in Requests : DriftFine(driftReq[o])
  BY DEF DriftInv, DriftTypeOK
<1>2. driftReq' \in [Requests -> DriftRequest]
  BY <1>1 DEF DriftGo
<1>3. \A o \in Requests : driftReq'[o] = IF o = r THEN f ELSE driftReq[o]
  BY <1>1 DEF DriftGo
<1>4. \A o \in Requests : o # r => Turn(driftReq[o], driftReq'[o], node, link)
  BY <1>3 DEF Turn
<1>5. \A o \in Requests : o # r /\ driftReq[o].pc = "deps" => driftReq'[o].pc # "check"
  BY <1>3
<1> QED BY <1>1, <1>2, <1>3, <1>4, <1>5 DEF RequestsTurn

\* A step that moves no request.
LEMMA DriftStays ==
  ASSUME DriftInv, UNCHANGED driftReq
  PROVE  RequestsTurn
<1>1. driftReq \in [Requests -> DriftRequest] /\ \A o \in Requests : DriftFine(driftReq[o])
  BY DEF DriftInv, DriftTypeOK
<1> QED BY <1>1 DEF RequestsTurn, Turn

\* A request that starts or ends something other than a check.
LEMMA DriftElsewhere ==
  ASSUME DriftInv, NEW r \in Requests, NEW f \in DriftRequest, DriftGo(r, f), DriftFine(f),
         f.pc \notin {"check", "report"}
  PROVE  RequestsTurn
BY DriftMoves DEF Turn

\* Rows and edges that a step leaves alone.
LEMMA RowsStay ==
  ASSUME DriftInv, UNCHANGED <<node, link, edits>>
  PROVE  RowsTurn
BY DEF DriftInv, DriftTypeOK, RowsTurn, OneSide

\* One side of every comparison stays when the rows or the edges stay.
LEMMA OneSideStays ==
  ASSUME node' = node \/ link' = link
  PROVE  OneSide(node, link, node', link')
BY DEF OneSide

\* Changes of the upstreams.
LEMMA DriftEditsTurn ==
  ASSUME DriftInv,
         \/ \E s \in DriftSpecs : DriftSupersede(s)
         \/ \E s \in DriftSpecs, c \in Contents : DriftUpdateSpec(s, c)
         \/ \E d \in DriftDecisions, c \in Contents : DriftUpdateDecision(d, c)
  PROVE  RequestsTurn /\ RowsTurn
<1>0. node \in [Upstreams -> Node] /\ link \in [Links -> DriftHash \cup {None}] /\ edits \in 0 .. MaxEdits
  BY DEF DriftInv, DriftTypeOK
<1>1. UNCHANGED <<link, driftReq>> /\ Edit
  BY DEF DriftSupersede, DriftUpdateSpec, DriftUpdateDecision
<1>2. edits' \in 0 .. MaxEdits
  BY <1>0, <1>1, LinksAssumption DEF Edit
<1>3. PICK u \in Upstreams : \E row \in Node : node' = [node EXCEPT ![u] = row]
  <2>1. ASSUME NEW s \in DriftSpecs, DriftSupersede(s)
        PROVE  \E row \in Node : node' = [node EXCEPT ![s] = row]
    <3>1. Rehash([node[s] EXCEPT !.stage = "superseded"], TRUE) \in Node
      BY <1>0, DriftTypes DEF Upstreams, Stage
    <3> QED BY <3>1, <2>1 DEF DriftSupersede
  <2>2. ASSUME NEW s \in DriftSpecs, NEW c \in Contents, DriftUpdateSpec(s, c)
        PROVE  \E row \in Node : node' = [node EXCEPT ![s] = row]
    <3>1. Rehash([node[s] EXCEPT !.content = c], FALSE) \in Node
      BY <1>0, DriftTypes DEF Upstreams
    <3> QED BY <3>1, <2>2 DEF DriftUpdateSpec
  <2>3. ASSUME NEW d \in DriftDecisions, NEW c \in Contents, DriftUpdateDecision(d, c)
        PROVE  \E row \in Node : node' = [node EXCEPT ![d] = row]
    <3>1. Rehash([node[d] EXCEPT !.content = c], TRUE) \in Node
      BY <1>0, DriftTypes DEF Upstreams
    <3> QED BY <3>1, <2>3 DEF DriftUpdateDecision
  <2> QED BY <2>1, <2>2, <2>3 DEF Upstreams
<1>4. node' \in [Upstreams -> Node]
  BY <1>0, <1>3
<1> QED BY <1>0, <1>1, <1>2, <1>4, DriftStays, OneSideStays DEF RowsTurn

\* AddEdge and RemoveEdge.
LEMMA DriftEdgesTurn ==
  ASSUME DriftInv, UNCHANGED edits,
         \/ \E l \in Links : DriftRemoveEdge(l)
         \/ \E r \in Requests : DriftAddEdge(r) \/ DriftInsertEdge(r)
  PROVE  RequestsTurn /\ RowsTurn
<1>0. /\ node \in [Upstreams -> Node] /\ link \in [Links -> DriftHash \cup {None}]
      /\ driftReq \in [Requests -> DriftRequest] /\ edits \in 0 .. MaxEdits
  BY DEF DriftInv, DriftTypeOK
<1>1. ASSUME NEW l \in Links, DriftRemoveEdge(l) PROVE RequestsTurn /\ RowsTurn
  <2>1. link' \in [Links -> DriftHash \cup {None}]
    BY <1>0, <1>1 DEF DriftRemoveEdge
  <2> QED BY <1>0, <1>1, <2>1, DriftStays, OneSideStays DEF DriftRemoveEdge, RowsTurn
<1>2. ASSUME NEW r \in Requests, DriftAddEdge(r) PROVE RequestsTurn /\ RowsTurn
  <2>1. PICK l \in Links :
          DriftGo(r, [DriftIdle EXCEPT !.pc = "insert", !.spec = l[1], !.to = l[2],
                        !.read = [NoRead EXCEPT ![l] = lookupContentHash(l[2])]])
    BY <1>2 DEF DriftAddEdge
  <2> DEFINE rd == [NoRead EXCEPT ![l] = lookupContentHash(l[2])]
             f == [DriftIdle EXCEPT !.pc = "insert", !.spec = l[1], !.to = l[2], !.read = rd]
  <2>2. l[1] \in DriftSpecs /\ l[2] \in Upstreams /\ l = <<l[1], l[2]>>
    BY LinksAssumption
  <2>3. rd \in [Links -> DriftHash \cup {None}]
    BY <1>0, <2>2, DriftTypes DEF lookupContentHash, Node
  <2> HIDE DEF rd
  <2>4. f \in DriftRequest
    BY <2>2, <2>3, DriftTypes DEF DriftRequest
  <2>5. f.pc = "insert" /\ f.spec = l[1] /\ f.to = l[2]
    BY DriftTypes DEF DriftRequest
  <2>6. DriftFine(f)
    BY <2>2, <2>5 DEF DriftFine
  <2>7. DriftGo(r, f)
    BY <2>1 DEF rd
  <2> HIDE DEF f
  <2> QED BY <1>2, <2>4, <2>5, <2>6, <2>7, DriftElsewhere, RowsStay DEF DriftAddEdge
<1>3. ASSUME NEW r \in Requests, DriftInsertEdge(r) PROVE RequestsTurn /\ RowsTurn
  <2> DEFINE l == <<driftReq[r].spec, driftReq[r].to>>
  <2>1. l \in Links
    BY <1>3 DEF DriftInv, DriftFine, DriftInsertEdge
  <2>2. driftReq[r].read[l] \in DriftHash \cup {None}
    BY <1>0, <2>1 DEF DriftRequest
  <2>3. link' \in [Links -> DriftHash \cup {None}]
    BY <1>0, <1>3, <2>1, <2>2 DEF DriftInsertEdge
  <2>4. RequestsTurn
    BY <1>3, DriftTypes, DriftElsewhere DEF DriftInsertEdge, DriftIdle
  <2> QED BY <1>0, <1>3, <2>3, <2>4, OneSideStays DEF DriftInsertEdge, RowsTurn
<1> QED BY <1>1, <1>2, <1>3

\* What a refresh reads is a hash for each edge that leaves its spec.
LEMMA OutgoingReads ==
  ASSUME DriftInv, NEW s \in DriftSpecs, NEW own \in Node, NEW to
  PROVE  /\ Outgoing(s, own, to) \in [Links -> DriftHash \cup {None}]
         /\ \A l \in Links : Outgoing(s, own, to)[l] # None => l[1] = s
<1>1. \A l \in Links : l[2] \in Upstreams
  BY LinksAssumption
<1>2. \A u \in Upstreams : node[u].hash \in DriftHash
  BY DEF DriftInv, DriftTypeOK, Node
<1>3. own.hash \in DriftHash
  BY DEF Node
<1> QED BY <1>1, <1>2, <1>3 DEF Outgoing

\* A refresh, or its transaction, begins.
LEMMA RefreshBegins ==
  ASSUME DriftInv, NEW r \in Requests, NEW s \in DriftSpecs, NEW to \in Upstreams \cup {None},
         NEW rd \in [Links -> DriftHash \cup {None}],
         \A l \in Links : rd[l] # None => l[1] = s,
         NEW pc \in {"complete", "acknowledge"},
         DriftGo(r, [DriftIdle EXCEPT !.pc = pc, !.spec = s, !.to = to, !.read = rd])
  PROVE  RequestsTurn
<1> DEFINE f == [DriftIdle EXCEPT !.pc = pc, !.spec = s, !.to = to, !.read = rd]
<1>1. f \in DriftRequest
  BY DriftTypes DEF DriftRequest
<1>2. f.pc = pc /\ f.spec = s /\ f.read = rd
  BY DriftTypes DEF DriftRequest
<1>3. DriftFine(f)
  BY <1>2 DEF DriftFine
<1>4. DriftGo(r, f)
  OBVIOUS
<1> HIDE DEF f
<1> QED BY <1>1, <1>2, <1>3, <1>4, DriftElsewhere

\* The edges that a refresh writes leave its own spec.
LEMMA RefreshedEdges ==
  ASSUME DriftInv, NEW r \in Requests, driftReq[r].pc \in {"complete", "acknowledge"},
         link' = Refreshed(driftReq[r].read)
  PROVE  /\ link' \in [Links -> DriftHash \cup {None}]
         /\ \A l \in Links : l[1] # driftReq[r].spec => link'[l] = link[l]
<1>1. link \in [Links -> DriftHash \cup {None}] /\ driftReq[r].read \in [Links -> DriftHash \cup {None}]
  BY DEF DriftInv, DriftTypeOK, DriftRequest
<1>2. \A l \in Links : driftReq[r].read[l] # None => l[1] = driftReq[r].spec
  BY DEF DriftInv, DriftFine
<1> QED BY <1>1, <1>2 DEF Refreshed

\* RecordCompletion.
LEMMA DriftCompletionsTurn ==
  ASSUME DriftInv, UNCHANGED edits, NEW r \in Requests, DriftComplete(r) \/ DriftCompleteCommit(r)
  PROVE  RequestsTurn /\ RowsTurn
<1>0. /\ node \in [Upstreams -> Node] /\ edits \in 0 .. MaxEdits
      /\ \A s \in DriftSpecs : Completed(s) \in Node
  <2>1. node \in [Upstreams -> Node] /\ edits \in 0 .. MaxEdits
    BY DEF DriftInv, DriftTypeOK
  <2> QED BY <2>1, DriftTypes DEF Completed, Upstreams, Stage
<1>1. ASSUME DriftComplete(r) PROVE RequestsTurn /\ RowsTurn
  <2>1. PICK s \in DriftSpecs : DriftGo(r, [DriftIdle EXCEPT !.pc = "complete", !.spec = s,
                                              !.read = Outgoing(s, Completed(s), None)])
    BY <1>1 DEF DriftComplete
  <2> DEFINE rd == Outgoing(s, Completed(s), None)
  <2>2. /\ rd \in [Links -> DriftHash \cup {None}]
        /\ \A l \in Links : rd[l] # None => l[1] = s
    BY <1>0, OutgoingReads
  <2> HIDE DEF rd
  <2>3. [DriftIdle EXCEPT !.pc = "complete", !.spec = s, !.read = rd]
          = [DriftIdle EXCEPT !.pc = "complete", !.spec = s, !.to = None, !.read = rd]
    <3> DEFINE a == [DriftIdle EXCEPT !.pc = "complete", !.spec = s, !.read = rd]
               b == [DriftIdle EXCEPT !.pc = "complete", !.spec = s, !.to = None, !.read = rd]
    <3>1. a \in DriftRequest /\ b \in DriftRequest
      BY <2>2, DriftTypes DEF DriftRequest
    <3>2. a.pc = b.pc /\ a.spec = b.spec /\ a.to = b.to /\ a.read = b.read /\ a.items = b.items
      BY DEF DriftIdle
    <3> HIDE DEF a, b
    <3>3. a = b
      BY <3>1, <3>2 DEF DriftRequest
    <3> QED BY <3>3 DEF a, b
  <2>4. DriftGo(r, [DriftIdle EXCEPT !.pc = "complete", !.spec = s, !.to = None, !.read = rd])
    BY <2>1, <2>3 DEF rd
  <2> QED BY <1>1, <2>2, <2>4, RefreshBegins, RowsStay DEF DriftComplete
<1>2. ASSUME DriftCompleteCommit(r) PROVE RequestsTurn /\ RowsTurn
  <2> DEFINE s == driftReq[r].spec
  <2>1. s \in DriftSpecs /\ s \in Upstreams
    BY <1>2 DEF DriftInv, DriftFine, DriftCompleteCommit, Upstreams
  <2>2. node' = [node EXCEPT ![s] = Completed(s)]
    BY <1>2 DEF DriftCompleteCommit
  <2>3. node' \in [Upstreams -> Node]
    BY <1>0, <2>1, <2>2
  <2>4. \A u \in Upstreams : u # s => node'[u] = node[u]
    BY <1>0, <2>2
  <2>5. /\ link' \in [Links -> DriftHash \cup {None}]
        /\ \A l \in Links : l[1] # s => link'[l] = link[l]
    BY <1>2, RefreshedEdges DEF DriftCompleteCommit
  <2>6. OneSide(node, link, node', link')
    <3> HIDE DEF s
    <3> QED BY <2>4, <2>5 DEF OneSide, Upstreams
  <2>7. RequestsTurn
    BY <1>2, DriftTypes, DriftElsewhere DEF DriftCompleteCommit, DriftIdle
  <2> QED BY <1>0, <2>3, <2>5, <2>6, <2>7 DEF RowsTurn
<1> QED BY <1>1, <1>2

\* A check of spec s begins.
LEMMA CheckBegins ==
  ASSUME DriftInv, NEW r \in Requests, NEW s \in DriftSpecs,
         DriftGo(r, [DriftIdle EXCEPT !.pc = "deps", !.spec = s])
  PROVE  RequestsTurn
<1> DEFINE f == [DriftIdle EXCEPT !.pc = "deps", !.spec = s]
<1>1. f \in DriftRequest
  BY DriftTypes DEF DriftRequest
<1>2. f.pc = "deps" /\ f.spec = s /\ f.items = {}
  BY DEF DriftIdle
<1>3. DriftFine(f)
  BY <1>2 DEF DriftFine
<1>4. DriftGo(r, f)
  OBVIOUS
<1> HIDE DEF f
<1> QED BY <1>1, <1>2, <1>3, <1>4, DriftElsewhere

\* LifecycleAcknowledgeDrift, its commit, and a rollback.
LEMMA AcknowledgementsTurn ==
  ASSUME DriftInv, UNCHANGED edits, NEW r \in Requests,
         LifecycleAcknowledgeDrift(r) \/ AcknowledgeCommit(r) \/ DriftRollback(r)
  PROVE  RequestsTurn /\ RowsTurn
<1>0. node \in [Upstreams -> Node] /\ edits \in 0 .. MaxEdits
  BY DEF DriftInv, DriftTypeOK
<1>1. ASSUME LifecycleAcknowledgeDrift(r) PROVE RequestsTurn /\ RowsTurn
  <2>1. PICK s \in DriftSpecs, to \in Upstreams \cup {None} :
          DriftGo(r, [DriftIdle EXCEPT !.pc = "acknowledge", !.spec = s,
                        !.to = to, !.read = Outgoing(s, node[s], to)])
    BY <1>1 DEF LifecycleAcknowledgeDrift
  <2> DEFINE rd == Outgoing(s, node[s], to)
  <2>2. /\ rd \in [Links -> DriftHash \cup {None}]
        /\ \A l \in Links : rd[l] # None => l[1] = s
    <3>1. node[s] \in Node
      BY <1>0 DEF Upstreams
    <3> QED BY <3>1, OutgoingReads
  <2>3. DriftGo(r, [DriftIdle EXCEPT !.pc = "acknowledge", !.spec = s, !.to = to, !.read = rd])
    BY <2>1
  <2> HIDE DEF rd
  <2> QED BY <1>1, <2>2, <2>3, RefreshBegins, RowsStay DEF LifecycleAcknowledgeDrift
<1>2. ASSUME AcknowledgeCommit(r) PROVE RequestsTurn /\ RowsTurn
  <2>1. link' \in [Links -> DriftHash \cup {None}]
    BY <1>2, RefreshedEdges DEF AcknowledgeCommit
  <2>2. driftReq[r].spec \in DriftSpecs
    BY <1>2 DEF DriftInv, DriftFine, AcknowledgeCommit
  <2>3. \/ DriftGo(r, DriftIdle)
        \/ DriftGo(r, [DriftIdle EXCEPT !.pc = "deps", !.spec = driftReq[r].spec])
    BY <1>2 DEF AcknowledgeCommit
  <2>4. RequestsTurn
    <3>1. CASE DriftGo(r, DriftIdle)
      BY <3>1, DriftTypes, DriftElsewhere DEF DriftIdle
    <3> QED BY <2>2, <2>3, <3>1, CheckBegins
  <2> QED BY <1>0, <1>2, <2>1, <2>4, OneSideStays DEF AcknowledgeCommit, RowsTurn
<1>3. ASSUME DriftRollback(r) PROVE RequestsTurn /\ RowsTurn
  <2>1. RequestsTurn
    BY <1>3, DriftTypes, DriftElsewhere DEF DriftRollback, DriftIdle
  <2> QED BY <1>3, <2>1, RowsStay DEF DriftRollback
<1> QED BY <1>1, <1>2, <1>3

\* CheckDrift.
LEMMA ChecksTurn ==
  ASSUME DriftInv, UNCHANGED edits, NEW r \in Requests,
         DriftCheck(r) \/ GetDependenciesWithEdgeData(r) \/ checkSpec(r) \/ DriftReport(r)
  PROVE  RequestsTurn /\ RowsTurn
<1> DEFINE q == driftReq[r]
<1>0. /\ q \in DriftRequest /\ DriftFine(q)
      /\ link \in [Links -> DriftHash \cup {None}]
  BY DEF DriftInv, DriftTypeOK
<1>1. RowsTurn
  BY RowsStay DEF DriftCheck, GetDependenciesWithEdgeData, checkSpec, DriftReport
<1>2. ASSUME DriftCheck(r) PROVE RequestsTurn
  BY <1>2, CheckBegins DEF DriftCheck
<1>3. ASSUME GetDependenciesWithEdgeData(r) PROVE RequestsTurn
  <2> DEFINE rd == [l \in Links |-> IF l[1] = q.spec THEN link[l] ELSE None]
             f == [q EXCEPT !.pc = "check", !.read = rd]
  <2>1. /\ rd \in [Links -> DriftHash \cup {None}]
        /\ \A l \in Links : rd[l] # None => l[1] = q.spec /\ link[l] = rd[l]
    BY <1>0
  <2>2. DriftGo(r, f) /\ q.pc = "deps" /\ UNCHANGED <<node, link>>
    BY <1>3 DEF GetDependenciesWithEdgeData
  <2> HIDE DEF rd, q
  <2>3. f \in DriftRequest
    BY <1>0, <2>1 DEF DriftRequest
  <2>4. f.pc = "check" /\ f.read = rd /\ f.spec = q.spec /\ f.items = q.items
    BY <1>0 DEF DriftRequest
  <2> HIDE DEF f
  <2>5. DriftFine(f)
    BY <1>0, <2>1, <2>2, <2>4 DEF DriftFine
  <2>6. Turn(q, f, node, link)
    BY <2>1, <2>2, <2>4 DEF Turn
  <2> QED BY <2>2, <2>3, <2>5, <2>6, DriftMoves DEF q
<1>4. ASSUME checkSpec(r) PROVE RequestsTurn
  <2>1. PICK l \in Links :
          /\ q.read[l] # None
          /\ DriftGo(r, [q EXCEPT !.read = [q.read EXCEPT ![l] = None],
                           !.items = IF Drifted(l[2], q.read[l])
                                     THEN q.items \cup {l[2]} ELSE q.items])
    BY <1>4 DEF checkSpec
  <2> DEFINE rd == [q.read EXCEPT ![l] = None]
             its == IF Drifted(l[2], q.read[l]) THEN q.items \cup {l[2]} ELSE q.items
             f == [q EXCEPT !.read = rd, !.items = its]
  <2>2. DriftGo(r, f) /\ q.pc = "check" /\ q.read[l] # None
    BY <1>4, <2>1 DEF checkSpec
  <2> HIDE DEF q
  <2>3. /\ rd \in [Links -> DriftHash \cup {None}]
        /\ \A k \in Links : rd[k] # None => rd[k] = q.read[k]
    BY <1>0 DEF DriftRequest
  <2>4. /\ its \in SUBSET Upstreams
        /\ \A u \in its : u \in q.items \/
             (u = l[2] /\ (u \in DriftSpecs => node[u].hash # q.read[l]))
    BY <1>0, LinksAssumption DEF DriftRequest, Drifted
  <2> HIDE DEF rd, its
  <2>5. f \in DriftRequest
    BY <1>0, <2>3, <2>4 DEF DriftRequest
  <2>6. f.pc = q.pc /\ f.read = rd /\ f.spec = q.spec /\ f.items = its
    BY <1>0 DEF DriftRequest
  <2> HIDE DEF f
  <2>7. DriftFine(f)
    BY <1>0, <2>2, <2>3, <2>6 DEF DriftFine
  <2>8. Turn(q, f, node, link)
    BY <2>2, <2>3, <2>4, <2>6 DEF Turn
  <2> QED BY <2>2, <2>5, <2>7, <2>8, DriftMoves DEF q
<1>5. ASSUME DriftReport(r) PROVE RequestsTurn
  <2> DEFINE f == [q EXCEPT !.pc = "report"]
  <2>1. DriftGo(r, f) /\ q.pc = "check"
    BY <1>5 DEF DriftReport
  <2> HIDE DEF q
  <2>2. f \in DriftRequest
    BY <1>0 DEF DriftRequest
  <2>3. f.pc = "report" /\ f.read = q.read /\ f.spec = q.spec /\ f.items = q.items
    BY <1>0 DEF DriftRequest
  <2> HIDE DEF f
  <2>4. DriftFine(f) /\ Turn(q, f, node, link)
    BY <2>1, <2>3 DEF DriftFine, Turn
  <2> QED BY <2>1, <2>2, <2>3, <2>4, DriftMoves DEF q
<1> QED BY <1>1, <1>2, <1>3, <1>4, <1>5

\* The history of a check gains how every upstream stands after the step.
LEMMA DriftSeen ==
  ASSUME DriftInv, NEW r \in Requests, Observe, RequestsTurn
  PROVE  /\ moments' \in [Requests -> SUBSET (Upstreams \X {"sync", "drift", "unlinked"})]
         /\ Seen(driftReq'[r], node', link', moments[r], moments'[r])
<1> DEFINE now(o) == {<<u, Standing(o, u)'>> : u \in Upstreams}
<1>1. moments \in [Requests -> SUBSET (Upstreams \X {"sync", "drift", "unlinked"})]
  BY DEF DriftInv, DriftTypeOK
<1>2. \A o \in Requests, u \in Upstreams : Standing(o, u)' \in {"sync", "drift", "unlinked"}
  BY DEF Standing
<1>3. \A o \in Requests : now(o) \subseteq Upstreams \X {"sync", "drift", "unlinked"}
  BY <1>2
<1>4. ASSUME NEW l \in Links, l[1] = driftReq'[r].spec, link'[l] = None \/ link'[l] # node'[l[2]].hash
      PROVE  now(r) \cap {<<l[2], "drift">>, <<l[2], "unlinked">>} # {}
  <2>1. l[2] \in Upstreams /\ l = <<driftReq'[r].spec, l[2]>>
    BY <1>4, LinksAssumption
  <2>2. Standing(r, l[2])' \in {"drift", "unlinked"}
    BY <1>4, <2>1 DEF Standing
  <2>3. <<l[2], Standing(r, l[2])'>> \in now(r)
    BY <2>1
  <2> HIDE DEF now
  <2> QED BY <2>2, <2>3
<1>10. ASSUME NEW l \in Links, l[1] = driftReq'[r].spec, link'[l] # None
       PROVE  now(r) \cap {<<l[2], "drift">>, <<l[2], "sync">>} # {}
  <2>1. l[2] \in Upstreams /\ l = <<driftReq'[r].spec, l[2]>>
    BY <1>10, LinksAssumption
  <2>2. Standing(r, l[2])' \in {"drift", "sync"}
    BY <1>10, <2>1 DEF Standing
  <2>3. <<l[2], Standing(r, l[2])'>> \in now(r)
    BY <2>1
  <2> HIDE DEF now
  <2> QED BY <2>2, <2>3
<1> HIDE DEF now
<1>5. moments' = [o \in Requests |->
        CASE driftReq'[o].pc = "deps" /\ driftReq[o].pc # "deps" -> now(o)
          [] driftReq'[o].pc = "report" -> moments[o]
          [] driftReq'[o].pc \in {"deps", "check"} -> moments[o] \cup now(o)
          [] OTHER -> {}]
  BY DEF Observe, now
<1>6. moments' \in [Requests -> SUBSET (Upstreams \X {"sync", "drift", "unlinked"})]
  BY <1>1, <1>3, <1>5
<1>7. driftReq'[r].pc = "report" => moments'[r] = moments[r]
  BY <1>5
<1>8. driftReq'[r].pc = "check" => moments'[r] = moments[r] \cup now(r)
  BY <1>5
<1>9. Seen(driftReq'[r], node', link', moments[r], moments'[r])
  BY <1>4, <1>7, <1>8, <1>10 DEF Seen, OutOfStep, Tied
<1> QED BY <1>6, <1>9

\* The initial state satisfies the invariant.
LEMMA DriftInitInv == DriftInit => DriftInv
<1> SUFFICES ASSUME DriftInit PROVE DriftInv
  OBVIOUS
<1>1. node \in [Upstreams -> Node]
  <2>1. PICK c \in Contents :
         node = [n \in Upstreams |->
                   LET stage == IF n \in DriftSpecs THEN "approved" ELSE "decision"
                       row == [content |-> c, stage |-> stage]
                   IN  [content |-> c, stage |-> stage, hash |-> HashOf(row, TRUE)]]
    BY DEF DriftInit
  <2> DEFINE st(n) == IF n \in DriftSpecs THEN "approved" ELSE "decision"
             hash(n) == [content |-> c, stage |-> st(n), full |-> TRUE]
  <2>2. node = [n \in Upstreams |-> [content |-> c, stage |-> st(n), hash |-> hash(n)]]
    BY <2>1 DEF HashOf
  <2>3. \A n : st(n) \in Stage \cup {"decision"}
    BY DEF Stage
  <2> HIDE DEF st
  <2>4. \A n : hash(n) \in DriftHash
    BY <2>3 DEF DriftHash
  <2> HIDE DEF hash
  <2> QED BY <2>2, <2>3, <2>4 DEF Node
<1>2. 0 \in 0 .. MaxEdits
  BY LinksAssumption
<1>3. DriftTypeOK
  BY <1>1, <1>2, DriftTypes DEF DriftInit, DriftTypeOK
<1>4. \A r \in Requests : driftReq[r] = DriftIdle
  BY DEF DriftInit
<1>5. \A r \in Requests : driftReq[r].pc = "idle"
  <2>1. DriftIdle.pc = "idle"
    BY DEF DriftIdle
  <2> QED BY <1>4, <2>1
<1> QED BY <1>3, <1>4, <1>5, DriftTypes DEF DriftInv, Covered, Justified

\* Every step keeps the invariant.
LEMMA DriftNextInv == DriftInv /\ [DriftNext]_driftVars => DriftInv'
<1>1. ASSUME DriftInv, DriftNext PROVE DriftInv'
  <2>1. RequestsTurn /\ RowsTurn
    <3>1. ASSUME NEW r \in Requests, UNCHANGED edits,
                 \/ DriftComplete(r) \/ DriftCompleteCommit(r)
                 \/ LifecycleAcknowledgeDrift(r) \/ AcknowledgeCommit(r) \/ DriftRollback(r)
                 \/ DriftCheck(r) \/ GetDependenciesWithEdgeData(r) \/ checkSpec(r) \/ DriftReport(r)
          PROVE  RequestsTurn /\ RowsTurn
      BY <1>1, <3>1, DriftCompletionsTurn, AcknowledgementsTurn, ChecksTurn
    <3> QED BY <1>1, <3>1, DriftEditsTurn, DriftEdgesTurn DEF DriftNext
  <2>2. Observe
    BY <1>1 DEF DriftNext
  <2>3. ASSUME NEW r \in Requests
        PROVE  /\ Covered(driftReq'[r], node', link', moments'[r])
               /\ Justified(driftReq'[r], moments'[r])
    <3>1. Seen(driftReq'[r], node', link', moments[r], moments'[r])
      BY <1>1, <2>1, <2>2, DriftSeen
    <3>2. /\ DriftFine(driftReq[r]) /\ Covered(driftReq[r], node, link, moments[r])
          /\ Justified(driftReq[r], moments[r])
      BY <1>1 DEF DriftInv
    <3>3. /\ DriftFine(driftReq'[r]) /\ Turn(driftReq[r], driftReq'[r], node, link)
          /\ driftReq[r].pc = "deps" /\ driftReq'[r].pc = "check" => node' = node /\ link' = link
      BY <2>1 DEF RequestsTurn
    <3>4. OneSide(node, link, node', link')
      BY <2>1 DEF RowsTurn
    <3> QED BY <3>1, <3>2, <3>3, <3>4, TurnKeepsReports
  <2>4. moments' \in [Requests -> SUBSET (Upstreams \X {"sync", "drift", "unlinked"})]
    <3>1. CASE Requests = {}
      BY <2>2, <3>1 DEF Observe
    <3>2. CASE Requests # {}
      BY <1>1, <2>1, <2>2, <3>2, DriftSeen
    <3> QED BY <3>1, <3>2
  <2> QED BY <2>1, <2>3, <2>4 DEF DriftInv, DriftTypeOK, RequestsTurn, RowsTurn
<1>2. DriftInv /\ UNCHANGED driftVars => DriftInv'
  BY DEF driftVars, DriftInv, DriftTypeOK
<1> QED BY <1>1, <1>2

\* In every reachable state, an upstream spec that a drift check reports was out
\* of step with its edge at some moment while the check ran, although the check
\* reads edges and upstreams by separate statements and other requests change
\* both in between; a decision that it reports was linked, in step or not.  For
\* any number of specs, decisions, edges and requests.
THEOREM ReportsJustified == DriftSpec => []ReportJustified
<1>1. DriftInv => ReportJustified
  BY DEF DriftInv, Justified, OutOfStep, Tied, ReportJustified, SpecsReportedWithCause,
         DecisionsReportedIfLinked
<1> QED BY <1>1, DriftInitInv, DriftNextInv, PTL DEF DriftSpec
-----------------------------------------------------------------------------
(***************************************************************************)
(* Export and import.  Nothing that an import has written is taken away    *)
(* again before it returns, so each phase may rely on the phases before    *)
(* it, whatever users do in between.                                       *)
(***************************************************************************)

RowLoops == {"slice", "edge", "finding", "conversation", "mapping"}

\* The loops over rows that an import at pc has behind it.
Passed(pc) ==
    CASE pc = "edge" -> {"slice"}
      [] pc = "finding" -> {"slice", "edge"}
      [] pc = "conversation" -> {"slice", "edge", "finding"}
      [] pc = "mapping" -> {"slice", "edge", "finding", "conversation"}
      [] pc = "ok" -> RowLoops
      [] OTHER -> {}

\* A row of the document is back, or users took it away.
RowBack(r, db, gone) ==
    \/ r \in db.rows
    \/ r[1] \in {"edge", "finding"} /\ r \in gone
    \/ r[1] = "conversation" /\ \E at \in Positions : Conversation(r[2], r[3], at) \in db.rows

\* The import i is through with row r of the document.
RowDone(r, i) == r[1] \in Passed(i.pc) \/ (i.pc \in RowLoops /\ r[1] = i.pc /\ r \notin i.todo)

RowsBack(i, doc, db, gone) ==
    /\ i.pc \in RowLoops => i.todo \subseteq OfKind(doc.data.rows, i.pc)
    /\ ~i.warned => \A r \in doc.data.rows : RowDone(r, i) => RowBack(r, db, gone)

\* What the import i has restored of the document doc in the project db.
SpecsBack(i, doc, db) ==
    /\ i.pc \in {"create", "replay", "transition"} =>
         /\ i.todo \subseteq Present(doc.data.specs)
         /\ Present(doc.data.specs) \ i.todo \subseteq Present(db.specs)
    /\ i.pc \in {"replay", "transition"} => i.cur \in Present(db.specs) \cap Present(doc.data.specs)
    /\ i.pc \in {"decision", "status", "ok"} \cup RowLoops => Present(doc.data.specs) \subseteq Present(db.specs)
DecsBack(i, doc, db) ==
    /\ i.pc \in {"decision", "status"} =>
         /\ i.todo \subseteq Present(doc.data.decs)
         /\ Present(doc.data.decs) \ i.todo \subseteq Present(db.decs)
    /\ i.pc = "status" => i.cur \in Present(db.decs) \cap Present(doc.data.decs)
    /\ i.pc \in {"ok"} \cup RowLoops => Present(doc.data.decs) \subseteq Present(db.decs)
Sound(i, doc, db, fresh) ==
    /\ i.pc # "idle" => doc # None
    /\ i.pc \notin {"idle", "error"} => validateRefs(doc)
    /\ i.pc \notin {"idle", "error", "wipe"} =>
         Present(db.specs) \subseteq Present(doc.data.specs) \cup fresh
Restored(i, doc, db, fresh, gone) ==
    SpecsBack(i, doc, db) /\ DecsBack(i, doc, db) /\ RowsBack(i, doc, db, gone) /\ Sound(i, doc, db, fresh)

XInv == XTypeOK /\ Restored(ximp, xfile, xdb, xfresh, xgone)

\* Nothing of db is gone in db2 but what users took away.
Kept(db, db2, gone) ==
    /\ Present(db.specs) \subseteq Present(db2.specs) /\ Present(db.decs) \subseteq Present(db2.decs)
    /\ \A r \in db.rows : r \in db2.rows \/ (r[1] \in {"edge", "finding"} /\ r \in gone)

\* The kinds of rows.
LEMMA RowKinds ==
  /\ \A s : Slice(s)[1] = "slice" /\ Slice(s)[2] = s
  /\ \A x, y : Edge(x, y)[1] = "edge" /\ Edge(x, y)[2] = x /\ Edge(x, y)[3] = y
  /\ \A s : Finding(s)[1] = "finding" /\ Finding(s)[2] = s
  /\ \A s, x, y : /\ Conversation(s, x, y)[1] = "conversation" /\ Conversation(s, x, y)[2] = s
                  /\ Conversation(s, x, y)[3] = x
  /\ \A s, i : Mapping(s, i)[1] = "mapping" /\ Mapping(s, i)[2] = s
BY DEF Slice, Edge, Finding, Conversation, Mapping

\* A row is of the kind that its first component says.
LEMMA RowShapes ==
  ASSUME NEW r \in XRows
  PROVE  /\ r[1] \in RowLoops
         /\ r[1] = "slice" => r[2] \in XSpecs /\ r = Slice(r[2])
         /\ r[1] = "conversation" => r[2] \in XSpecs /\ r[3] \in Positions
<1>1. CASE \E s \in XSpecs : r = Slice(s)
  BY <1>1, RowKinds DEF RowLoops
<1>2. CASE \E x, y \in XNodes : r = Edge(x, y)
  BY <1>2, RowKinds DEF RowLoops
<1>3. CASE \E s \in XSpecs : r = Finding(s)
  BY <1>3, RowKinds DEF RowLoops
<1>4. CASE \E s \in XSpecs, x, y \in Positions : r = Conversation(s, x, y)
  BY <1>4, RowKinds DEF RowLoops
<1>5. CASE \E s \in XSpecs, i \in XItems : r = Mapping(s, i)
  BY <1>5, RowKinds DEF RowLoops
<1> QED BY <1>1, <1>2, <1>3, <1>4, <1>5 DEF XRows

\* What has been restored stays so, whatever users add or take away.
LEMMA RestoredKept ==
  ASSUME NEW i, NEW doc, NEW db, NEW db2, NEW fresh, NEW fresh2, NEW gone, NEW gone2,
         Restored(i, doc, db, fresh, gone), Kept(db, db2, gone2), fresh \subseteq fresh2, gone \subseteq gone2,
         i.pc \notin {"idle", "error", "wipe"} =>
           Present(db2.specs) \subseteq Present(db.specs) \cup fresh2
  PROVE  Restored(i, doc, db2, fresh2, gone2)
<1> USE DEF Restored
<1>1. Sound(i, doc, db2, fresh2)
  BY DEF Sound
<1>2. SpecsBack(i, doc, db2)
  <2> HIDE DEF Present, RowLoops
  <2> QED BY DEF SpecsBack, Kept
<1>3. DecsBack(i, doc, db2)
  <2> HIDE DEF Present, RowLoops
  <2> QED BY DEF DecsBack, Kept
<1>4. RowsBack(i, doc, db2, gone2)
  <2>1. ASSUME NEW r, RowBack(r, db, gone) PROVE RowBack(r, db2, gone2)
    <3>1. \A x, y, z : Conversation(x, y, z)[1] = "conversation"
      BY RowKinds
    <3>2. CASE r \in db.rows
      BY <3>2 DEF RowBack, Kept
    <3>3. CASE r[1] \in {"edge", "finding"} /\ r \in gone
      BY <3>3 DEF RowBack
    <3>4. CASE r[1] = "conversation" /\ \E at \in Positions : Conversation(r[2], r[3], at) \in db.rows
      <4>1. PICK at \in Positions : Conversation(r[2], r[3], at) \in db.rows
        BY <3>4
      <4>2. Conversation(r[2], r[3], at) \in db2.rows
        BY <3>1, <4>1 DEF Kept
      <4> QED BY <3>4, <4>2 DEF RowBack
    <3> QED BY <2>1, <3>2, <3>3, <3>4 DEF RowBack
  <2>2. RowsBack(i, doc, db, gone)
    OBVIOUS
  <2> QED BY <2>1, <2>2 DEF RowsBack
<1> QED BY <1>1, <1>2, <1>3, <1>4

\* The funnel positions are numbers.
LEMMA PositionValues ==
  /\ Positions = 0 .. 8
  /\ stageOrder.done = 7 /\ stageOrder.approved = 4 /\ stageOrder.decompose = 3 /\ stageOrder.shape = 1
<1>1. stageOrder.done = 7 /\ stageOrder.approved = 4 /\ stageOrder.decompose = 3 /\ stageOrder.shape = 1
  BY DEF stageOrder
<1>2. DOMAIN stageOrder = {"spark", "shape", "specify", "decompose", "approved",
                           "in_progress", "review", "done", "superseded", "abandoned"}
  BY DEF stageOrder
<1>3. /\ stageOrder["spark"] = 0 /\ stageOrder["shape"] = 1 /\ stageOrder["specify"] = 2
      /\ stageOrder["decompose"] = 3 /\ stageOrder["approved"] = 4 /\ stageOrder["in_progress"] = 5
      /\ stageOrder["review"] = 6 /\ stageOrder["done"] = 7 /\ stageOrder["superseded"] = 8
      /\ stageOrder["abandoned"] = 8
  BY DEF stageOrder
<1>4. Positions = {0, 1, 2, 3, 4, 5, 6, 7, 8}
  <2> HIDE DEF stageOrder
  <2> QED BY <1>2, <1>3 DEF Positions
<1>5. {0, 1, 2, 3, 4, 5, 6, 7, 8} = 0 .. 8
  OBVIOUS
<1> QED BY <1>1, <1>4, <1>5

\* A project with these parts.
With(sp, de, ro) == [specs |-> sp, decs |-> de, rows |-> ro]

\* The parts of a project, and projects that differ in one of them.
LEMMA Parts ==
  /\ \A sp, de, ro : /\ With(sp, de, ro).specs = sp /\ With(sp, de, ro).decs = de
                     /\ With(sp, de, ro).rows = ro
                     /\ With(sp, de, ro) \in XProject <=>
                          /\ sp \in [XSpecs -> XSpecRow \cup {None}]
                          /\ de \in [XDecs -> {None, "proposed", "accepted"}]
                          /\ ro \in SUBSET XRows
  /\ \A db \in XProject :
       /\ db = With(db.specs, db.decs, db.rows)
       /\ db.specs \in [XSpecs -> XSpecRow \cup {None}]
       /\ db.decs \in [XDecs -> {None, "proposed", "accepted"}]
       /\ db.rows \in SUBSET XRows
       /\ \A ro : [db EXCEPT !.rows = ro] = With(db.specs, db.decs, ro)
       /\ \A s, row : [db EXCEPT !.specs[s] = row] = With([db.specs EXCEPT ![s] = row], db.decs, db.rows)
       /\ \A d, st : [db EXCEPT !.decs[d] = st] = With(db.specs, [db.decs EXCEPT ![d] = st], db.rows)
BY DEF With, XProject

\* A row of a spec that is written.
LEMMA SpecWritten ==
  ASSUME NEW sp \in [XSpecs -> XSpecRow \cup {None}], NEW s \in XSpecs, NEW row \in XSpecRow
  PROVE  /\ [sp EXCEPT ![s] = row] \in [XSpecs -> XSpecRow \cup {None}]
         /\ Present([sp EXCEPT ![s] = row]) = Present(sp) \cup {s}
BY XAssumption DEF Present

\* Decisions that are promoted, or one that is written.
LEMMA DecsWritten ==
  ASSUME NEW de \in [XDecs -> {None, "proposed", "accepted"}]
  PROVE  /\ \A D : Promoted(de, D) \in [XDecs -> {None, "proposed", "accepted"}]
         /\ \A D : Present(de) \subseteq Present(Promoted(de, D))
         /\ \A d \in XDecs, st \in {"proposed", "accepted"} :
              /\ [de EXCEPT ![d] = st] \in [XDecs -> {None, "proposed", "accepted"}]
              /\ Present([de EXCEPT ![d] = st]) = Present(de) \cup {d}
<1>1. ASSUME NEW D
      PROVE  /\ Promoted(de, D) \in [XDecs -> {None, "proposed", "accepted"}]
             /\ Present(de) \subseteq Present(Promoted(de, D))
  BY XAssumption DEF Promoted, Present
<1>2. ASSUME NEW d \in XDecs, NEW st \in {"proposed", "accepted"}
      PROVE  /\ [de EXCEPT ![d] = st] \in [XDecs -> {None, "proposed", "accepted"}]
             /\ Present([de EXCEPT ![d] = st]) = Present(de) \cup {d}
  BY XAssumption DEF Present
<1> QED BY <1>1, <1>2

\* A user's step that takes nothing away silently keeps the invariant.
LEMMA UserStepInv ==
  ASSUME XInv, XUser, xdb' \in XProject, ximp.pc # "idle" => Kept(xdb, xdb', xgone'),
         xfresh \subseteq xfresh', xfresh' \subseteq XSpecs, xgone \subseteq xgone', xgone' \subseteq XRows,
         ximp.pc \notin {"idle", "error", "wipe"} =>
           Present(xdb'.specs) \subseteq Present(xdb.specs) \cup xfresh'
  PROVE  XInv'
<1>0. ximp' = ximp /\ xfile' = xfile
  BY DEF XUser
<1>1. Restored(ximp, xfile, xdb', xfresh', xgone')
  <2>1. CASE ximp.pc = "idle"
    BY <2>1 DEF Restored, SpecsBack, DecsBack, RowsBack, Sound, RowDone, Passed, RowLoops
  <2>2. CASE ximp.pc # "idle"
    BY <2>2, RestoredKept DEF XInv
  <2> QED BY <2>1, <2>2
<1>2. xsteps' \in 0 .. Meanwhile
  BY XAssumption DEF XInv, XTypeOK, XUser
<1> QED BY <1>0, <1>1, <1>2 DEF XInv, XTypeOK

\* Users add a row, or take an edge or a finding away.
LEMMA RowStepsInv ==
  ASSUME XInv, NEW r \in XRows, XAdd(r) \/ (XTakeAway(r) /\ r[1] \in {"edge", "finding"})
  PROVE  XInv'
<1>0. xdb \in XProject /\ xfresh \subseteq XSpecs /\ xgone \subseteq XRows /\ XUser /\ UNCHANGED xfresh
  BY DEF XInv, XTypeOK, XAdd, XTakeAway, xHist
<1>1. CASE XAdd(r)
  <2>1. xdb' = With(xdb.specs, xdb.decs, xdb.rows \cup {r}) /\ UNCHANGED xgone
    BY <1>0, <1>1, Parts DEF XAdd, xHist
  <2>2. xdb' \in XProject /\ xdb'.specs = xdb.specs /\ xdb'.decs = xdb.decs /\ xdb'.rows = xdb.rows \cup {r}
    BY <1>0, <2>1, Parts
  <2>3. Kept(xdb, xdb', xgone')
    BY <2>2 DEF Kept
  <2> QED BY <1>0, <2>1, <2>2, <2>3, UserStepInv
<1>2. CASE XTakeAway(r) /\ r[1] \in {"edge", "finding"}
  <2>1. xdb' = With(xdb.specs, xdb.decs, xdb.rows \ {r})
    BY <1>0, <1>2, Parts DEF XTakeAway
  <2>2. xdb' \in XProject /\ xdb'.specs = xdb.specs /\ xdb'.decs = xdb.decs /\ xdb'.rows = xdb.rows \ {r}
    BY <1>0, <2>1, Parts
  <2>3. xgone \subseteq xgone' /\ xgone' \subseteq XRows /\ (ximp.pc # "idle" => r \in xgone')
    BY <1>0, <1>2 DEF XTakeAway
  <2>4. ximp.pc # "idle" => Kept(xdb, xdb', xgone')
    BY <1>2, <2>2, <2>3 DEF Kept
  <2> QED BY <1>0, <2>2, <2>3, <2>4, UserStepInv
<1> QED BY <1>1, <1>2

\* The simple steps of users.
LEMMA UsersInv ==
  ASSUME XInv,
         \/ \E s \in XSpecs : XCreateSpec(s) \/ XStoreFindings(s) \/ XTalk(s)
         \/ \E d \in XDecs : XCreateDecision(d)
         \/ \E s, t \in XSpecs : XAddEdge(s, t)
         \/ \E s \in XSpecs, t \in XSpecs \cup XDecs : XRemoveEdge(s, t)
         \/ \E s \in XSpecs, i \in XItems : XMap(s, i)
  PROVE  XInv'
<1>0. xdb \in XProject /\ xfresh \subseteq XSpecs /\ xgone \subseteq XRows
  BY DEF XInv, XTypeOK
<1>1. ASSUME NEW s \in XSpecs, XCreateSpec(s) PROVE XInv'
  <2> DEFINE row == [stage |-> 0, outs |-> 1]
             sp == [xdb.specs EXCEPT ![s] = row]
  <2>1. row \in XSpecRow
    BY PositionValues DEF XSpecRow
  <2>2. xdb' = With(sp, xdb.decs, xdb.rows) /\ XUser /\ UNCHANGED xgone
    BY <1>0, <1>1 DEF XCreateSpec, With, XProject
  <2> HIDE DEF row
  <2>3. sp \in [XSpecs -> XSpecRow \cup {None}] /\ Present(sp) = Present(xdb.specs) \cup {s}
    BY <1>0, <2>1, SpecWritten, Parts
  <2> HIDE DEF sp
  <2>4. xdb' \in XProject /\ xdb'.specs = sp /\ xdb'.decs = xdb.decs /\ xdb'.rows = xdb.rows
    BY <1>0, <2>2, <2>3, Parts
  <2>5. /\ xfresh \subseteq xfresh' /\ xfresh' \subseteq XSpecs
        /\ ximp.pc \notin {"idle", "error", "wipe"} => s \in xfresh'
    BY <1>0, <1>1 DEF XCreateSpec
  <2>6. Kept(xdb, xdb', xgone')
    BY <2>3, <2>4 DEF Kept
  <2> QED BY <1>0, <2>2, <2>3, <2>4, <2>5, <2>6, UserStepInv
<1>2. ASSUME NEW d \in XDecs, XCreateDecision(d) PROVE XInv'
  <2>1. PICK st \in {"proposed", "accepted"} : xdb' = [xdb EXCEPT !.decs[d] = st]
    BY <1>2 DEF XCreateDecision
  <2> DEFINE de == [xdb.decs EXCEPT ![d] = st]
  <2>2. xdb' = With(xdb.specs, de, xdb.rows) /\ XUser /\ UNCHANGED xHist
    BY <1>0, <1>2, <2>1 DEF XCreateDecision, With, XProject
  <2>3. de \in [XDecs -> {None, "proposed", "accepted"}] /\ Present(de) = Present(xdb.decs) \cup {d}
    BY <1>0, DecsWritten, Parts
  <2> HIDE DEF de
  <2>4. xdb' \in XProject /\ xdb'.specs = xdb.specs /\ xdb'.decs = de /\ xdb'.rows = xdb.rows
    BY <1>0, <2>2, <2>3, Parts
  <2>5. Kept(xdb, xdb', xgone')
    BY <2>3, <2>4 DEF Kept
  <2> QED BY <1>0, <2>2, <2>4, <2>5, UserStepInv DEF xHist
<1>3. ASSUME NEW s \in XSpecs, NEW t \in XSpecs \cup XDecs PROVE Edge(s, t) \in XRows
  BY DEF XRows, XNodes
<1>4. ASSUME NEW s \in XSpecs, XStoreFindings(s) PROVE XInv'
  <2>1. Finding(s) \in XRows /\ Finding(s)[1] = "finding"
    BY RowKinds DEF XRows
  <2> QED BY <1>4, <2>1, RowStepsInv DEF XStoreFindings
<1>5. ASSUME NEW s \in XSpecs, XTalk(s) PROVE XInv'
  <2> DEFINE k == xdb.specs[s].stage
  <2>1. k \in Positions
    BY <1>0, <1>5, Parts DEF XTalk, XSpecRow
  <2>2. Conversation(s, k, k) \in XRows
    BY <2>1 DEF XRows
  <2> QED BY <1>5, <2>2, RowStepsInv DEF XTalk
<1>6. ASSUME NEW s \in XSpecs, NEW t \in XSpecs, XAddEdge(s, t) PROVE XInv'
  BY <1>3, <1>6, RowStepsInv DEF XAddEdge
<1>7. ASSUME NEW s \in XSpecs, NEW t \in XSpecs \cup XDecs, XRemoveEdge(s, t) PROVE XInv'
  BY <1>3, <1>7, RowStepsInv, RowKinds DEF XRemoveEdge
<1>8. ASSUME NEW s \in XSpecs, NEW i \in XItems, XMap(s, i) PROVE XInv'
  <2>1. Mapping(s, i) \in XRows
    BY DEF XRows
  <2> QED BY <1>8, <2>1, RowStepsInv DEF XMap
<1> QED BY <1>1, <1>2, <1>4, <1>5, <1>6, <1>7, <1>8

\* What a stage adds are rows.
LEMMA StageRowsAreRows ==
  ASSUME NEW s \in XSpecs, NEW k, NEW D \in SUBSET XDecs
  PROVE  StageRows(s, k, D) \in SUBSET XRows
BY DEF StageRows, XRows, XNodes

\* A stage of the funnel.
LEMMA AdvanceInv ==
  ASSUME XInv, NEW s \in XSpecs, XAdvance(s)
  PROVE  XInv'
<1>0. xdb \in XProject /\ xfresh \subseteq XSpecs /\ xgone \subseteq XRows
  BY DEF XInv, XTypeOK
<1>1. s \in Present(xdb.specs) /\ xdb.specs[s] \in XSpecRow
  BY <1>0, Parts DEF XAdvance, Present
<1> DEFINE k == xdb.specs[s].stage + 1
           row == [stage |-> k, outs |-> IF k <= 3 THEN k + 1 ELSE 4]
           sp == [xdb.specs EXCEPT ![s] = row]
<1>2. PICK D \in SUBSET XDecs :
        xdb' = With(sp, Promoted(xdb.decs, D), xdb.rows \cup StageRows(s, k, D))
  <2>1. k <= Ceiling[s] /\ \E D \in IF k = stageOrder.shape THEN SUBSET XDecs ELSE {{}} :
            xdb' = [specs |-> sp, decs |-> Promoted(xdb.decs, D), rows |-> xdb.rows \cup StageRows(s, k, D)]
    BY DEF XAdvance
  <2> HIDE DEF k, sp
  <2> QED BY <2>1 DEF With
<1>3. row \in XSpecRow
  <2>1. xdb.specs[s].stage \in 0 .. 8 /\ k <= Ceiling[s] /\ Ceiling[s] \in 0 .. 7
    BY <1>1, PositionValues, XAssumption DEF XAdvance, XSpecRow
  <2>2. k \in 0 .. 8 /\ (IF k <= 3 THEN k + 1 ELSE 4) \in 0 .. 4
    BY <2>1
  <2> HIDE DEF k
  <2> QED BY <2>2, PositionValues DEF XSpecRow
<1> HIDE DEF row, k
<1>4. sp \in [XSpecs -> XSpecRow \cup {None}] /\ Present(sp) = Present(xdb.specs) \cup {s}
  BY <1>0, <1>3, SpecWritten, Parts
<1> DEFINE de == Promoted(xdb.decs, D)
           ro == xdb.rows \cup StageRows(s, k, D)
<1>5. de \in [XDecs -> {None, "proposed", "accepted"}] /\ Present(xdb.decs) \subseteq Present(de)
  BY <1>0, DecsWritten, Parts
<1>6. ro \in SUBSET XRows /\ xdb.rows \subseteq ro
  BY <1>0, StageRowsAreRows, Parts
<1>7. xdb' = With(sp, de, ro) /\ XUser /\ UNCHANGED xHist
  BY <1>2 DEF XAdvance
<1> HIDE DEF sp, de, ro
<1>8. xdb' \in XProject /\ xdb'.specs = sp /\ xdb'.decs = de /\ xdb'.rows = ro
  BY <1>4, <1>5, <1>6, <1>7, Parts
<1>9. Kept(xdb, xdb', xgone')
  BY <1>4, <1>5, <1>6, <1>8 DEF Kept
<1> QED BY <1>0, <1>1, <1>4, <1>7, <1>8, <1>9, UserStepInv DEF xHist

\* A step of the import keeps the invariant if what it has restored by then is there.
LEMMA ImportStepInv ==
  ASSUME XInv, UNCHANGED <<xfile, xsteps>>, xdb' \in XProject, ximp' \in XImport,
         xfresh' \subseteq XSpecs, xgone' \subseteq XRows, Restored(ximp', xfile, xdb', xfresh', xgone')
  PROVE  XInv'
BY DEF XInv, XTypeOK

\* An import that is under way has a document.
LEMMA ImportTypes ==
  ASSUME XInv
  PROVE  /\ xdb \in XProject /\ ximp \in XImport /\ xfresh \subseteq XSpecs /\ xgone \subseteq XRows
         /\ ximp.pc # "idle" =>
              /\ xfile \in Document
              /\ xfile.data \in XProject
              /\ xfile # None
<1>1. \A doc \in Document : doc.data \in XProject
  BY DEF Document
<1> QED BY <1>1 DEF XInv, XTypeOK, Restored, Sound

\* An import that fails, or stops, leaves the project as it is.
LEMMA FailInv ==
  ASSUME XInv, ximp.pc # "idle", ximp' = [XIdle EXCEPT !.pc = "error"],
         xdb' \in XProject, UNCHANGED <<xfile, xHist, xsteps>>
  PROVE  XInv'
<1>1. ximp' \in XImport /\ ximp'.pc = "error"
  BY DEF XIdle, XImport
<1>2. xfile # None /\ xfresh' \subseteq XSpecs /\ xgone' \subseteq XRows
  BY ImportTypes DEF xHist
<1>3. Restored(ximp', xfile, xdb', xfresh', xgone')
  BY <1>1, <1>2 DEF Restored, SpecsBack, DecsBack, RowsBack, RowDone, Passed, RowLoops, Sound
<1> QED BY <1>1, <1>2, <1>3, ImportStepInv

\* The changelog of a project.
LEMMA ChangelogType ==
  ASSUME NEW db \in XProject
  PROVE  changelog(db) \in SUBSET ((XSpecs \cup XDecs) \X Positions)
<1>1. Present(db.specs) \subseteq XSpecs /\ Present(db.decs) \subseteq XDecs
  BY Parts DEF Present
<1>2. 0 \in Positions /\ 1 \in Positions
  BY PositionValues
<1> HIDE DEF Present
<1> QED BY <1>1, <1>2 DEF changelog

\* An export writes a document.
LEMMA ExportInv ==
  ASSUME XInv, Export
  PROVE  XInv'
<1> DEFINE lg == changelog(xdb)
           doc == [data |-> xdb, logs |-> lg, schema |-> 2, signed |-> "valid"]
<1>1. xdb \in XProject
  BY ImportTypes
<1>2. lg \in SUBSET ((XSpecs \cup XDecs) \X Positions)
  BY <1>1, ChangelogType
<1>3. collect(xdb) = doc
  BY DEF collect
<1> HIDE DEF lg
<1>4. doc \in Document /\ doc.data = xdb /\ doc.logs = lg
  BY <1>1, <1>2 DEF Document
<1>5. Retouched(doc) \subseteq Document
  <2>1. /\ [doc EXCEPT !.signed = "broken"] \in Document /\ [doc EXCEPT !.schema = 3] \in Document
        /\ [doc EXCEPT !.signed = "none"] \in Document
    BY <1>4 DEF Document
  <2> DEFINE ro == xdb.rows \ {Edge(SliceOf(s), s) : s \in XSpecs}
             da == [xdb EXCEPT !.rows = ro]
             lo == lg \cap (XSpecs \X Positions)
  <2>2. da \in XProject
    <3>1. ro \in SUBSET XRows
      BY <1>1, Parts
    <3> HIDE DEF ro
    <3> QED BY <1>1, <3>1 DEF XProject
  <2>3. lo \in SUBSET ((XSpecs \cup XDecs) \X Positions)
    BY <1>2
  <2> HIDE DEF doc
  <2>4. [doc EXCEPT !.signed = "none", !.logs = @ \cap (XSpecs \X Positions),
            !.data.rows = @ \ {Edge(SliceOf(s), s) : s \in XSpecs}]
          = [doc EXCEPT !.signed = "none", !.logs = lo, !.data = da]
    BY <1>4 DEF Document
  <2> HIDE DEF da, lo
  <2>5. [doc EXCEPT !.signed = "none", !.logs = lo, !.data = da] \in Document
    BY <1>4, <2>2, <2>3 DEF Document
  <2> QED BY <2>1, <2>4, <2>5 DEF Retouched
<1> HIDE DEF doc
<1>6. xfile' \in Document /\ xfile = None /\ UNCHANGED <<xdb, ximp, xHist, xsteps>>
  BY <1>3, <1>4, <1>5 DEF Export
<1>7. ximp.pc = "idle"
  BY <1>6 DEF XInv, Restored, Sound
<1>8. Restored(ximp, xfile', xdb, xfresh, xgone)
  BY <1>7 DEF Restored, SpecsBack, DecsBack, RowsBack, RowDone, Passed, RowLoops, Sound
<1> QED BY <1>6, <1>8 DEF XInv, XTypeOK, xHist

\* An import begins: it fails, wipes the project, or has found it empty.
LEMMA ImportInv ==
  ASSUME XInv, Import
  PROVE  XInv'
<1>1. PICK pc \in {"error", "wipe", "layers"} :
        /\ ximp' = [XIdle EXCEPT !.pc = pc] /\ (pc = "layers" => Present(xdb.specs) = {})
        /\ pc # "error" => validateRefs(xfile)
  <2>1. PICK force \in BOOLEAN, sig \in BOOLEAN, key \in BOOLEAN :
          ximp' = [XIdle EXCEPT !.pc =
             IF ~Acceptable(xfile, sig, key) \/ (Present(xdb.specs) # {} /\ ~force) THEN "error"
             ELSE IF Present(xdb.specs) # {} THEN "wipe" ELSE "layers"]
    BY DEF Import
  <2>2. CASE ~Acceptable(xfile, sig, key) \/ (Present(xdb.specs) # {} /\ ~force)
    BY <2>1, <2>2
  <2>3. CASE Acceptable(xfile, sig, key) /\ Present(xdb.specs) = {}
    BY <2>1, <2>3 DEF Acceptable
  <2>4. CASE ~(~Acceptable(xfile, sig, key) \/ (Present(xdb.specs) # {} /\ ~force)) /\ Present(xdb.specs) # {}
    BY <2>1, <2>4 DEF Acceptable
  <2> QED BY <2>2, <2>3, <2>4
<1>2. ximp' \in XImport /\ ximp'.pc = pc
  BY <1>1 DEF XIdle, XImport
<1>3. xfile # None /\ xfresh' = {} /\ xgone' = {} /\ UNCHANGED <<xdb, xfile, xsteps>>
  BY DEF Import
<1>4. Restored(ximp', xfile, xdb, xfresh', xgone')
  BY <1>1, <1>2, <1>3 DEF Restored, SpecsBack, DecsBack, RowsBack, RowDone, Passed, RowLoops, Sound
<1> QED BY <1>2, <1>3, <1>4, ImportTypes, ImportStepInv

\* The wipe, and the layers.
LEMMA FirstPhasesInv ==
  ASSUME XInv, WipeProjectData \/ WriteLayers
  PROVE  XInv'
<1> USE DEF Restored, SpecsBack, DecsBack, RowsBack, RowDone, Passed, RowLoops, Sound
<1>1. ASSUME WipeProjectData PROVE XInv'
  <2>1. /\ xdb' = XEmpty /\ xfresh' = {} /\ xgone' = {} /\ ximp' = [ximp EXCEPT !.pc = "layers"]
        /\ ximp.pc = "wipe" /\ UNCHANGED <<xfile, xsteps>>
    BY <1>1 DEF WipeProjectData, XAt
  <2>2. XEmpty \in XProject /\ Present(XEmpty.specs) = {}
    BY DEF XEmpty, XProject, Present
  <2>3. ximp' \in XImport /\ ximp'.pc = "layers" /\ xfile # None /\ validateRefs(xfile)
    BY <2>1, ImportTypes DEF XImport, XInv
  <2>4. Restored(ximp', xfile, xdb', xfresh', xgone')
    BY <2>1, <2>2, <2>3
  <2> QED BY <2>1, <2>2, <2>3, <2>4, ImportStepInv
<1>2. ASSUME WriteLayers PROVE XInv'
  <2>0. ximp.pc = "layers" /\ UNCHANGED <<xfile, xsteps, xHist, xdb>>
    BY <1>2 DEF WriteLayers, XAt, Fail
  <2>1. CASE Fail
    BY <2>0, <2>1, FailInv, ImportTypes DEF Fail
  <2>2. CASE ximp' = [ximp EXCEPT !.pc = "create", !.todo = Entities(xfile, "create")]
    <3> DEFINE all == Present(xfile.data.specs)
    <3>1. all \subseteq XSpecs
      BY <2>0, ImportTypes, Parts DEF Present
    <3>2. ximp' = [ximp EXCEPT !.pc = "create", !.todo = all]
      BY <2>2 DEF Entities
    <3> HIDE DEF all
    <3>3. ximp' \in XImport /\ ximp'.pc = "create" /\ ximp'.todo = all
      BY <3>1, <3>2, ImportTypes DEF XImport
    <3>4. Restored(ximp', xfile, xdb, xfresh, xgone)
      BY <2>0, <3>3 DEF XInv, all
    <3> QED BY <2>0, <3>3, <3>4, ImportTypes, ImportStepInv DEF xHist
  <2> QED BY <1>2, <2>1, <2>2 DEF WriteLayers
<1> QED BY <1>1, <1>2

\* The import creates the next spec.
LEMMA ImportCreateInv ==
  ASSUME XInv, ImportCreateSpec
  PROVE  XInv'
<1>0. ximp.pc = "create" /\ UNCHANGED <<xfile, xsteps, xHist>>
  BY DEF ImportCreateSpec, XAt
<1>1. /\ xdb \in XProject /\ ximp \in XImport /\ xfresh \subseteq XSpecs /\ xfile # None /\ xgone \subseteq XRows
      /\ ximp.todo \subseteq Present(xfile.data.specs) /\ Present(xfile.data.specs) \subseteq XSpecs
      /\ Present(xfile.data.specs) \ ximp.todo \subseteq Present(xdb.specs)
      /\ Present(xdb.specs) \subseteq Present(xfile.data.specs) \cup xfresh /\ validateRefs(xfile)
  <2>1. Present(xfile.data.specs) \subseteq XSpecs
    BY <1>0, ImportTypes, Parts DEF Present
  <2> QED BY <1>0, <2>1, ImportTypes DEF XInv, Restored, SpecsBack, Sound
<1>2. ASSUME Fail PROVE XInv'
  BY <1>0, <1>1, <1>2, FailInv DEF Fail
<1>3. ASSUME NEW s \in ximp.todo, xdb' = [xdb EXCEPT !.specs[s] = [stage |-> 0, outs |-> 0]],
             ximp' = [ximp EXCEPT !.pc = "replay", !.cur = s, !.todo = ximp.todo \ {s}]
      PROVE  XInv'
  <2> DEFINE row == [stage |-> 0, outs |-> 0]
             sp == [xdb.specs EXCEPT ![s] = row]
             td == ximp.todo \ {s}
  <2>1. row \in XSpecRow /\ s \in XSpecs
    BY <1>1, PositionValues DEF XSpecRow
  <2>2. xdb' = With(sp, xdb.decs, xdb.rows)
    BY <1>1, <1>3 DEF With, XProject
  <2> HIDE DEF row
  <2>3. sp \in [XSpecs -> XSpecRow \cup {None}] /\ Present(sp) = Present(xdb.specs) \cup {s}
    BY <1>1, <2>1, SpecWritten, Parts
  <2> HIDE DEF sp
  <2>4. xdb' \in XProject /\ xdb'.specs = sp
    BY <1>1, <2>2, <2>3, Parts
  <2>5. ximp' \in XImport /\ ximp'.pc = "replay" /\ ximp'.cur = s /\ ximp'.todo = td
    BY <1>1, <1>3, <2>1 DEF XImport
  <2>6. SpecsBack(ximp', xfile, xdb')
    BY <1>1, <2>3, <2>4, <2>5 DEF SpecsBack, RowLoops
  <2>7. DecsBack(ximp', xfile, xdb') /\ RowsBack(ximp', xfile, xdb', xgone)
    BY <2>5 DEF DecsBack, RowsBack, RowDone, Passed, RowLoops
  <2>8. Sound(ximp', xfile, xdb', xfresh)
    BY <1>1, <2>3, <2>4, <2>5 DEF Sound
  <2> QED BY <1>0, <1>1, <2>4, <2>5, <2>6, <2>7, <2>8, ImportStepInv DEF Restored, xHist
<1> QED BY <1>2, <1>3 DEF ImportCreateSpec

\* A step of the import at the spec cur that takes nothing away: it stays where it
\* is, goes on to the stage, or is done with the spec.
LEMMA ImportGoesOnInv ==
  ASSUME XInv, UNCHANGED <<xfile, xsteps, xHist>>, xdb' \in XProject, Kept(xdb, xdb', xgone),
         Present(xdb'.specs) = Present(xdb.specs), ximp.pc \in {"replay", "transition"},
         NEW pc \in {"create", "replay", "transition"}, ximp' = [ximp EXCEPT !.pc = pc]
  PROVE  XInv'
<1>1. Restored(ximp, xfile, xdb', xfresh, xgone)
  BY RestoredKept DEF XInv
<1>2. ximp' \in XImport /\ ximp'.pc = pc /\ ximp'.todo = ximp.todo /\ ximp'.cur = ximp.cur
  BY ImportTypes DEF XImport
<1>3. Restored(ximp', xfile, xdb', xfresh, xgone)
  <2>1. SpecsBack(ximp', xfile, xdb') /\ Sound(ximp', xfile, xdb', xfresh)
    BY <1>1, <1>2 DEF Restored, SpecsBack, Sound, RowLoops
  <2>2. DecsBack(ximp', xfile, xdb') /\ RowsBack(ximp', xfile, xdb', xgone)
    BY <1>2 DEF DecsBack, RowsBack, RowDone, Passed, RowLoops
  <2> QED BY <2>1, <2>2 DEF Restored
<1> QED BY <1>2, <1>3, ImportTypes, ImportStepInv DEF xHist

\* The outputs of a spec are stored again.
LEMMA ReplayInv ==
  ASSUME XInv, Replay
  PROVE  XInv'
<1> DEFINE s == ximp.cur
           had == xdb.specs[s].outs
           D == {d \in XDecs : had = 1 /\ Edge(s, d) \in xfile.data.rows}
           row == [xdb.specs[s] EXCEPT !.outs = had + 1]
           sp == [xdb.specs EXCEPT ![s] = row]
           de == Promoted(xdb.decs, D)
           ro == xdb.rows \cup StageRows(s, stageOrder.shape, D)
<1>0. ximp.pc = "replay" /\ UNCHANGED <<xfile, xsteps, xHist>>
  BY DEF Replay, XAt
<1>1. xdb \in XProject /\ xfile.data \in XProject /\ s \in Present(xdb.specs) /\ s \in Present(xfile.data.specs)
      /\ ximp \in XImport
  BY <1>0, ImportTypes DEF XInv, Restored, SpecsBack
<1>2. s \in XSpecs /\ xdb.specs[s] \in XSpecRow /\ xfile.data.specs[s] \in XSpecRow
  BY <1>1, Parts DEF Present
<1>3. ASSUME OutputsLeft(s), UNCHANGED ximp, xdb' = With(sp, de, ro)
      PROVE  XInv'
  <2>1. row \in XSpecRow
    <3>1. had \in 0 .. 4 /\ xfile.data.specs[s].outs \in 0 .. 4 /\ had < xfile.data.specs[s].outs
      BY <1>2, <1>3 DEF XSpecRow, OutputsLeft
    <3>2. had + 1 \in 0 .. 4
      BY <3>1
    <3> HIDE DEF had, s
    <3> QED BY <1>2, <3>2 DEF XSpecRow
  <2>2. D \in SUBSET XDecs
    OBVIOUS
  <2> HIDE DEF s, D, row
  <2>3. sp \in [XSpecs -> XSpecRow \cup {None}] /\ Present(sp) = Present(xdb.specs) \cup {s}
    BY <1>1, <1>2, <2>1, SpecWritten, Parts
  <2>4. de \in [XDecs -> {None, "proposed", "accepted"}] /\ Present(xdb.decs) \subseteq Present(de)
    BY <1>1, DecsWritten, Parts
  <2>5. ro \in SUBSET XRows /\ xdb.rows \subseteq ro
    BY <1>1, <1>2, <2>2, StageRowsAreRows, Parts
  <2> HIDE DEF sp, de, ro
  <2>6. xdb' \in XProject /\ xdb'.specs = sp /\ xdb'.decs = de /\ xdb'.rows = ro
    BY <1>3, <2>3, <2>4, <2>5, Parts
  <2>7. Kept(xdb, xdb', xgone) /\ Present(xdb'.specs) = Present(xdb.specs)
    BY <1>1, <2>3, <2>4, <2>5, <2>6 DEF Kept
  <2>8. ximp' = [ximp EXCEPT !.pc = "replay"]
    BY <1>0, <1>1, <1>3 DEF XImport
  <2> QED BY <1>0, <2>6, <2>7, <2>8, ImportGoesOnInv
<1>4. ASSUME UNCHANGED xdb, NEW pc \in {"create", "transition"}, ximp' = [ximp EXCEPT !.pc = pc] PROVE XInv'
  <2>1. Kept(xdb, xdb', xgone)
    BY <1>4 DEF Kept
  <2> QED BY <1>0, <1>1, <1>4, <2>1, ImportGoesOnInv
<1>5. \/ OutputsLeft(s) /\ UNCHANGED ximp /\ xdb' = With(sp, de, ro)
      \/ UNCHANGED xdb /\ \E pc \in {"create", "transition"} : ximp' = [ximp EXCEPT !.pc = pc]
  <2>1. CASE OutputsLeft(s)
    BY <2>1 DEF Replay, With
  <2>2. CASE ~OutputsLeft(s)
    BY <2>2 DEF Replay
  <2> QED BY <2>1, <2>2
<1> QED BY <1>3, <1>4, <1>5

\* The stage of a spec is restored, or refused.
LEMMA RestoreStageInv ==
  ASSUME XInv, RestoreStage
  PROVE  XInv'
<1> DEFINE s == ximp.cur
           row == [xdb.specs[s] EXCEPT !.stage = stageOrder.approved]
           sp == [xdb.specs EXCEPT ![s] = row]
<1>0. ximp.pc = "transition" /\ UNCHANGED <<xfile, xsteps, xHist>>
  BY DEF RestoreStage, XAt
<1>1. xdb \in XProject /\ s \in Present(xdb.specs)
  BY <1>0, ImportTypes DEF XInv, Restored, SpecsBack
<1>2. s \in XSpecs /\ xdb.specs[s] \in XSpecRow
  BY <1>1, Parts DEF Present
<1>3. ASSUME Fail PROVE XInv'
  BY <1>0, <1>1, <1>3, FailInv DEF Fail
<1>4. ASSUME xdb' = [xdb EXCEPT !.specs[s] = row]
      PROVE  xdb' \in XProject /\ Kept(xdb, xdb', xgone) /\ Present(xdb'.specs) = Present(xdb.specs)
  <2>1. row \in XSpecRow
    <3> HIDE DEF s
    <3> QED BY <1>2, PositionValues DEF XSpecRow
  <2>2. xdb' = With(sp, xdb.decs, xdb.rows)
    BY <1>1, <1>4 DEF With, XProject
  <2> HIDE DEF row, s
  <2>3. sp \in [XSpecs -> XSpecRow \cup {None}] /\ Present(sp) = Present(xdb.specs) \cup {s}
    BY <1>1, <1>2, <2>1, SpecWritten, Parts
  <2> HIDE DEF sp
  <2>4. xdb' \in XProject /\ xdb'.specs = sp /\ xdb'.decs = xdb.decs /\ xdb'.rows = xdb.rows
    BY <1>1, <2>2, <2>3, Parts
  <2> QED BY <1>1, <2>3, <2>4 DEF Kept
<1>5. \/ Fail
      \/ /\ xdb' = [xdb EXCEPT !.specs[s] = row]
         /\ ximp' = [ximp EXCEPT !.pc = "create"] \/ ximp' = [XIdle EXCEPT !.pc = "error"]
  BY DEF RestoreStage
<1> HIDE DEF row, s
<1>6. ASSUME xdb' = [xdb EXCEPT !.specs[s] = row], ximp' = [ximp EXCEPT !.pc = "create"] PROVE XInv'
  BY <1>0, <1>4, <1>6, ImportGoesOnInv
<1>7. ASSUME xdb' = [xdb EXCEPT !.specs[s] = row], ximp' = [XIdle EXCEPT !.pc = "error"] PROVE XInv'
  BY <1>0, <1>4, <1>7, FailInv
<1> QED BY <1>3, <1>5, <1>6, <1>7

\* A later step of the import within its phase, or on to the next: the project has
\* kept everything and no spec is new.
LEMMA LaterInv ==
  ASSUME XInv, UNCHANGED <<xfile, xsteps, xHist>>, xdb' \in XProject, Kept(xdb, xdb', xgone),
         xdb'.specs = xdb.specs, ximp' \in XImport,
         ximp.pc \in {"decision", "status"} \cup RowLoops,
         ximp'.pc \in {"decision", "status", "ok"} \cup RowLoops,
         DecsBack(ximp', xfile, xdb'), RowsBack(ximp', xfile, xdb', xgone)
  PROVE  XInv'
<1>1. Restored(ximp, xfile, xdb', xfresh, xgone)
  BY RestoredKept DEF XInv
<1>2. SpecsBack(ximp', xfile, xdb') /\ Sound(ximp', xfile, xdb', xfresh)
  BY <1>1 DEF Restored, SpecsBack, Sound, RowLoops
<1> QED BY <1>2, ImportTypes, ImportStepInv DEF Restored, xHist

\* The decisions of the document are created, and get their status.
LEMMA ImportDecisionsInv ==
  ASSUME XInv, ImportDecision \/ RestoreStatus
  PROVE  XInv'
<1>0. ximp.pc \in {"decision", "status"} /\ UNCHANGED <<xfile, xsteps, xHist>>
  BY DEF ImportDecision, RestoreStatus, XAt
<1>1. /\ xdb \in XProject /\ ximp \in XImport /\ xfile.data \in XProject
      /\ DecsBack(ximp, xfile, xdb) /\ Present(xfile.data.decs) \subseteq XDecs
  <2>1. xfile.data \in XProject
    BY <1>0, ImportTypes
  <2>2. Present(xfile.data.decs) \subseteq XDecs
    BY <2>1, Parts DEF Present
  <2> QED BY <2>1, <2>2, ImportTypes DEF XInv, Restored
<1>2. ASSUME Fail PROVE XInv'
  BY <1>0, <1>1, <1>2, FailInv DEF Fail
<1>3. \A i : i.pc \in {"decision", "status"} => RowsBack(i, xfile, xdb', xgone)
  BY DEF RowsBack, RowDone, Passed, RowLoops
<1>4. ASSUME NEW d \in XDecs, NEW st \in {"proposed", "accepted"}, xdb' = [xdb EXCEPT !.decs[d] = st]
      PROVE  /\ xdb' \in XProject /\ Kept(xdb, xdb', xgone) /\ xdb'.specs = xdb.specs
             /\ Present(xdb'.decs) = Present(xdb.decs) \cup {d}
  <2> DEFINE de == [xdb.decs EXCEPT ![d] = st]
  <2>1. xdb' = With(xdb.specs, de, xdb.rows)
    BY <1>1, <1>4 DEF With, XProject
  <2>2. de \in [XDecs -> {None, "proposed", "accepted"}] /\ Present(de) = Present(xdb.decs) \cup {d}
    BY <1>1, DecsWritten, Parts
  <2> HIDE DEF de
  <2>3. xdb' \in XProject /\ xdb'.specs = xdb.specs /\ xdb'.decs = de /\ xdb'.rows = xdb.rows
    BY <1>1, <2>1, <2>2, Parts
  <2> QED BY <2>2, <2>3 DEF Kept
<1>5. ASSUME ximp.pc = "decision", NEW d \in ximp.todo, xdb' = [xdb EXCEPT !.decs[d] = "proposed"],
             NEW pc \in {"decision", "status"},
             ximp' = [ximp EXCEPT !.pc = pc, !.cur = d, !.todo = ximp.todo \ {d}]
      PROVE  XInv'
  <2>0. d \in XDecs /\ d \in Present(xfile.data.decs)
    BY <1>1, <1>5 DEF DecsBack
  <2>1. /\ xdb' \in XProject /\ Kept(xdb, xdb', xgone) /\ xdb'.specs = xdb.specs
        /\ Present(xdb'.decs) = Present(xdb.decs) \cup {d}
    BY <1>4, <1>5, <2>0
  <2> DEFINE td == ximp.todo \ {d}
  <2>2. td \in SUBSET (XSpecs \cup XDecs \cup XRows)
    BY <1>1 DEF XImport
  <2>3. ximp' = [ximp EXCEPT !.pc = pc, !.cur = d, !.todo = td]
    BY <1>5
  <2> HIDE DEF td
  <2>4. ximp' \in XImport /\ ximp'.pc = pc /\ ximp'.cur = d /\ ximp'.todo = td
    BY <1>1, <2>0, <2>2, <2>3 DEF XImport
  <2>5. DecsBack(ximp', xfile, xdb')
    BY <1>1, <1>5, <2>0, <2>1, <2>4 DEF DecsBack, RowLoops, td
  <2> QED BY <1>0, <1>3, <2>1, <2>4, <2>5, LaterInv
<1>6. ASSUME ximp.pc = "status", xdb' = xdb \/ xdb' = [xdb EXCEPT !.decs[ximp.cur] = xfile.data.decs[ximp.cur]],
             NEW w \in BOOLEAN, ximp' = [ximp EXCEPT !.pc = "decision", !.warned = w]
      PROVE  XInv'
  <2>0. ximp.cur \in Present(xfile.data.decs) /\ ximp.cur \in XDecs
    BY <1>1, <1>6 DEF DecsBack
  <2>1. xfile.data.decs[ximp.cur] \in {"proposed", "accepted"}
    BY <1>1, <2>0, Parts DEF Present
  <2>2. /\ xdb' \in XProject /\ Kept(xdb, xdb', xgone) /\ xdb'.specs = xdb.specs
        /\ Present(xdb.decs) \subseteq Present(xdb'.decs)
    <3>1. CASE xdb' = xdb
      BY <1>1, <3>1 DEF Kept
    <3>2. CASE xdb' = [xdb EXCEPT !.decs[ximp.cur] = xfile.data.decs[ximp.cur]]
      BY <1>4, <2>0, <2>1, <3>2
    <3> QED BY <1>6, <3>1, <3>2
  <2>3. ximp' \in XImport /\ ximp'.pc = "decision" /\ ximp'.todo = ximp.todo
    BY <1>1, <1>6 DEF XImport
  <2>4. DecsBack(ximp', xfile, xdb')
    BY <1>1, <1>6, <2>2, <2>3 DEF DecsBack, RowLoops
  <2> QED BY <1>0, <1>3, <2>2, <2>3, <2>4, LaterInv
<1>7. ASSUME ImportDecision PROVE XInv'
  <2>1. PICK d \in ximp.todo :
          \/ Fail
          \/ /\ xdb' = [xdb EXCEPT !.decs[d] = "proposed"]
             /\ ximp' = [ximp EXCEPT !.pc = IF xfile.data.decs[d] = "proposed" THEN "decision" ELSE "status",
                                     !.cur = d, !.todo = ximp.todo \ {d}]
    BY <1>7 DEF ImportDecision
  <2>2. ximp.pc = "decision"
    BY <1>7 DEF ImportDecision, XAt
  <2> QED BY <1>2, <1>5, <2>1, <2>2
<1>8. ASSUME RestoreStatus PROVE XInv'
  <2>1. /\ ximp.pc = "status" /\ ximp.warned \in BOOLEAN
        /\ \/ /\ xdb' = [xdb EXCEPT !.decs[ximp.cur] = xfile.data.decs[ximp.cur]]
              /\ ximp' = [ximp EXCEPT !.pc = "decision"]
           \/ ximp' = [ximp EXCEPT !.pc = "decision", !.warned = TRUE] /\ UNCHANGED xdb
    BY <1>1, <1>8 DEF RestoreStatus, XAt, XImport
  <2>2. [ximp EXCEPT !.pc = "decision"] = [ximp EXCEPT !.pc = "decision", !.warned = ximp.warned]
    BY <1>1 DEF XImport
  <2> QED BY <1>6, <2>1, <2>2
<1> QED BY <1>7, <1>8

\* One row of the loop is done.
LEMMA RowDoneInv ==
  ASSUME XInv, UNCHANGED <<xfile, xsteps, xHist>>, ximp.pc \in RowLoops, NEW r \in ximp.todo,
         xdb' \in XProject, Kept(xdb, xdb', xgone), xdb'.specs = xdb.specs,
         ximp' \in XImport, ximp'.pc = ximp.pc, ximp'.todo = ximp.todo \ {r},
         ~ximp'.warned => ~ximp.warned /\ RowBack(r, xdb', xgone)
  PROVE  XInv'
<1>1. Restored(ximp, xfile, xdb', xfresh, xgone)
  BY RestoredKept DEF XInv
<1>2. DecsBack(ximp', xfile, xdb')
  BY <1>1 DEF Restored, DecsBack, RowLoops
<1>3. \A x : RowDone(x, ximp') => RowDone(x, ximp) \/ x = r
  BY DEF RowDone
<1>4. RowsBack(ximp', xfile, xdb', xgone)
  <2>1. RowsBack(ximp, xfile, xdb', xgone)
    BY <1>1 DEF Restored
  <2> QED BY <1>3, <2>1 DEF RowsBack
<1> QED BY <1>2, <1>4, LaterInv

\* The slices of the document are created, each with the edge to its spec.
LEMMA ImportSliceInv ==
  ASSUME XInv, ImportSlice
  PROVE  XInv'
<1>0. ximp.pc = "slice" /\ ximp.pc \in RowLoops /\ UNCHANGED <<xfile, xsteps, xHist>>
  BY DEF ImportSlice, XAt, RowLoops
<1>1. /\ xdb \in XProject /\ ximp \in XImport
      /\ ximp.todo \subseteq OfKind(xfile.data.rows, "slice") /\ xfile.data.rows \subseteq XRows
  <2>1. xfile.data \in XProject
    BY <1>0, ImportTypes
  <2> QED BY <1>0, <2>1, ImportTypes, Parts DEF XInv, Restored, RowsBack
<1>2. ASSUME Fail PROVE XInv'
  BY <1>0, <1>1, <1>2, FailInv DEF Fail
<1>3. ASSUME NEW r \in ximp.todo, xdb' = [xdb EXCEPT !.rows = xdb.rows \cup {r, Edge(SliceOf(r[2]), r[2])}],
             ximp' = [ximp EXCEPT !.todo = ximp.todo \ {r}]
      PROVE  XInv'
  <2>1. r \in XRows /\ r[2] \in XSpecs
    BY <1>1, RowShapes DEF OfKind
  <2>2. Edge(SliceOf(r[2]), r[2]) \in XRows
    BY <2>1 DEF XRows, XNodes
  <2> DEFINE ro == xdb.rows \cup {r, Edge(SliceOf(r[2]), r[2])}
             td == ximp.todo \ {r}
  <2>3. ro \in SUBSET XRows /\ xdb.rows \subseteq ro /\ r \in ro
    BY <1>1, <2>1, <2>2, Parts
  <2>4. xdb' = With(xdb.specs, xdb.decs, ro)
    BY <1>1, <1>3, Parts
  <2>5. td \in SUBSET (XSpecs \cup XDecs \cup XRows)
    BY <1>1 DEF XImport
  <2>6. ximp' = [ximp EXCEPT !.todo = td]
    BY <1>3
  <2> HIDE DEF ro, td
  <2>7. xdb' \in XProject /\ xdb'.specs = xdb.specs /\ xdb'.decs = xdb.decs /\ xdb'.rows = ro
    BY <1>1, <2>3, <2>4, Parts
  <2>8. Kept(xdb, xdb', xgone) /\ RowBack(r, xdb', xgone)
    BY <2>3, <2>7 DEF Kept, RowBack
  <2>9. ximp' \in XImport /\ ximp'.pc = ximp.pc /\ ximp'.todo = td /\ ximp'.warned = ximp.warned
    BY <1>1, <2>5, <2>6 DEF XImport
  <2> QED BY <1>0, <2>7, <2>8, <2>9, RowDoneInv DEF td
<1> QED BY <1>2, <1>3 DEF ImportSlice

\* A row of the other loops is written, or it is a warning.
LEMMA ImportRowsInv ==
  ASSUME XInv, NEW loop \in {"edge", "finding", "conversation", "mapping"}, ImportRows(loop)
  PROVE  XInv'
<1>0. ximp.pc = loop /\ ximp.pc \in RowLoops /\ UNCHANGED <<xfile, xsteps, xHist>>
  BY DEF ImportRows, XAt, RowLoops
<1>1. /\ xdb \in XProject /\ ximp \in XImport
      /\ ximp.todo \subseteq xfile.data.rows /\ xfile.data.rows \subseteq XRows
      /\ validateRefs(xfile) /\ Present(xfile.data.specs) \subseteq Present(xdb.specs)
  <2>1. xfile.data \in XProject
    BY <1>0, ImportTypes
  <2>2. ximp.pc \notin {"idle", "error"}
    BY <1>0
  <2>3. ximp.todo \subseteq xfile.data.rows
    BY <1>0 DEF XInv, Restored, RowsBack, OfKind
  <2>4. validateRefs(xfile) /\ Present(xfile.data.specs) \subseteq Present(xdb.specs)
    BY <1>0, <2>2 DEF XInv, Restored, Sound, SpecsBack
  <2> QED BY <2>1, <2>3, <2>4, ImportTypes, Parts
<1>2. PICK r \in ximp.todo :
        \/ /\ xdb' = [xdb EXCEPT !.rows = xdb.rows \cup {Written(r)}]
           /\ ximp' = [ximp EXCEPT !.todo = ximp.todo \ {r}]
        \/ ximp' = [ximp EXCEPT !.todo = ximp.todo \ {r}, !.warned = TRUE] /\ UNCHANGED xdb
  BY DEF ImportRows
<1>3. /\ Written(r) \in XRows
      /\ \/ Written(r) = r
         \/ r[1] = "conversation" /\ \E at \in Positions : Written(r) = Conversation(r[2], r[3], at)
  <2>1. CASE r[1] # "conversation"
    BY <1>1, <2>1 DEF Written
  <2>2. CASE r[1] = "conversation"
    <3>1. r[2] \in XSpecs /\ r[3] \in Positions
      BY <1>1, <2>2, RowShapes
    <3>2. r[2] \in Present(xdb.specs)
      BY <1>1, <2>2 DEF validateRefs
    <3>3. xdb.specs[r[2]].stage \in Positions
      BY <1>1, <3>1, <3>2, Parts DEF Present, XSpecRow
    <3>4. Written(r) = Conversation(r[2], r[3], xdb.specs[r[2]].stage)
      BY <2>2 DEF Written
    <3>5. Conversation(r[2], r[3], xdb.specs[r[2]].stage) \in XRows
      BY <3>1, <3>3 DEF XRows
    <3> QED BY <2>2, <3>3, <3>4, <3>5
  <2> QED BY <2>1, <2>2
<1> DEFINE ro == xdb.rows \cup {Written(r)}
           td == ximp.todo \ {r}
<1>4. td \in SUBSET (XSpecs \cup XDecs \cup XRows)
  BY <1>1 DEF XImport
<1>5. CASE xdb' = [xdb EXCEPT !.rows = ro] /\ ximp' = [ximp EXCEPT !.todo = td]
  <2>1. ro \in SUBSET XRows /\ xdb.rows \subseteq ro /\ Written(r) \in ro
    BY <1>1, <1>3, Parts
  <2>2. xdb' = With(xdb.specs, xdb.decs, ro)
    BY <1>1, <1>5, Parts
  <2> HIDE DEF ro
  <2>3. xdb' \in XProject /\ xdb'.specs = xdb.specs /\ xdb'.decs = xdb.decs /\ xdb'.rows = ro
    BY <1>1, <2>1, <2>2, Parts
  <2>4. Kept(xdb, xdb', xgone) /\ RowBack(r, xdb', xgone)
    BY <1>3, <2>1, <2>3 DEF Kept, RowBack
  <2>5. ximp' \in XImport /\ ximp'.pc = ximp.pc /\ ximp'.todo = td /\ ximp'.warned = ximp.warned
    <3> HIDE DEF td
    <3> QED BY <1>1, <1>4, <1>5 DEF XImport
  <2> QED BY <1>0, <2>3, <2>4, <2>5, RowDoneInv
<1>6. CASE ximp' = [ximp EXCEPT !.todo = td, !.warned = TRUE] /\ UNCHANGED xdb
  <2>1. ximp' \in XImport /\ ximp'.pc = ximp.pc /\ ximp'.todo = td /\ ximp'.warned
    <3> HIDE DEF td
    <3> QED BY <1>1, <1>4, <1>6 DEF XImport
  <2>2. xdb' \in XProject /\ Kept(xdb, xdb', xgone) /\ xdb'.specs = xdb.specs
    BY <1>1, <1>6 DEF Kept
  <2> QED BY <1>0, <2>1, <2>2, RowDoneInv
<1> QED BY <1>2, <1>5, <1>6

\* A loop is through.
LEMMA NextLoopInv ==
  ASSUME XInv, NextLoop
  PROVE  XInv'
<1> DEFINE pc == After[ximp.pc]
           td == Entities(xfile, pc)
<1>0. /\ ximp.pc \in {"create", "decision"} \cup RowLoops /\ ximp.todo = {}
      /\ ximp' = [ximp EXCEPT !.pc = pc, !.todo = td, !.cur = None]
      /\ UNCHANGED <<xdb, xfile, xHist, xsteps>>
  BY DEF NextLoop, After, RowLoops
<1>1. /\ xdb \in XProject /\ ximp \in XImport /\ xfile \in Document /\ xfile # None /\ xfile.data \in XProject
      /\ Restored(ximp, xfile, xdb, xfresh, xgone) /\ Kept(xdb, xdb', xgone)
  BY <1>0, ImportTypes DEF XInv, RowLoops, Kept
<1>2. /\ After["create"] = "decision" /\ After["decision"] = "slice" /\ After["slice"] = "edge"
      /\ After["edge"] = "finding" /\ After["finding"] = "conversation"
      /\ After["conversation"] = "mapping" /\ After["mapping"] = "ok"
  BY DEF After
<1>3. /\ pc \in {"decision", "ok"} \cup RowLoops
      /\ ximp.pc = "create" <=> pc = "decision" 
      /\ pc \in RowLoops => td = OfKind(xfile.data.rows, pc)
      /\ pc = "decision" => td = Present(xfile.data.decs)
  <2> HIDE DEF td, pc
  <2>1. /\ pc \in {"decision", "ok"} \cup RowLoops
        /\ ximp.pc = "create" <=> pc = "decision"
    BY <1>0, <1>2 DEF RowLoops, pc
  <2>2. pc \in RowLoops => td = OfKind(xfile.data.rows, pc)
    BY DEF td, Entities, RowLoops
  <2>3. pc = "decision" => td = Present(xfile.data.decs)
    BY DEF td, Entities
  <2> QED BY <2>1, <2>2, <2>3
<1>4. td \in SUBSET (XSpecs \cup XDecs \cup XRows)
  <2>1. Present(xfile.data.decs) \subseteq XDecs /\ \A k : OfKind(xfile.data.rows, k) \subseteq XRows
    BY <1>1, Parts DEF Present, OfKind
  <2>2. pc # "create"
    BY <1>3 DEF RowLoops
  <2> HIDE DEF pc
  <2> QED BY <2>1, <2>2 DEF Entities
<1> HIDE DEF td
<1>5. ximp' \in XImport /\ ximp'.pc = pc /\ ximp'.todo = td /\ ximp'.warned = ximp.warned
  <2>1. pc \in {"decision", "ok", "slice", "edge", "finding", "conversation", "mapping"}
    BY <1>3 DEF RowLoops
  <2> HIDE DEF pc
  <2> QED BY <1>0, <1>1, <1>4, <2>1 DEF XImport
<1>6. SpecsBack(ximp', xfile, xdb) /\ Sound(ximp', xfile, xdb, xfresh)
  <2> HIDE DEF pc
  <2>1. Present(xfile.data.specs) \subseteq Present(xdb.specs)
    BY <1>0, <1>1 DEF Restored, SpecsBack, RowLoops
  <2>2. Sound(ximp', xfile, xdb, xfresh)
    BY <1>0, <1>1, <1>3, <1>5 DEF Restored, Sound, RowLoops
  <2> QED BY <1>3, <1>5, <2>1, <2>2 DEF SpecsBack, RowLoops
<1>7. DecsBack(ximp', xfile, xdb)
  <2>1. CASE ximp.pc = "create"
    <3> HIDE DEF pc
    <3> QED BY <1>3, <1>5, <2>1 DEF DecsBack, RowLoops
  <2>2. CASE ximp.pc # "create"
    <3>1. Present(xfile.data.decs) \subseteq Present(xdb.decs)
      BY <1>0, <1>1, <2>2 DEF Restored, DecsBack, RowLoops
    <3> HIDE DEF pc
    <3> QED BY <1>3, <1>5, <2>2, <3>1 DEF DecsBack, RowLoops
  <2> QED BY <2>1, <2>2
<1>8. RowsBack(ximp', xfile, xdb, xgone)
  <2>1. ASSUME NEW r \in xfile.data.rows, RowDone(r, ximp') PROVE RowDone(r, ximp)
    <3>1. r[1] \in Passed(pc)
      BY <1>3, <1>5, <2>1 DEF RowDone, OfKind
    <3>2. \A k \in {"create", "decision"} : Passed(After[k]) = {}
      BY <1>2 DEF Passed
    <3>3. \A k \in RowLoops : Passed(After[k]) = Passed(k) \cup {k}
      BY <1>2 DEF Passed, RowLoops
    <3>4. ximp.pc \in RowLoops /\ r[1] \in Passed(ximp.pc) \cup {ximp.pc}
      BY <1>0, <3>1, <3>2, <3>3
    <3> QED BY <1>0, <3>4 DEF RowDone
  <2>2. RowsBack(ximp, xfile, xdb, xgone)
    BY <1>1 DEF Restored
  <2> HIDE DEF pc
  <2>3. ximp'.pc \in RowLoops => ximp'.todo \subseteq OfKind(xfile.data.rows, ximp'.pc)
    BY <1>3, <1>5
  <2> QED BY <1>5, <2>1, <2>2, <2>3 DEF RowsBack
<1> QED BY <1>0, <1>5, <1>6, <1>7, <1>8, ImportTypes, ImportStepInv DEF Restored, xHist

\* The initial state satisfies the invariant.
LEMMA XInitInv == XInit => XInv
<1> SUFFICES ASSUME XInit PROVE XInv
  OBVIOUS
<1>1. XEmpty \in XProject
  BY DEF XEmpty, XProject
<1>2. XIdle \in XImport /\ XIdle.pc = "idle"
  BY DEF XIdle, XImport
<1>3. 0 \in 0 .. Meanwhile
  BY XAssumption
<1>4. Restored(XIdle, xfile, xdb, xfresh, xgone)
  BY <1>2 DEF Restored, SpecsBack, DecsBack, RowsBack, RowDone, Passed, RowLoops, Sound
<1> QED BY <1>1, <1>2, <1>3, <1>4 DEF XInit, XInv, XTypeOK

\* Every step keeps the invariant.
LEMMA XNextInv == XInv /\ [XNext]_xVars => XInv'
<1>1. XInv /\ UNCHANGED xVars => XInv'
  BY DEF xVars, xHist, XInv, XTypeOK
<1>2. ASSUME XInv, ImportStops PROVE XInv'
  BY <1>2, FailInv, ImportTypes DEF ImportStops, XBusy, Fail
<1>3. ASSUME XInv, ImportEdge \/ ImportFinding \/ ImportConversation \/ ImportMapping PROVE XInv'
  BY <1>3, ImportRowsInv DEF ImportEdge, ImportFinding, ImportConversation, ImportMapping
<1> QED BY <1>1, <1>2, <1>3, UsersInv, AdvanceInv, ExportInv, ImportInv, FirstPhasesInv, ImportCreateInv,
           ReplayInv, RestoreStageInv, ImportDecisionsInv, ImportSliceInv, NextLoopInv DEF XNext

\* In every reachable state, an import that returned without an error and without
\* a warning has restored what the document holds, but for the changelog after
\* the creation of a spec, the versions of conversations, and edges and findings
\* that users took away meanwhile; and one that returned without an error has
\* mixed it with no spec but those that users created meanwhile, although its
\* calls share no transaction, for any specs, decisions and items.
THEOREM ImportsAreSound == ImportSpec => []ImportSound
<1>1. XInv => ImportSound
  <2> SUFFICES ASSUME XInv PROVE ImportSound
    OBVIOUS
  <2>1. ImportNeverMixes
    BY DEF XInv, Restored, Sound, ImportNeverMixes
  <2>2. CleanImportRestores
    <3> SUFFICES ASSUME ximp.pc = "ok", ~ximp.warned
                 PROVE  /\ Verify(xfile, xdb).specs.missing = {}
                        /\ Verify(xfile, xdb).decisions.missing = {}
                        /\ Verify(xfile, xdb).slices.missing = {}
                        /\ Verify(xfile, xdb).mappings.missing = {}
                        /\ Verify(xfile, xdb).edges.missing \subseteq xgone
                        /\ Verify(xfile, xdb).findings.missing \subseteq xgone
                        /\ \A l \in Verify(xfile, xdb).changelogs.missing : l[2] > 0
                        /\ \A c \in Verify(xfile, xdb).conversations.missing :
                             \E at \in Positions : Conversation(c[2], c[3], at) \in xdb.rows
      BY DEF CleanImportRestores
    <3>1. /\ xfile \in Document /\ xfile.data \in XProject /\ xdb \in XProject
          /\ xfile.data.rows \subseteq XRows
      BY ImportTypes, Parts
    <3>2. /\ Present(xfile.data.specs) \subseteq Present(xdb.specs)
          /\ Present(xfile.data.decs) \subseteq Present(xdb.decs)
          /\ \A l \in xfile.logs : l[1] \in Present(xfile.data.specs)
      BY DEF XInv, Restored, SpecsBack, DecsBack, Sound, validateRefs
    <3>3. \A r \in xfile.data.rows : RowBack(r, xdb, xgone)
      <4>1. \A r \in xfile.data.rows : RowDone(r, ximp)
        BY <3>1, RowShapes DEF RowDone, Passed
      <4> QED BY <4>1 DEF XInv, Restored, RowsBack
    <3>4. \A x, y : compareBySlug(x, y).missing = x \ y
      BY DEF compareBySlug
    <3>5. \A k : /\ CompareKind(xfile, xdb, k).missing \subseteq xfile.data.rows
                 /\ \A r \in CompareKind(xfile, xdb, k).missing : r[1] = k /\ r \notin xdb.rows
      BY <3>4 DEF CompareKind, OfKind
    <3>6. /\ Verify(xfile, xdb).specs = compareBySlug(Present(xfile.data.specs), Present(xdb.specs))
          /\ Verify(xfile, xdb).decisions = compareBySlug(Present(xfile.data.decs), Present(xdb.decs))
          /\ Verify(xfile, xdb).slices = CompareKind(xfile, xdb, "slice")
          /\ Verify(xfile, xdb).edges = CompareKind(xfile, xdb, "edge")
          /\ Verify(xfile, xdb).findings = CompareKind(xfile, xdb, "finding")
          /\ Verify(xfile, xdb).changelogs = compareBySlug(xfile.logs, changelog(xdb))
          /\ Verify(xfile, xdb).conversations = CompareKind(xfile, xdb, "conversation")
          /\ Verify(xfile, xdb).mappings = CompareKind(xfile, xdb, "mapping")
      BY DEF Verify
    <3>7. Verify(xfile, xdb).specs.missing = {} /\ Verify(xfile, xdb).decisions.missing = {}
      BY <3>2, <3>4, <3>6
    <3>8. \A r \in xfile.data.rows :
            /\ r[1] \in {"slice", "mapping"} => r \in xdb.rows
            /\ r[1] \in {"edge", "finding"} => r \in xdb.rows \cup xgone
      BY <3>3 DEF RowBack
    <3>9. Verify(xfile, xdb).slices.missing = {} /\ Verify(xfile, xdb).mappings.missing = {}
      BY <3>5, <3>6, <3>8
    <3>10. Verify(xfile, xdb).edges.missing \subseteq xgone /\ Verify(xfile, xdb).findings.missing \subseteq xgone
      BY <3>5, <3>6, <3>8
    <3>11. ASSUME NEW c \in Verify(xfile, xdb).conversations.missing
           PROVE  \E at \in Positions : Conversation(c[2], c[3], at) \in xdb.rows
      <4>1. c \in xfile.data.rows /\ c[1] = "conversation" /\ c \notin xdb.rows
        BY <3>5, <3>6
      <4> QED BY <3>3, <4>1 DEF RowBack
    <3>12. ASSUME NEW l \in Verify(xfile, xdb).changelogs.missing PROVE l[2] > 0
      <4>1. l \in xfile.logs /\ l \notin changelog(xdb)
        BY <3>4, <3>6
      <4>2. l \in (XSpecs \cup XDecs) \X Positions
        BY <3>1, <4>1 DEF Document
      <4>3. l = <<l[1], l[2]>> /\ l[2] \in 0 .. 8 /\ l[1] \in Present(xdb.specs)
        BY <3>2, <4>1, <4>2, PositionValues
      <4>4. xdb.specs[l[1]].stage \in 0 .. 8
        BY <3>1, <4>3, Parts, PositionValues DEF Present, XSpecRow
      <4>5. l[2] = 0 => l \in changelog(xdb)
        <5> SUFFICES ASSUME l[2] = 0 PROVE l \in changelog(xdb)
          OBVIOUS
        <5>1. l[2] <= xdb.specs[l[1]].stage
          BY <4>4
        <5>2. l \in Present(xdb.specs) \X Positions
          BY <4>2, <4>3
        <5> HIDE DEF Present
        <5> QED BY <4>3, <5>1, <5>2 DEF changelog
      <4> QED BY <4>1, <4>3, <4>5
    <3> QED BY <3>7, <3>9, <3>10, <3>11, <3>12
  <2> QED BY <2>1, <2>2 DEF ImportSound
<1> QED BY <1>1, XInitInv, XNextInv, PTL DEF ImportSpec
-----------------------------------------------------------------------------
(***************************************************************************)
(* The components together.  They share no variable, so that a step of one *)
(* leaves the invariants of the others as they are.                        *)
(***************************************************************************)
ExchangeInv == DriftInv /\ SyncInv /\ XInv

\* The project, the tracker and the document have their types in every state of
\* the composed specification.
THEOREM ExchangeTyped == MCSpec => []ExchangeTypeOK
<1>1. MCInit => ExchangeInv
  BY DriftInitInv, SyncInitInv, XInitInv DEF MCInit, ExchangeInv
<1>2. ExchangeInv /\ [MCNext]_MCVars => ExchangeInv'
  <2> SUFFICES ASSUME ExchangeInv, [MCNext]_MCVars PROVE ExchangeInv'
    OBVIOUS
  <2>1. [DriftNext]_driftVars /\ [SyncNext]_syncVars /\ [XNext]_xVars
    BY DEF MCNext, MCVars
  <2> QED BY <2>1, DriftNextInv, SyncNextInv, XNextInv DEF ExchangeInv
<1>3. ExchangeInv => ExchangeTypeOK
  BY DEF ExchangeInv, DriftInv, SyncInv, XInv, ExchangeTypeOK
<1> QED BY <1>1, <1>2, <1>3, PTL DEF MCSpec
=============================================================================
