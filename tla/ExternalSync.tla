---------------------------- MODULE ExternalSync ----------------------------
(***************************************************************************)
(* Pushing specs to an external tracker (GitHub issues or beads) and       *)
(* remembering which item stands for which spec.                           *)
(* internal/server/sync_handler.go, internal/sync/github.go and beads.go,  *)
(* internal/storage/postgres/sync.go.                                      *)
(*                                                                         *)
(* The tracker and the database fail on their own: a command may fail      *)
(* before or after it took effect.  The tracker's search is a search of    *)
(* words in the titles of open items, one hit at most, and nobody compares *)
(* the title of the hit: it may miss the spec's item (closed, or not in    *)
(* the index yet) and it may return another's.                             *)
(***************************************************************************)
EXTENDS Handlers, Naturals, FiniteSets

CONSTANTS
    SyncedSpecs,  \* specs that a sync lists
    Items,        \* external items that exist or may come to exist
    Strangers     \* those that are there already and stand for no spec

ASSUME ExternalSyncAssumption ==
    /\ None \notin SyncedSpecs \cup Items \cup {"stranger"}
    /\ "stranger" \notin SyncedSpecs
    /\ Strangers \subseteq Items

VARIABLES
    item,      \* what each external item stands for, None if not created
    mapping,   \* sync_mappings: the item of each spec, None without a row
    syncReq,   \* what each sync request is doing
    overlap,   \* history: specs that two requests pushed after the same search
    missed,    \* history: specs whose item a search did not return
    strayed    \* history: specs for which a search returned another's item

searches == <<overlap, missed, strayed>>
syncVars == <<item, mapping, syncReq, searches>>

\* reported: the specs whose result says synced or already synced; the others
\* are pending (a dry run) or an error.
SyncRequest ==
    [pc : {"idle", "next", "check", "search", "push", "map", "remap"},
     dryRun : BOOLEAN, todo : SUBSET SyncedSpecs, spec : SyncedSpecs \cup {None},
     ext : Items \cup {None}, reported : SUBSET SyncedSpecs]

SyncIdle == [pc |-> "idle", dryRun |-> FALSE, todo |-> {}, spec |-> None,
             ext |-> None, reported |-> {}]

SyncTypeOK ==
    /\ item \in [Items -> SyncedSpecs \cup {None, "stranger"}]
    /\ mapping \in [SyncedSpecs -> Items \cup {None}]
    /\ syncReq \in [Requests -> SyncRequest]
    /\ overlap \subseteq SyncedSpecs /\ missed \subseteq SyncedSpecs
    /\ strayed \subseteq SyncedSpecs

SyncInit ==
    /\ item = [i \in Items |-> IF i \in Strangers THEN "stranger" ELSE None]
    /\ mapping = [s \in SyncedSpecs |-> None]
    /\ syncReq = [r \in Requests |-> SyncIdle]
    /\ overlap = {} /\ missed = {} /\ strayed = {}
-----------------------------------------------------------------------------
SyncGo(r, fields) == syncReq' = [syncReq EXCEPT ![r] = fields]
ItemsOf(s) == {i \in Items : item[i] = s}

\* The result of one spec; the loop goes on with the next.
Result(q, synced) ==
    [q EXCEPT !.pc = "next", !.reported = @ \cup synced, !.spec = None, !.ext = None]
ResultSynced(q) == Result(q, {q.spec})
ResultOther(q) == Result(q, {})

\* SyncGitHub or SyncBeads with the adapter available: the specs are listed.
SyncStart(r) ==
    /\ syncReq[r].pc \in {"idle", "next"} /\ syncReq[r].todo = {}
    /\ \E dry \in BOOLEAN, todo \in SUBSET SyncedSpecs :
         SyncGo(r, [SyncIdle EXCEPT !.pc = "next", !.dryRun = dry, !.todo = todo])
    /\ UNCHANGED <<item, mapping, searches>>

\* The client is gone and the server with it: the request ends where it is.
SyncLost(r) ==
    /\ syncReq[r].pc # "idle"
    /\ SyncGo(r, SyncIdle)
    /\ UNCHANGED <<item, mapping, searches>>

SyncNextSpec(r) ==
    /\ syncReq[r].pc = "next"
    /\ \E s \in syncReq[r].todo :
         SyncGo(r, [syncReq[r] EXCEPT !.pc = "check", !.spec = s, !.todo = @ \ {s}])
    /\ UNCHANGED <<item, mapping, searches>>

\* GetSyncMapping, which may fail.
GetSyncMapping(r) ==
    LET q == syncReq[r] IN
    /\ q.pc = "check"
    /\ \/ SyncGo(r, ResultOther(q))
       \/ mapping[q.spec] # None /\ SyncGo(r, ResultSynced(q))
       \/ mapping[q.spec] = None /\ q.dryRun /\ SyncGo(r, ResultOther(q))
       \/ /\ mapping[q.spec] = None /\ ~q.dryRun
          /\ SyncGo(r, [q EXCEPT !.pc = "search"])
    /\ UNCHANGED <<item, mapping, searches>>

\* Mutant: the item is created without looking for one first.
FindWithoutSearch(s) == {[hit |-> None, missed |-> {}, strayed |-> {}]}

\* What the search for the item of s may answer, with what is wrong about it.
Find(s) ==
    {[hit |-> h,
      missed |-> IF h = None /\ ItemsOf(s) # {} THEN {s} ELSE {},
      strayed |-> IF h # None /\ h \notin ItemsOf(s) THEN {s} ELSE {}] :
        h \in {i \in Items : item[i] # None} \cup {None}}

\* FindOrCreate up to its Push: whatever the search returns is the item.
FindOrCreate(r) ==
    LET q == syncReq[r] IN
    /\ q.pc = "search"
    /\ \/ SyncGo(r, ResultOther(q)) /\ UNCHANGED searches
       \/ \E answer \in Find(q.spec) :
            /\ missed' = missed \cup answer.missed
            /\ strayed' = strayed \cup answer.strayed
            /\ \/ /\ answer.hit # None
                  /\ SyncGo(r, [q EXCEPT !.pc = "map", !.ext = answer.hit])
                  /\ UNCHANGED overlap
               \/ /\ answer.hit = None
                  /\ SyncGo(r, [q EXCEPT !.pc = "push"])
                  /\ overlap' = overlap \cup
                       {s \in {q.spec} : \E o \in Requests \ {r} :
                                            syncReq[o].pc = "push" /\ syncReq[o].spec = s}
    /\ UNCHANGED <<item, mapping>>

\* Push: the item is created or not, and if it is, the answer may be lost.
Push(r) ==
    LET q == syncReq[r] IN
    /\ q.pc = "push"
    /\ \/ SyncGo(r, ResultOther(q)) /\ UNCHANGED item
       \/ \E i \in Items :
            /\ item[i] = None
            /\ item' = [item EXCEPT ![i] = q.spec]
            /\ \/ SyncGo(r, [q EXCEPT !.pc = "map", !.ext = i])
               \/ SyncGo(r, ResultOther(q))
    /\ UNCHANGED <<mapping, searches>>

\* After a failed CreateSyncMapping: one retry, then an error.
AfterFailure(q) == IF q.pc = "map" THEN [q EXCEPT !.pc = "remap"]
                                   ELSE ResultOther(q)

\* CreateSyncMapping and its retry.  The unique key decides between two
\* requests; the statement may fail after it took effect, or the context may be
\* cancelled, which skips the retry.
CreateSyncMapping(r) ==
    LET q == syncReq[r]
        write == mapping' = [mapping EXCEPT ![q.spec] = q.ext]
    IN
    /\ q.pc \in {"map", "remap"}
    /\ \/ mapping[q.spec] = None /\ write /\ SyncGo(r, ResultSynced(q))
       \/ /\ mapping[q.spec] # None /\ UNCHANGED mapping
          /\ SyncGo(r, ResultSynced(q))
       \/ /\ mapping[q.spec] = None
          /\ write \/ UNCHANGED mapping
          /\ SyncGo(r, AfterFailure(q)) \/ SyncGo(r, ResultOther(q))
    /\ UNCHANGED <<item, searches>>

SyncNext ==
    \E r \in Requests :
        \/ SyncStart(r) \/ SyncLost(r) \/ SyncNextSpec(r) \/ GetSyncMapping(r)
        \/ FindOrCreate(r) \/ Push(r) \/ CreateSyncMapping(r)

SyncSpec == SyncInit /\ [][SyncNext]_syncVars
-----------------------------------------------------------------------------
(***************************************************************************)
(* Safety.                                                                 *)
(***************************************************************************)

\* Lost answers, lost requests, failed statements and retries make no second
\* item for a spec.  Only two requests that search before either pushes, or a
\* search that does not return the first item, can make two.
DuplicatesHaveCause ==
    \A s \in SyncedSpecs \ (overlap \cup missed) : Cardinality(ItemsOf(s)) <= 1

\* A spec reported as synced or as already synced has a mapping, to an item that
\* exists, and it is the spec's own unless a search for it returned another's.
ReportedSyncedIsMapped ==
    \A r \in Requests : \A s \in syncReq[r].reported :
        /\ mapping[s] # None /\ item[mapping[s]] # None
        /\ s \notin strayed => item[mapping[s]] = s

\* sync_handler.go: whatever is lost, fails, is retried or overlaps, one item
\* stands for a spec unless two requests raced or the tracker's search missed
\* it, and a result that says synced is backed by a mapping to an item, which is
\* the spec's own unless the search returned another's.
SyncedOnce == DuplicatesHaveCause /\ ReportedSyncedIsMapped
=============================================================================
