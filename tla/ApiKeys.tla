------------------------------ MODULE ApiKeys ------------------------------
(***************************************************************************)
(* The API keys of one account: internal/server/identity_handler.go over   *)
(* internal/storage/postgres/users.go.  The owner mints, rotates and       *)
(* revokes; an administrator creates, rotates, revokes, resynchronises the *)
(* account's role (revoking its keys) and deletes or purges the account.   *)
(*                                                                         *)
(* Postgres is modelled by its row locks: those on the users row, and the  *)
(* one an UPDATE takes on a key's row, whose new value nobody else sees    *)
(* before the commit.  A mint has the users row FOR UPDATE; a deletion     *)
(* only FOR NO KEY UPDATE, for deleted_at is in no key.  The foreign key   *)
(* of an insert into api_keys takes the row FOR KEY SHARE, so it waits for *)
(* a mint but not for a deletion.  A statement that inserts and then       *)
(* commits is one step.  Secrets, prefixes and labels are left out: a      *)
(* prefix collision is retried and changes nothing.                        *)
(***************************************************************************)
EXTENDS Handlers, Naturals, FiniteSets

CONSTANTS
    MaxKeys,    \* bound: keys ever inserted
    Quota,      \* SelfKeys.Quota, the owner's limit
    ListLimit   \* defaultListLimit, the keys that one listing returns

KeyIds == 1 .. MaxKeys

\* Who made a key.
KeyOrigins == {"mint", "admin", "own rotation", "admin rotation"}

ASSUME ApiKeysAssumption == MaxKeys \in Nat /\ Quota \in Nat /\ ListLimit \in Nat /\ None \notin KeyOrigins

VARIABLES
    kAccount,   \* users row: "active", "deleted" (soft) or "purged"
    kUserLock,  \* the request that holds the users row, or None
    kKeys,      \* api_keys
    kReq        \* what each request is doing

kVars == <<kAccount, kUserLock, kKeys, kReq>>

KeyStatus == {"none", "active", "expired", "revoked"}
NoKey == [status |-> "none", by |-> None, from |-> 0, lock |-> None]
KIdle == [op |-> None, key |-> 0, step |-> "idle", seen |-> {}]

KTypeOK ==
    /\ kAccount \in {"active", "deleted", "purged"}
    /\ kUserLock \in Requests \cup {None}
    /\ \A k \in KeyIds :
         /\ kKeys[k].status \in KeyStatus
         /\ kKeys[k].by \in KeyOrigins \cup {None}
         /\ kKeys[k].from \in 0 .. k - 1
         /\ kKeys[k].lock \in Requests \cup {None}
    /\ \A q \in Requests : kReq[q].key \in 0 .. MaxKeys /\ kReq[q].seen \subseteq KeyIds

KInit ==
    /\ kAccount = "active"
    /\ kUserLock = None
    /\ kKeys = [k \in KeyIds |-> NoKey]
    /\ kReq = [q \in Requests |-> KIdle]

----------------------------------------------------------------------------
Unrevoked(k) == kKeys[k].status \in {"active", "expired"}
FreeRow(q, k) == kKeys[k].lock \in {None, q}
FreeUser(q) == kUserLock \in {None, q}
FreeForKey(q) == \A r \in Requests \ {q} : kUserLock = r => kReq[r].op = "delete"
Fresh == CHOOSE k \in KeyIds : kKeys[k].status = "none" /\ \A j \in 1 .. k - 1 : kKeys[j].status # "none"
Room == \E k \in KeyIds : kKeys[k].status = "none"

\* Commit or rollback of the transaction that holds rows for an update.
Settled(keys, q, committed) ==
    [k \in KeyIds |->
        IF keys[k].lock # q THEN keys[k]
        ELSE [keys[k] EXCEPT !.lock = None, !.status = IF committed THEN "revoked" ELSE @]]
KDone(q) ==
    /\ kReq' = [kReq EXCEPT ![q] = KIdle]
    /\ kUserLock' = IF kUserLock = q THEN None ELSE kUserLock

Inserted(by, from) == [kKeys EXCEPT ![Fresh] = [status |-> "active", by |-> by, from |-> from, lock |-> None]]
RevokedIn(ids) ==
    [k \in KeyIds |-> IF k \in ids /\ Unrevoked(k) THEN [kKeys[k] EXCEPT !.status = "revoked"] ELSE kKeys[k]]

\* A handler starts.  The expiry, the role floor and the rate limit are checked
\* here; a request that they turn away changes nothing.
Begin(q, op, key, step) ==
    /\ kReq[q].step = "idle"
    /\ kReq' = [kReq EXCEPT ![q] = [KIdle EXCEPT !.op = op, !.key = key, !.step = step]]
    /\ UNCHANGED <<kAccount, kUserLock, kKeys>>

CreateMyAPIKey(q) == Begin(q, "mint", 0, "lock user")
RotateMyAPIKey(q, k) == kKeys[k].status # "none" /\ Begin(q, "own rotation", k, "revoke old")
RotateAPIKeyRequest(q, k) == kKeys[k].status # "none" /\ Begin(q, "admin rotation", k, "read old")
SoftDeleteUser(q) == kAccount # "purged" /\ Begin(q, "delete", 0, "delete user")
ResyncUserRole(q) == kAccount = "active" /\ FreeUser(q) /\ Begin(q, "resync", 0, "list keys")

\* A call fails: its transaction is undone, and what a resynchronisation has not
\* revoked yet stays.
Fail(q) ==
    /\ kReq[q].step # "idle"
    /\ kKeys' = Settled(kKeys, q, FALSE)
    /\ KDone(q)
    /\ UNCHANGED kAccount

----------------------------------------------------------------------------
(* CreateAPIKeyForUser: lock the owner's row, count, insert.               *)

\* Mutant: the owner's row is read but not locked.
LockUserUnlocked(q) ==
    /\ kReq[q].step = "lock user"
    /\ FreeUser(q)
    /\ IF kAccount = "active"
       THEN kUserLock' = kUserLock /\ kReq' = [kReq EXCEPT ![q].step = "count"]
       ELSE KDone(q)
    /\ UNCHANGED <<kAccount, kKeys>>

LockUser(q) ==
    /\ kReq[q].step = "lock user"
    /\ FreeUser(q)
    /\ IF kAccount = "active"
       THEN kUserLock' = q /\ kReq' = [kReq EXCEPT ![q].step = "count"]
       ELSE KDone(q)
    /\ UNCHANGED <<kAccount, kKeys>>

\* Keys that are neither revoked nor expired, whoever created them.
CountActiveAPIKeys == Cardinality({k \in KeyIds : kKeys[k].status = "active"})

CountKeys(q) ==
    /\ kReq[q].step = "count"
    /\ IF CountActiveAPIKeys >= Quota
       THEN KDone(q)
       ELSE kReq' = [kReq EXCEPT ![q].step = "insert"] /\ UNCHANGED kUserLock
    /\ UNCHANGED <<kAccount, kKeys>>

CreateAPIKeyForUser(q) ==
    /\ kReq[q].op = "mint" /\ kReq[q].step = "insert"
    /\ Room
    /\ kKeys' = IF kAccount = "active" THEN Inserted("mint", 0) ELSE kKeys
    /\ KDone(q)
    /\ UNCHANGED kAccount

----------------------------------------------------------------------------
(* Rotation: revoke the old key and insert its successor in one            *)
(* transaction.                                                            *)

\* RotateAPIKeyForUser: no row updated means not found.
OwnRevoke(q) ==
    /\ kReq[q].op = "own rotation" /\ kReq[q].step = "revoke old"
    /\ FreeRow(q, kReq[q].key)
    /\ IF Unrevoked(kReq[q].key)
       THEN /\ kKeys' = [kKeys EXCEPT ![kReq[q].key].lock = q]
            /\ kReq' = [kReq EXCEPT ![q].step = "insert"]
            /\ UNCHANGED kUserLock
       ELSE KDone(q) /\ UNCHANGED kKeys
    /\ UNCHANGED kAccount

\* RotateAPIKey reads the old key without a lock ...
AdminReadOld(q) ==
    /\ kReq[q].step = "read old"
    /\ IF Unrevoked(kReq[q].key) THEN kReq' = [kReq EXCEPT ![q].step = "revoke old"] /\ UNCHANGED kUserLock
                                 ELSE KDone(q)
    /\ UNCHANGED <<kAccount, kKeys>>

\* ... and revokes it, if it still is unrevoked, without counting the rows.
AdminRevoke(q) ==
    /\ kReq[q].op = "admin rotation" /\ kReq[q].step = "revoke old"
    /\ FreeRow(q, kReq[q].key)
    /\ kKeys' = IF Unrevoked(kReq[q].key)
                THEN [kKeys EXCEPT ![kReq[q].key].lock = q]
                ELSE kKeys
    /\ kReq' = [kReq EXCEPT ![q].step = "insert"]
    /\ UNCHANGED <<kAccount, kUserLock>>

\* The successor is inserted whether the account is active or not; the foreign
\* key only asks that the row exist.
RotateInsert(q) ==
    /\ kReq[q].op \in {"own rotation", "admin rotation"} /\ kReq[q].step = "insert"
    /\ FreeForKey(q)
    /\ Room
    /\ kKeys' = IF kAccount # "purged" THEN Settled(Inserted(kReq[q].op, kReq[q].key), q, TRUE) ELSE Settled(kKeys, q, FALSE)
    /\ KDone(q)
    /\ UNCHANGED kAccount

----------------------------------------------------------------------------
(* Single statements.                                                      *)

\* The statement's snapshot has an active owner ...
CreateAPIKey(q) == kAccount = "active" /\ Begin(q, "admin", 0, "insert")

\* ... and by the time its foreign key is checked the row need only exist.
InsertAPIKey(q) ==
    /\ kReq[q].op = "admin" /\ kReq[q].step = "insert"
    /\ FreeForKey(q)
    /\ Room
    /\ kKeys' = IF kAccount # "purged" THEN Inserted("admin", 0) ELSE kKeys
    /\ KDone(q)
    /\ UNCHANGED kAccount

\* RevokeAPIKey and RevokeAPIKeyForUser.
RevokeAPIKey(q, k) ==
    /\ kReq[q].step = "idle"
    /\ Unrevoked(k) /\ FreeRow(q, k)
    /\ kKeys' = RevokedIn({k})
    /\ UNCHANGED <<kAccount, kUserLock, kReq>>

\* The row goes, and the keys with it.
PurgeUser(q) ==
    /\ kReq[q].step = "idle"
    /\ kAccount # "purged" /\ FreeUser(q) /\ \A k \in KeyIds : FreeRow(q, k)
    /\ kAccount' = "purged"
    /\ kKeys' = RevokedIn(KeyIds)
    /\ UNCHANGED <<kUserLock, kReq>>

\* Time passes a key's expires_at.
Expire(k) ==
    /\ kKeys[k].status = "active"
    /\ kKeys' = [kKeys EXCEPT ![k].status = "expired"]
    /\ UNCHANGED <<kAccount, kUserLock, kReq>>

----------------------------------------------------------------------------
(* SoftDeleteUser and ResyncUserRole revoke the keys that one statement    *)
(* saw.                                                                    *)

\* No row matches, and none is locked, when the account is deleted already.
DeleteUser(q) ==
    /\ kReq[q].step = "delete user"
    /\ FreeUser(q)
    /\ kUserLock' = IF kAccount = "active" THEN q ELSE kUserLock
    /\ kReq' = [kReq EXCEPT ![q].step = "snapshot keys"]
    /\ UNCHANGED <<kAccount, kKeys>>

AllUnrevoked == {k \in KeyIds : Unrevoked(k)}

\* The snapshot of the statement that revokes every key of a deleted account.
SnapshotKeys(q) ==
    /\ kReq[q].step = "snapshot keys"
    /\ kReq' = [kReq EXCEPT ![q].seen = AllUnrevoked, ![q].step = "revoke all"]
    /\ UNCHANGED <<kAccount, kUserLock, kKeys>>

\* ListAPIKeys returns no more than its limit, the newest by a created_at that
\* concurrent inserts do not take in order; of those the inactive are skipped.
ListAPIKeys(q) ==
    /\ kReq[q].step = "list keys"
    /\ \E listed \in SUBSET AllUnrevoked :
         /\ Cardinality(listed) <= ListLimit /\ (listed = AllUnrevoked \/ Cardinality(listed) = ListLimit)
         /\ kReq' = [kReq EXCEPT ![q].seen = {k \in listed : kKeys[k].status = "active"},
                                 ![q].step = "revoke each"]
    /\ UNCHANGED <<kAccount, kUserLock, kKeys>>

DeleteCommit(q) ==
    /\ kReq[q].step = "revoke all"
    /\ \A k \in kReq[q].seen : FreeRow(q, k)
    /\ kKeys' = RevokedIn(kReq[q].seen)
    /\ kAccount' = IF kAccount = "active" THEN "deleted" ELSE kAccount
    /\ KDone(q)

\* ResyncUserRole revokes key by key, each in its own statement.
ResyncRevoke(q) ==
    /\ kReq[q].step = "revoke each"
    /\ \/ /\ kReq[q].seen = {}
          /\ KDone(q) /\ UNCHANGED kKeys
       \/ \E k \in kReq[q].seen :
            /\ FreeRow(q, k)
            /\ kKeys' = RevokedIn({k})
            /\ kReq' = [kReq EXCEPT ![q].seen = @ \ {k}]
            /\ UNCHANGED kUserLock
    /\ UNCHANGED kAccount

KNext ==
    \/ \E q \in Requests :
         \/ CreateMyAPIKey(q) \/ LockUser(q) \/ CountKeys(q) \/ CreateAPIKeyForUser(q)
         \/ OwnRevoke(q) \/ AdminReadOld(q) \/ AdminRevoke(q) \/ RotateInsert(q) \/ Fail(q)
         \/ CreateAPIKey(q) \/ InsertAPIKey(q) \/ PurgeUser(q) \/ SoftDeleteUser(q) \/ ResyncUserRole(q)
         \/ DeleteUser(q) \/ SnapshotKeys(q) \/ DeleteCommit(q) \/ ListAPIKeys(q) \/ ResyncRevoke(q)
         \/ \E k \in KeyIds : RotateMyAPIKey(q, k) \/ RotateAPIKeyRequest(q, k) \/ RevokeAPIKey(q, k)
    \/ \E k \in KeyIds : Expire(k)

KSpec == KInit /\ [][KNext]_kVars

----------------------------------------------------------------------------
ActiveBy(kinds) == {k \in KeyIds : kKeys[k].status = "active" /\ kKeys[k].by \in kinds}

\* The keys that the owner minted and that are still active.
MintsInQuota == Cardinality(ActiveBy({"mint"})) <= Quota

\* users.go RotateAPIKeyForUser: of several rotations of one key by its owner,
\* whatever runs in between, at most one gets a successor.
RotatedOnce ==
    \A j, k \in KeyIds :
        (kKeys[j].by = "own rotation" /\ kKeys[k].by = "own rotation" /\ kKeys[j].from = kKeys[k].from) => j = k

\* users.go CreateAPIKeyForUser, RotateAPIKeyForUser: however many mints and
\* rotations of one owner run at once, the count and the insert of a mint never
\* interleave, so mints stay within the quota, and a rotated key has at most one
\* successor, so rotations do not multiply keys either.
QuotaHolds == MintsInQuota /\ RotatedOnce

\* The keys that the rows stand for, once the transactions at them are over, and
\* the deletions that have looked at them and not committed.
statusOf == [k \in KeyIds |-> kKeys[k].status]
makerOf == [k \in KeyIds |-> kKeys[k].by]
sourceOf == [k \in KeyIds |-> kKeys[k].from]
endingNow == {q \in Requests : kReq[q].step = "revoke all"}
sawOf == [q \in Requests |-> IF q \in endingNow THEN kReq[q].seen ELSE {}]

Ring == INSTANCE KeyRing WITH
    account <- kAccount, status <- statusOf, maker <- makerOf, source <- sourceOf,
    ending <- endingNow, saw <- sawOf, Enders <- Requests

\* The statements of concurrent requests implement the account's keys: a mint is
\* still below the quota when it inserts, whoever else creates and rotates, and
\* never comes between a deletion's look and its end; a rotation revokes the old
\* key exactly when the successor comes; a deletion revokes every key it saw that
\* others have left.  It does not revoke the keys that an administrator's create
\* or a rotation inserts past its look, which the code does not make wait: see
\* KeyRing.
ImplementsKeyRing == Ring!Spec
=============================================================================
