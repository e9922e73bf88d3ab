------------------------------ MODULE KeyRing -------------------------------
(***************************************************************************)
(* What the keys of an account promise, whatever the statements that       *)
(* implement it: a key comes from its owner only while fewer keys are      *)
(* active than the quota allows, and never while a deletion of the account *)
(* is under way; a rotation retires a key and brings its successor in one  *)
(* step, and retires no key twice; a deletion retires every key that it    *)
(* found in use; a revoked key stays revoked, and after the account is     *)
(* purged no key comes.                                                    *)
(*                                                                         *)
(* It is not promised that a deletion leaves no key: one that an           *)
(* administrator creates, or that a rotation brings, after the deletion    *)
(* has looked stays active on the deleted account, and so does one that    *)
(* comes by rotation later.  What such a key opens is Bearers' business,   *)
(* where every credential of a deleted account is refused.                 *)
(***************************************************************************)
EXTENDS Naturals, FiniteSets

CONSTANTS KeyIds, Quota, None,
    Enders     \* who may delete the account

VARIABLES
    account,   \* "active", "deleted" or "purged"
    status,    \* of each key
    maker,     \* what it came by
    source,    \* the key it came from, or 0
    ending,    \* the deletions that have looked at the keys
    saw        \* the keys that each of them found in use

ends == <<ending, saw>>
ringVars == <<account, status, maker, source, ends>>

Init ==
    /\ account = "active"
    /\ status = [k \in KeyIds |-> "none"]
    /\ maker = [k \in KeyIds |-> None]
    /\ source = [k \in KeyIds |-> 0]
    /\ ending = {}
    /\ saw = [q \in Enders |-> {}]

InUse(k) == status[k] \in {"active", "expired"}
Active == {k \in KeyIds : status[k] = "active"}

\* A key comes, by some way and from some key, and the others are as given.
Comes(k) == status[k] = "none" /\ status'[k] = "active"
Made(k, by, from, others) ==
    /\ status' = [others EXCEPT ![k] = "active"]
    /\ maker' = [maker EXCEPT ![k] = by]
    /\ source' = [source EXCEPT ![k] = from]
    /\ UNCHANGED <<account, ends>>

Mint(k) ==
    /\ account = "active" /\ ending = {}
    /\ Cardinality(Active) < Quota
    /\ Made(k, "mint", 0, status)
Create(k) == account # "purged" /\ Made(k, "admin", 0, status)

Rotate(k, old, by) ==
    /\ account # "purged" /\ InUse(old)
    /\ Made(k, by, old, [status EXCEPT ![old] = "revoked"])

\* The administrator may still replace a key that is no more.
Replace(k, old) == account # "purged" /\ status[old] = "revoked" /\ Made(k, "admin rotation", old, status)

\* Keys go on to another status, all of those in a set.
Become(keys, new) ==
    /\ status' = [k \in KeyIds |-> IF k \in keys THEN new ELSE status[k]]
    /\ UNCHANGED <<maker, source>>

Revoke(k) == InUse(k) /\ Become({k}, "revoked") /\ UNCHANGED <<account, ends>>
Expire(k) == status[k] = "active" /\ Become({k}, "expired") /\ UNCHANGED <<account, ends>>

Purge == account' = "purged" /\ Become({k \in KeyIds : InUse(k)}, "revoked") /\ UNCHANGED ends

\* A deletion looks, and later revokes what it saw or gives up.
Look(q) ==
    /\ q \notin ending
    /\ ending' = ending \cup {q}
    /\ saw' = [saw EXCEPT ![q] = {k \in KeyIds : InUse(k)}]
    /\ UNCHANGED <<account, status, maker, source>>

Over(q) == q \in ending /\ ending' = ending \ {q} /\ saw' = [saw EXCEPT ![q] = {}]

Delete(q) ==
    /\ Over(q)
    /\ account' = IF account = "active" THEN "deleted" ELSE account
    /\ Become({k \in KeyIds : k \in saw[q] /\ InUse(k)}, "revoked")
GiveUp(q) == Over(q) /\ UNCHANGED <<account, status, maker, source>>

Next ==
    \/ \E k \in KeyIds :
         /\ Comes(k)
         /\ \/ Mint(k) \/ Create(k)
            \/ \E old \in KeyIds :
                 Replace(k, old) \/ \E by \in {"own rotation", "admin rotation"} : Rotate(k, old, by)
    \/ \E k \in KeyIds : Revoke(k) \/ Expire(k)
    \/ Purge
    \/ \E q \in Enders : Look(q) \/ Delete(q) \/ GiveUp(q)

Spec == Init /\ [][Next]_ringVars
=============================================================================
