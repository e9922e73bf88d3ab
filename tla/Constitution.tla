---------------------------- MODULE Constitution ----------------------------
(***************************************************************************)
(* The layered constitution: internal/constitution (merge, load, hash),    *)
(* internal/server/constitution_handler.go and                             *)
(* internal/storage/postgres/constitution.go.                              *)
(*                                                                         *)
(* First the merge of the layers: the loop of merge.Layers, a step for     *)
(* each entry that a layer has, whose result after any number of them is   *)
(* compared with what "the most specific layer wins" means.  Then the      *)
(* stored layers, which clients write and which are refreshed from a       *)
(* remote source that changes, by requests that run side by side.  A       *)
(* stored layer's content is told apart by what its document says of one   *)
(* keyed entry.                                                            *)
(***************************************************************************)
EXTENDS Handlers, Naturals, SequencesExt

CONSTANTS
    CLayers,     \* the layers that are written, a subset of the four
    SentLayers,  \* those that a client also writes with a source of its own
    SentHashes,  \* the hashes that such a client's message may bring
    MergeKeys,   \* IDs, patterns, paths, strings and map keys; "" is one left out
    MergeTexts,  \* what an entry says beside its key
    MaxSaid      \* bound: entries that one merge reads

\* GetAllLayers: ORDER BY the layer, the most specific last.
LayerOrder == [user |-> 1, org |-> 2, project |-> 3, domain |-> 4]

ASSUME LayersAssumption ==
    /\ CLayers \subseteq DOMAIN LayerOrder /\ SentLayers \subseteq CLayers
    /\ SentHashes \subseteq {"h0", "h1", "h2"} /\ MaxSaid \in Nat

\* What a document may say of the entry, and what is stored of it.
Documents == {"none", "v1", "$delete"}
Entries == {"none", "v1", "blank"}

VARIABLES
    cSaid,     \* history: the entries that the merge has read
    cMerged,   \* what the merge has made of them
    cRemote,   \* the document at the source's URL
    cRows,     \* constitutions: one row per layer
    cGiven,    \* history: the layers whose hash came with a client's message
    cReq       \* what each request is doing

coVars == <<cSaid, cMerged, cRemote, cRows, cGiven, cReq>>

----------------------------------------------------------------------------
(* merge.Layers.  The keyed lists, the string lists and the scalars and    *)
(* maps share nothing, so one entry stands for an element of each; only    *)
(* keyed lists have tombstones.                                            *)

Mentions == [layer : CLayers, key : MergeKeys, text : MergeTexts, delete : {FALSE}]
            \cup [layer : CLayers, key : MergeKeys, text : {""}, delete : {TRUE}]

\* A map with its provenance, and the order in which its keys came.
Acc == [value |-> <<>>, from |-> <<>>, order |-> <<>>]
NothingMerged == [keyed |-> Acc, list |-> Acc, scalar |-> Acc]

Put(f, k, v) == [x \in DOMAIN f \cup {k} |-> IF x = k THEN v ELSE f[x]]
Drop(f, k) == [x \in DOMAIN f \ {k} |-> f[x]]

\* Scalars and maps: the later layer overwrites value and provenance.
MergeScalar(acc, e) ==
    [value |-> Put(acc.value, e.key, e), from |-> Put(acc.from, e.key, e.layer), order |-> acc.order]

\* String lists: the union; the first layer that has a string is its provenance.
MergeList(acc, e) ==
    IF e.key \in DOMAIN acc.from THEN acc
    ELSE [value |-> Put(acc.value, e.key, e), from |-> Put(acc.from, e.key, e.layer),
          order |-> Append(acc.order, e.key)]

\* Mutant: a tombstone leaves the entry's place in the order.
MergeKeyedKeepingOrder(acc, e) ==
    IF e.key = "" THEN acc
    ELSE IF e.delete
    THEN [acc EXCEPT !.value = Drop(acc.value, e.key), !.from = Drop(acc.from, e.key)]
    ELSE [value |-> Put(acc.value, e.key, e), from |-> Put(acc.from, e.key, e.layer),
          order |-> IF e.key \in ToSet(acc.order) THEN acc.order ELSE Append(acc.order, e.key)]

\* Keyed lists: the later layer overwrites the entry where it stands; a tombstone
\* removes the entry, its provenance and its place.
MergeKeyed(acc, e) ==
    IF e.key = "" \/ (e.delete /\ e.key \notin DOMAIN acc.value) THEN acc
    ELSE IF e.delete
    THEN [value |-> Drop(acc.value, e.key), from |-> Drop(acc.from, e.key), order |-> RemoveFirst(acc.order, e.key)]
    ELSE [value |-> Put(acc.value, e.key, e), from |-> Put(acc.from, e.key, e.layer),
          order |-> IF e.key \in DOMAIN acc.value THEN acc.order ELSE Append(acc.order, e.key)]

\* The slices are rebuilt from the keys in their order; a key that the map has not
\* gives Go's zero value.
ZeroEntry == [layer |-> "", key |-> "", text |-> "", delete |-> FALSE]
Rebuilt(acc) ==
    [i \in 1 .. Len(acc.order) |->
        IF acc.order[i] \in DOMAIN acc.value THEN acc.value[acc.order[i]] ELSE ZeroEntry]

----------------------------------------------------------------------------
(* The stored layers.                                                      *)

NoConstitution == [there |-> FALSE, entry |-> "none", url |-> FALSE, hash |-> "none"]
CIdle == [step |-> "idle", layer |-> None, doc |-> "none", dry |-> FALSE]

\* The hash of a parsed document: equal for equal documents, and never the
\* empty string that a layer without a source has.
Hash(entry) == [none |-> "h0", v1 |-> "h1", blank |-> "h2"][entry]
Hashes == {"none", "h0", "h1", "h2"}

CoTypeOK ==
    /\ cSaid \in Seq(Mentions) /\ Len(cSaid) <= MaxSaid
    /\ cMerged.keyed.order \in Seq(MergeKeys) /\ cMerged.list.order \in Seq(MergeKeys)
    /\ cMerged.scalar.order = <<>>
    /\ cRemote \in Documents
    /\ \A l \in CLayers :
         /\ cRows[l].there \in BOOLEAN /\ cRows[l].entry \in Entries /\ cRows[l].url \in BOOLEAN
         /\ cRows[l].hash \in Hashes
    /\ cGiven \subseteq CLayers
    /\ \A q \in Requests :
         /\ cReq[q].step \in {"idle", "fetched", "write", "unchanged", "would change", "changed"}
         /\ cReq[q].layer \in CLayers \cup {None} /\ cReq[q].doc \in Documents

CoInit ==
    /\ cSaid = <<>> /\ cMerged = NothingMerged
    /\ cRemote \in Documents
    /\ cRows = [l \in CLayers |-> NoConstitution] /\ cGiven = {}
    /\ cReq = [q \in Requests |-> CIdle]

\* GetConstitution of any stored layers: the loop comes to the next entry, of the
\* same layer or a more specific one.  A merge that could go on may also be over.
\* It is a function of the layers it read, so it is looked at by itself.
MergeLayers(e) ==
    /\ cRemote = "none" /\ cRows = [l \in CLayers |-> NoConstitution] /\ cReq = [q \in Requests |-> CIdle]
    /\ Len(cSaid) < MaxSaid
    /\ cSaid # <<>> => LayerOrder[cSaid[Len(cSaid)].layer] <= LayerOrder[e.layer]
    /\ cSaid' = Append(cSaid, e)
    /\ cMerged' = [keyed |-> MergeKeyed(cMerged.keyed, e),
                   list |-> IF e.delete THEN cMerged.list ELSE MergeList(cMerged.list, e),
                   scalar |-> IF e.delete THEN cMerged.scalar ELSE MergeScalar(cMerged.scalar, e)]
    /\ UNCHANGED <<cRemote, cRows, cGiven, cReq>>

\* FromYAML: the parser knows no `$delete` and ignores it, so such an entry is
\* one that has its key and nothing else.
FromYAML(doc) == IF doc = "$delete" THEN "blank" ELSE doc

\* Mutant: an update keeps the source and the hash that the row has.
UpsertedKeepingSource(row, entry, url, hash) ==
    [row EXCEPT !.there = TRUE, !.entry = entry,
                !.url = @ \/ url, !.hash = IF url THEN hash ELSE @]

\* UpdateConstitution: one statement, whatever the row was.
Upserted(row, entry, url, hash) == [there |-> TRUE, entry |-> entry, url |-> url, hash |-> hash]

\* UpdateConstitution: the source and the hash are stored as the message has
\* them, whatever the content beside them is.
UpdateConstitution(l, entry, url, hash) ==
    /\ cSaid = <<>>
    /\ cRows' = [cRows EXCEPT ![l] = Upserted(@, entry, url, hash)]
    /\ cGiven' = IF hash = "none" THEN cGiven \ {l} ELSE cGiven \cup {l}
    /\ UNCHANGED <<cSaid, cMerged, cRemote, cReq>>

\* `constitution import` of a file, and the constitution tool: what is parsed has
\* no source and no hash.
importConstitution(l, doc) == UpdateConstitution(l, FromYAML(doc), FALSE, "none")

SourceChanges ==
    /\ cSaid = <<>>
    /\ cRemote' \in Documents \ {cRemote}
    /\ UNCHANGED <<cSaid, cMerged, cRows, cGiven, cReq>>

\* The document as it is at the source at that moment.  A URL that is refused and
\* a download that fails end the request.
Fetch(l, dry) == [step |-> "fetched", layer |-> l, doc |-> cRemote, dry |-> dry]

\* RefreshConstitutionLayer: fetch, parse and hash; a failure ends it.  The
\* command `constitution sync` refreshes layers that have a source.
RefreshConstitutionLayer(q, l, dry) ==
    /\ cSaid = <<>>
    /\ cReq[q].step \notin {"fetched", "write"}
    /\ cReq' = [cReq EXCEPT ![q] = Fetch(l, dry)]
    /\ UNCHANGED <<cSaid, cMerged, cRemote, cRows, cGiven>>

syncConstitution(q, l, dry) == cRows[l].url /\ RefreshConstitutionLayer(q, l, dry)

\* Compare with the hash that the row has now.
RefreshCompare(q) ==
    LET same == cRows[cReq[q].layer].hash = Hash(FromYAML(cReq[q].doc))
    IN  /\ cReq[q].step = "fetched"
        /\ cReq' = [cReq EXCEPT ![q] = IF same THEN [CIdle EXCEPT !.step = "unchanged"]
                                       ELSE IF cReq[q].dry THEN [CIdle EXCEPT !.step = "would change"]
                                       ELSE [cReq[q] EXCEPT !.step = "write"]]
        /\ UNCHANGED <<cSaid, cMerged, cRemote, cRows, cGiven>>

RefreshWrite(q) ==
    /\ cReq[q].step = "write"
    /\ LET entry == FromYAML(cReq[q].doc)
       IN  cRows' = [cRows EXCEPT ![cReq[q].layer] = Upserted(@, entry, TRUE, Hash(entry))]
    /\ cGiven' = cGiven \ {cReq[q].layer}
    /\ cReq' = [cReq EXCEPT ![q] = [CIdle EXCEPT !.step = "changed"]]
    /\ UNCHANGED <<cSaid, cMerged, cRemote>>

CoNext ==
    \/ SourceChanges \/ \E e \in Mentions : MergeLayers(e)
    \/ \E l \in CLayers :
         \/ \E doc \in Documents : importConstitution(l, doc)
         \/ \E q \in Requests, dry \in BOOLEAN : RefreshConstitutionLayer(q, l, dry) \/ syncConstitution(q, l, dry)
    \/ \E l \in SentLayers, entry \in Entries, url \in BOOLEAN, hash \in {"none"} \cup SentHashes :
         UpdateConstitution(l, entry, url, hash)
    \/ \E q \in Requests : RefreshCompare(q) \/ RefreshWrite(q)

CoSpec == CoInit /\ [][CoNext]_coVars

----------------------------------------------------------------------------
(* What the merge means.                                                   *)

\* The entries that no later one speaks of and that are no tombstones.
Stands(s) ==
    {p \in 1 .. Len(s) : /\ s[p].key # "" /\ ~s[p].delete
                         /\ \A j \in p + 1 .. Len(s) : s[j].key # s[p].key}

\* k came in with entry c: it has not been deleted since, and had been deleted
\* after every earlier mention.
CameIn(s, k, c) ==
    /\ s[c].key = k
    /\ \A j \in c .. Len(s) : s[j].key = k => ~s[j].delete
    /\ \A j \in 1 .. c - 1 : s[j].key = k => \E d \in j .. c - 1 : s[d].key = k /\ s[d].delete

\* A keyed list has the last entry of each key that no tombstone ended, each once
\* and where its key came in, under the most specific layer that speaks of it.
KeyedFollows(s, acc) ==
    LET result == Rebuilt(acc)
    IN  /\ \A p \in Stands(s) : \E i \in 1 .. Len(result) : result[i] = s[p]
        /\ \A i \in 1 .. Len(result) :
             /\ \E p \in Stands(s) : result[i] = s[p]
             /\ acc.from[result[i].key] = result[i].layer
             /\ \A p \in 1 .. Len(s) :
                  s[p].key = result[i].key => LayerOrder[s[p].layer] <= LayerOrder[result[i].layer]
        /\ \A i, j \in 1 .. Len(result) : i < j =>
             \E c, d \in 1 .. Len(s) : c < d /\ CameIn(s, result[i].key, c) /\ CameIn(s, result[j].key, d)
        /\ DOMAIN acc.from = {s[p].key : p \in Stands(s)}

\* A string list has every string that is said, in the order in which they were
\* said first, under the layer that said it first.
ListFollows(s, acc) ==
    LET said == {p \in 1 .. Len(s) : ~s[p].delete}
        first == {p \in said : \A j \in 1 .. p - 1 : j \in said => s[j].key # s[p].key}
    IN  /\ \A p \in first : \E i \in 1 .. Len(acc.order) : acc.order[i] = s[p].key
        /\ \A i \in 1 .. Len(acc.order) : \E p \in first :
             /\ acc.order[i] = s[p].key /\ acc.from[s[p].key] = s[p].layer
             /\ \A j \in 1 .. i - 1 : \E o \in first : o < p /\ acc.order[j] = s[o].key

\* A scalar or a key of a map has what the last layer with it says.
ScalarFollows(s, acc) ==
    LET said == {p \in 1 .. Len(s) : ~s[p].delete}
        last == {p \in said : \A j \in p + 1 .. Len(s) : j \in said => s[j].key # s[p].key}
    IN  /\ DOMAIN acc.value = {s[p].key : p \in said} /\ DOMAIN acc.from = DOMAIN acc.value
        /\ \A k \in DOMAIN acc.value : \E p \in last : s[p].key = k /\ acc.value[k] = s[p] /\ acc.from[k] = s[p].layer

\* merge.Layers: whatever the layers say, in whatever order a layer says it and
\* however often it is deleted and said again, lists, maps and provenance are
\* those that "the most specific layer wins" asks for.
MergeFollowsPrecedence ==
    /\ KeyedFollows(cSaid, cMerged.keyed)
    /\ ListFollows(cSaid, cMerged.list)
    /\ ScalarFollows(cSaid, cMerged.scalar)

\* constitution_handler.go RefreshConstitutionLayer: a refresh that reports
\* "unchanged" leaves the layer with exactly what it fetched, although imports
\* and other refreshes write the layer meanwhile: the hash it trusts belongs to
\* the content beside it, unless that hash came with a client's message.
\* UpdateConstitution believes such a hash, so a client that sends back an edited
\* layer with the hash it was served makes the next refresh overlook the edit.
UnchangedMeansSame ==
    [][\A q \in Requests :
         cReq[q].step = "fetched" /\ cReq'[q].step = "unchanged" =>
            \/ cReq[q].layer \in cGiven
            \/ /\ cRows'[cReq[q].layer].there
               /\ cRows'[cReq[q].layer].entry = FromYAML(cReq[q].doc)]_coVars
=============================================================================
