--------------------------- MODULE RecordsProofs ---------------------------
(***************************************************************************)
(* Proofs about what the authoring funnel records beside the spec rows,    *)
(* each for its own specification and every value of the constants:        *)
(* decisions, and the log of conversations and findings.                   *)
(***************************************************************************)
EXTENDS MCRecords, SlicesProofs, WellFoundedInduction, TLAPS

(***************************************************************************)
(* Decisions.  A row is changed only under its lock and keeps its version  *)
(* or gains one, so an update that expected a version, read a row of at    *)
(* least that version and wrote over a row of exactly that version, read   *)
(* the row it wrote over.  An approval has settled the decisions it is     *)
(* done with; who unsettles one has set it back to proposed.               *)
(***************************************************************************)

RowFine(row) == row.hash = DecHash(row)

\* What the transaction of q sees of decision d.
Sees(q, rows, d) == IF q.own[d] # None THEN q.own[d] ELSE rows[d]

\* Where a request of each operation may be, and what it then holds.
DecForm(q) ==
    /\ q.op = "none" => q.pc = "idle" /\ \A d \in DecSlugs : q.own[d] = None
    /\ q.pc \in {"read", "write"} => q.op \in {"update", "approve"} /\ q.d \in DecSlugs
    /\ q.pc = "insert" => q.op \in {"create", "shape"} /\ q.d \in DecSlugs
    /\ q.pc = "insert" /\ q.op = "create" => q.set.text \in Texts
    /\ q.pc = "promote" => q.op = "shape"
    /\ q.pc \in {"edges", "accept"} => q.op = "approve"
    /\ q.op \in {"shape", "approve"} => q.spec \in CitingSpecs
    /\ q.pc = "commit" /\ q.op \in {"shape", "approve"} => q.todo = {}
    /\ q.set.status = "proposed" => q.op = "update" /\ q.d \in DecSlugs
    /\ q.op = "approve" /\ q.pc \in {"read", "write"} => q.set.status = "accepted"
    /\ q.op = "update" => \A d \in DecSlugs : q.own[d] # None => q.pc = "commit" /\ d = q.d

\* The rows a transaction has written, against the committed ones.
OwnFine(q, rows) ==
    \A d \in DecSlugs : q.own[d] # None =>
        /\ RowFine(q.own[d])
        /\ rows[d] # None => rows[d].version <= q.own[d].version
        /\ q.op \in {"create", "shape"} => rows[d] = None
        /\ q.op = "approve" => q.own[d].status # "proposed"
        /\ q.op = "update" /\ q.own[d].status = "proposed" =>
             rows[d].status = "proposed" \/ q.set.status = "proposed"

\* The decisions that a request works on are there.
Found(q, rows) ==
    /\ q.pc \in {"read", "write"} => rows[q.d] # None
    /\ q.pc = "write" => q.read \in DecRow
    /\ q.op = "approve" => \A d \in q.todo : rows[d] # None
    /\ q.op = "shape" => \A d \in q.named \ q.todo : rows[d] # None \/ q.own[d] # None

\* The version that a guarded update expects, read and wrote.
Guarded(q, rows) ==
    q.op = "update" /\ q.expected > 0 =>
        /\ q.pc \in {"read", "write"} => q.expected <= rows[q.d].version
        /\ q.pc = "write" => q.expected <= q.read.version /\ q.read.version <= rows[q.d].version
        /\ q.pc = "commit" => q.read.version + 1 = q.own[q.d].version

\* The decisions that an approval is done with are settled or set back.
Settling(q, rows, named, back, over) ==
    q.op = "approve" /\ q.pc \in {"accept", "read", "write", "commit"} =>
        \A d \in named[q.spec] \ back :
            \/ d \in q.todo
            \/ q.pc \in {"read", "write"} /\ d = q.d
            \/ <<q.spec, d>> \in over
            \/ Sees(q, rows, d).status # "proposed"

\* Edges that are there or that a client removed: no step takes one away.
Known == decided \cup unlinked

\* The decisions that a promotion is done with have their edge, will have it
\* with the commit, or lost it to a client.
Linking(q, rows, known) ==
    q.op = "shape" =>
        /\ \A d \in q.named \ q.todo : d \in q.fresh \/ <<q.spec, d>> \in known
        /\ \A d \in q.fresh : rows[d] # None \/ q.own[d] # None

DecFine(q, rows, known, named, back, over) ==
    /\ DecForm(q) /\ OwnFine(q, rows) /\ Found(q, rows) /\ Guarded(q, rows)
    /\ Settling(q, rows, named, back, over) /\ Linking(q, rows, known)

\* No two transactions hold the row of a decision, or that of a spec.
DecLocks(reqs) ==
    \A r, o \in Requests : r # o =>
        /\ \A d \in DecSlugs : reqs[r].own[d] = None \/ reqs[o].own[d] = None
        /\ \A s \in CitingSpecs : ~(reqs[r].spec = s /\ reqs[o].spec = s)

StoreFine(rows, links, known, stages, named, back, over) ==
    /\ \A d \in DecSlugs : rows[d] # None => RowFine(rows[d])
    /\ \A e \in links : rows[e[2]] # None
    /\ \A s \in CitingSpecs : \A d \in named[s] : <<s, d>> \in known /\ rows[d] # None
    /\ \A s \in CitingSpecs : stages[s] = "approved" =>
         \A d \in named[s] \ back : rows[d].status # "proposed" \/ <<s, d>> \in over

\* A spec that is being approved is not approved yet.
Approving(reqs, stages) ==
    \A r \in Requests : reqs[r].op = "approve" => stages[reqs[r].spec] # "approved"

DecInv ==
    /\ DecTypeOK
    /\ StoreFine(dec, decided, Known, decStage, shaped, reproposed, overlooked)
    /\ DecLocks(decReq) /\ Approving(decReq, decStage)
    /\ \A r \in Requests : DecFine(decReq[r], dec, Known, shaped, reproposed, overlooked)

\* What the invariant says of types, for the fields that the proofs use.
LEMMA DecTypes ==
  ASSUME DecInv, NEW r \in Requests
  PROVE  /\ dec \in [DecSlugs -> DecRow \cup {None}]
         /\ decReq \in [Requests -> DecRequest] /\ decReq[r] \in DecRequest
         /\ decReq[r].own \in [DecSlugs -> DecRow \cup {None}]
         /\ decReq[r].todo \subseteq DecSlugs /\ decReq[r].fresh \subseteq DecSlugs
         /\ DecFine(decReq[r], dec, Known, shaped, reproposed, overlooked)
<1>1. decReq[r] \in DecRequest
  BY DEF DecInv, DecTypeOK
<1>2. decReq[r].own \in [DecSlugs -> DecRow \cup {None}] /\ decReq[r].todo \subseteq DecSlugs
      /\ decReq[r].fresh \subseteq DecSlugs
  BY <1>1 DEF DecRequest
<1> QED BY <1>1, <1>2 DEF DecInv, DecTypeOK

\* An idle request.
LEMMA DecIdleFine ==
  /\ DecIdle \in DecRequest
  /\ NoRow \in [DecSlugs -> DecRow \cup {None}]
  /\ KeepAll \in [text : Texts \cup {None}, status : Status \cup {None}]
  /\ \A d \in DecSlugs : DecIdle.own[d] = None
  /\ DecIdle.set = KeepAll /\ KeepAll.status # "proposed"
  /\ \A rows, known, named, back, over : DecFine(DecIdle, rows, known, named, back, over)
  /\ DecIdle.op = "none"
<1>1. NoRow \in [DecSlugs -> DecRow \cup {None}] /\ \A d \in DecSlugs : NoRow[d] = None
  BY DEF NoRow
<1>2. KeepAll \in [text : Texts \cup {None}, status : Status \cup {None}] /\ KeepAll.status # "proposed"
  BY DecAssumption DEF KeepAll, Status
<1>3. /\ DecIdle.pc = "idle" /\ DecIdle.op = "none" /\ DecIdle.own = NoRow
      /\ DecIdle.set = KeepAll
  BY DEF DecIdle
<1>4. 0 \in 0 .. MaxDecVersion
  BY DecAssumption
<1> HIDE DEF NoRow, KeepAll
<1>5. DecIdle \in DecRequest
  BY <1>1, <1>2, <1>4 DEF DecIdle, DecRequest
<1>6. ASSUME NEW rows, NEW known, NEW named, NEW back, NEW over
      PROVE  DecFine(DecIdle, rows, known, named, back, over)
  BY <1>1, <1>2, <1>3 DEF DecFine, DecForm, OwnFine, Found, Guarded, Settling, Linking
<1> QED BY <1>1, <1>2, <1>3, <1>5, <1>6

\* A step of one request that commits nothing and takes no row of another.  An
\* approval may note the edges of its own spec that are missing.
LEMMA DecMovesNoting ==
  ASSUME DecInv, NEW r \in Requests, NEW f \in DecRequest, DecGo(r, f),
         UNCHANGED <<dec, decided, unlinked, decStage, shaped, reproposed>>,
         overlooked' \subseteq CitingSpecs \X DecSlugs,
         \/ overlooked' = overlooked
         \/ /\ f.op = "approve" /\ f.spec \in CitingSpecs
            /\ \A s \in CitingSpecs, d \in DecSlugs :
                 s # f.spec /\ <<s, d>> \in overlooked => <<s, d>> \in overlooked',
         DecFine(f, dec, Known, shaped, reproposed, overlooked'),
         \A d \in DecSlugs : f.own[d] # None => decReq[r].own[d] # None \/ ~RowHeld(r, d),
         \A s \in CitingSpecs : f.spec = s => decReq[r].spec = s \/ ~SpecHeld(r, s),
         \/ f.op # "approve"
         \/ f.op = decReq[r].op /\ f.spec = decReq[r].spec
         \/ decStage[f.spec] # "approved"
  PROVE  DecInv'
<1>1. decReq \in [Requests -> DecRequest] /\ shaped \in [CitingSpecs -> SUBSET DecSlugs]
  BY DEF DecInv, DecTypeOK
<1>2. decReq' \in [Requests -> DecRequest]
  BY <1>1 DEF DecGo
<1>3. \A o \in Requests : decReq'[o] = IF o = r THEN f ELSE decReq[o]
  BY <1>1 DEF DecGo
<1>4. DecLocks(decReq')
  <2>1. ASSUME NEW a \in Requests, NEW b \in Requests, a # b, NEW d \in DecSlugs
        PROVE  decReq'[a].own[d] = None \/ decReq'[b].own[d] = None
    <3>1. decReq[a].own[d] = None \/ decReq[b].own[d] = None
      BY <2>1 DEF DecInv, DecLocks
    <3>2. ASSUME NEW o \in Requests, o # r PROVE f.own[d] = None \/ decReq[o].own[d] = None
      <4>1. decReq[r].own[d] = None \/ decReq[o].own[d] = None
        BY <3>2 DEF DecInv, DecLocks
      <4> QED BY <3>2, <4>1 DEF RowHeld
    <3> QED BY <1>3, <2>1, <3>1, <3>2
  <2>2. ASSUME NEW a \in Requests, NEW b \in Requests, a # b, NEW s \in CitingSpecs
        PROVE  ~(decReq'[a].spec = s /\ decReq'[b].spec = s)
    <3>1. ~(decReq[a].spec = s /\ decReq[b].spec = s)
      BY <2>2 DEF DecInv, DecLocks
    <3>2. ASSUME NEW o \in Requests, o # r PROVE ~(f.spec = s /\ decReq[o].spec = s)
      <4>1. ~(decReq[r].spec = s /\ decReq[o].spec = s)
        BY <3>2 DEF DecInv, DecLocks
      <4> QED BY <3>2, <4>1 DEF SpecHeld
    <3> QED BY <1>3, <2>2, <3>1, <3>2
  <2> QED BY <2>1, <2>2 DEF DecLocks
<1>5. Approving(decReq', decStage)
  BY <1>3 DEF DecInv, Approving
<1>6. ASSUME NEW o \in Requests
      PROVE  DecFine(decReq'[o], dec, Known, shaped, reproposed, overlooked')
  <2>1. CASE o = r
    BY <1>3, <2>1
  <2>2. CASE o # r
    <3>1. DecFine(decReq[o], dec, Known, shaped, reproposed, overlooked) /\ decReq'[o] = decReq[o]
      BY <1>3, <2>2 DEF DecInv
    <3>2. Settling(decReq[o], dec, shaped, reproposed, overlooked')
      <4>1. CASE overlooked' = overlooked
        BY <3>1, <4>1 DEF DecFine
      <4>2. CASE overlooked' # overlooked /\ decReq[o].op = "approve"
        <5>1. decReq[o].spec \in CitingSpecs /\ f.spec \in CitingSpecs
          BY <3>1, <4>2 DEF DecFine, DecForm
        <5>2. decReq[o].spec # f.spec
          BY <1>3, <1>4, <2>2, <5>1 DEF DecLocks
        <5>3. \A d \in DecSlugs : <<decReq[o].spec, d>> \in overlooked => <<decReq[o].spec, d>> \in overlooked'
          BY <4>2, <5>1, <5>2
        <5>4. shaped[decReq[o].spec] \subseteq DecSlugs
          BY <1>1, <5>1
        <5>5. Settling(decReq[o], dec, shaped, reproposed, overlooked)
          BY <3>1 DEF DecFine
        <5> QED BY <5>3, <5>4, <5>5 DEF Settling
      <4>3. CASE decReq[o].op # "approve"
        BY <4>3 DEF Settling
      <4> QED BY <4>1, <4>2, <4>3
    <3> QED BY <3>1, <3>2 DEF DecFine
  <2> QED BY <2>1, <2>2
<1>7. StoreFine(dec, decided, Known, decStage, shaped, reproposed, overlooked')
  <2>1. StoreFine(dec, decided, Known, decStage, shaped, reproposed, overlooked)
    BY DEF DecInv
  <2>2. CASE overlooked' = overlooked
    BY <2>1, <2>2
  <2>3. CASE overlooked' # overlooked
    <3>1. decStage[f.spec] # "approved"
      BY <1>3, <1>5, <2>3 DEF Approving
    <3>2. ASSUME NEW s \in CitingSpecs, decStage[s] = "approved", NEW d \in shaped[s],
                 <<s, d>> \in overlooked
          PROVE  <<s, d>> \in overlooked'
      <4>1. s # f.spec /\ d \in DecSlugs
        BY <1>1, <3>1, <3>2
      <4> QED BY <2>3, <3>2, <4>1
    <3> QED BY <2>1, <3>2 DEF StoreFine
  <2> QED BY <2>2, <2>3
<1>8. Known' = Known
  BY DEF Known
<1> HIDE DEF DecLocks, DecFine, StoreFine, RowHeld, SpecHeld, DecGo, Known, Approving
<1> QED BY <1>2, <1>4, <1>5, <1>6, <1>7, <1>8 DEF DecInv, DecTypeOK

\* A step of one request that changes nothing that is stored.
LEMMA DecMoves ==
  ASSUME DecInv, NEW r \in Requests, NEW f \in DecRequest, DecGo(r, f), StoreUnchanged,
         DecFine(f, dec, Known, shaped, reproposed, overlooked),
         \A d \in DecSlugs : f.own[d] # None => decReq[r].own[d] # None \/ ~RowHeld(r, d),
         \A s \in CitingSpecs : f.spec = s => decReq[r].spec = s \/ ~SpecHeld(r, s),
         \/ f.op # "approve"
         \/ f.op = decReq[r].op /\ f.spec = decReq[r].spec
         \/ decStage[f.spec] # "approved"
  PROVE  DecInv'
<1>1. UNCHANGED <<dec, decided, unlinked, decStage, shaped, reproposed>> /\ overlooked' = overlooked
  BY DEF StoreUnchanged, linkVars
<1>2. overlooked' \subseteq CitingSpecs \X DecSlugs
  BY <1>1 DEF DecInv, DecTypeOK
<1> HIDE DEF DecFine, DecGo, RowHeld, SpecHeld, StoreUnchanged
<1> QED BY <1>1, <1>2, DecMovesNoting

\* A request that ends without a commit.
LEMMA DecAbortInv ==
  ASSUME DecInv, NEW r \in Requests, DecAbort(r)
  PROVE  DecInv'
<1>1. DecGo(r, DecIdle) /\ StoreUnchanged
  BY DEF DecAbort
<1>2. \A s \in CitingSpecs : DecIdle.spec # s
  BY DecAssumption DEF DecIdle
<1> QED BY <1>1, <1>2, DecIdleFine, DecMoves

\* A request begins: it holds no row yet.
LEMMA DecBegins ==
  ASSUME DecInv, NEW r \in Requests, NEW f \in DecRequest, DecGo(r, f), StoreUnchanged,
         f.own = NoRow, DecForm(f), Found(f, dec), Guarded(f, dec),
         f.op # "approve" \/ (f.pc = "edges" /\ decStage[f.spec] # "approved"),
         f.op # "shape" \/ (f.todo = f.named /\ f.fresh = {}),
         \A s \in CitingSpecs : f.spec = s => ~SpecHeld(r, s)
  PROVE  DecInv'
<1>1. \A d \in DecSlugs : f.own[d] = None
  BY DEF NoRow
<1>2. /\ OwnFine(f, dec) /\ Settling(f, dec, shaped, reproposed, overlooked)
      /\ Linking(f, dec, Known)
  BY <1>1 DEF OwnFine, Settling, Linking
<1>3. DecFine(f, dec, Known, shaped, reproposed, overlooked)
  BY <1>2 DEF DecFine
<1> QED BY <1>1, <1>3, DecMoves

\* CreateDecision and UpdateDecision RPCs.
LEMMA DecClientsInv ==
  ASSUME DecInv, NEW r \in Requests, CreateDecisionRequest(r) \/ UpdateDecisionRequest(r)
  PROVE  DecInv'
<1>0. StoreUnchanged
  BY DEF CreateDecisionRequest, UpdateDecisionRequest
<1>1. ASSUME CreateDecisionRequest(r) PROVE DecInv'
  <2>1. PICK d \in DecSlugs, t \in Texts :
          DecGo(r, [DecIdle EXCEPT !.pc = "insert", !.op = "create", !.d = d,
                                   !.set = [KeepAll EXCEPT !.text = t]])
    BY <1>1 DEF CreateDecisionRequest
  <2> DEFINE st == [KeepAll EXCEPT !.text = t]
             f == [DecIdle EXCEPT !.pc = "insert", !.op = "create", !.d = d, !.set = st]
  <2>2. /\ st \in [text : Texts \cup {None}, status : Status \cup {None}]
        /\ st.text \in Texts /\ st.status # "proposed"
    BY <2>1, DecIdleFine DEF KeepAll
  <2>3. DecGo(r, f)
    BY <2>1
  <2> HIDE DEF st
  <2>4. f \in DecRequest
    BY <2>1, <2>2, DecIdleFine DEF DecRequest
  <2>5. /\ f.pc = "insert" /\ f.op = "create" /\ f.d = d /\ f.set = st /\ f.own = NoRow
        /\ f.spec = None
    BY DEF DecIdle
  <2> HIDE DEF f
  <2>6. DecForm(f)
    BY <2>1, <2>2, <2>5 DEF DecForm
  <2>7. Found(f, dec) /\ Guarded(f, dec)
    BY <2>5 DEF Found, Guarded
  <2> QED BY <1>0, <2>3, <2>4, <2>5, <2>6, <2>7, DecBegins, DecAssumption
<1>2. ASSUME UpdateDecisionRequest(r) PROVE DecInv'
  <2>1. PICK d \in DecSlugs,
          set \in {[KeepAll EXCEPT !.text = t] : t \in Texts} \cup
                  {[KeepAll EXCEPT !.status = st] : st \in ClientStatus} :
          /\ dec[d] # None
          /\ \E e \in {0, dec[d].version} :
               DecGo(r, [DecIdle EXCEPT !.pc = "read", !.op = "update", !.d = d,
                                        !.set = set, !.expected = e])
    BY <1>2 DEF UpdateDecisionRequest
  <2>2. PICK e \in {0, dec[d].version} :
               DecGo(r, [DecIdle EXCEPT !.pc = "read", !.op = "update", !.d = d,
                                        !.set = set, !.expected = e])
    BY <2>1
  <2> DEFINE f == [DecIdle EXCEPT !.pc = "read", !.op = "update", !.d = d, !.set = set, !.expected = e]
  <2>3. set \in [text : Texts \cup {None}, status : Status \cup {None}]
    <3>1. \A t \in Texts : [KeepAll EXCEPT !.text = t] \in [text : Texts \cup {None}, status : Status \cup {None}]
      BY DecIdleFine
    <3>2. \A st \in ClientStatus : [KeepAll EXCEPT !.status = st] \in [text : Texts \cup {None}, status : Status \cup {None}]
      BY DecIdleFine, DecAssumption
    <3> QED BY <2>1, <3>1, <3>2
  <2>4. dec[d] \in DecRow
    BY <2>1, DecTypes
  <2>5. dec[d].version \in 1 .. MaxDecVersion
    BY <2>4 DEF DecRow
  <2>6. e \in 0 .. MaxDecVersion /\ e <= dec[d].version
    <3>1. e = 0 \/ e = dec[d].version
      BY <2>2
    <3> QED BY <2>5, <3>1, DecAssumption
  <2>7. d \in DecSlugs /\ dec[d] # None /\ DecGo(r, f)
    BY <2>1, <2>2
  <2>8. f \in DecRequest
    BY <2>3, <2>6, <2>7, DecIdleFine DEF DecRequest
  <2>9. /\ f.pc = "read" /\ f.op = "update" /\ f.d = d /\ f.set = set /\ f.own = NoRow
        /\ f.spec = None /\ f.expected = e
    BY DEF DecIdle
  <2> HIDE DEF f
  <2>10. DecForm(f)
    BY <2>7, <2>9 DEF DecForm, NoRow
  <2>11. Found(f, dec) /\ Guarded(f, dec)
    BY <2>6, <2>7, <2>9 DEF Found, Guarded
  <2> QED BY <1>0, <2>7, <2>8, <2>9, <2>10, <2>11, DecBegins, DecAssumption
<1> QED BY <1>1, <1>2

\* Shape and Approve.
LEMMA DecStagesInv ==
  ASSUME DecInv, NEW r \in Requests, ShapeRequest(r) \/ ApproveRequest(r)
  PROVE  DecInv'
<1>0. StoreUnchanged
  BY DEF ShapeRequest, ApproveRequest
<1>1. ASSUME ShapeRequest(r) PROVE DecInv'
  <2>1. PICK s \in CitingSpecs, ds \in SUBSET DecSlugs :
         /\ ~SpecHeld(r, s)
         /\ DecGo(r, [DecIdle EXCEPT !.pc = "promote", !.op = "shape",
                                     !.spec = s, !.named = ds, !.todo = ds])
    BY <1>1 DEF ShapeRequest
  <2> DEFINE f == [DecIdle EXCEPT !.pc = "promote", !.op = "shape", !.spec = s, !.named = ds, !.todo = ds]
  <2>2. f \in DecRequest
    BY <2>1, DecIdleFine DEF DecRequest
  <2>3. /\ f.pc = "promote" /\ f.op = "shape" /\ f.spec = s /\ f.named = ds /\ f.todo = ds
        /\ f.own = NoRow /\ f.set = KeepAll /\ f.fresh = {}
    BY DEF DecIdle
  <2>4. DecGo(r, f) /\ s \in CitingSpecs /\ ~SpecHeld(r, s)
    BY <2>1
  <2> HIDE DEF f
  <2>5. DecForm(f)
    BY <2>3, <2>4, DecIdleFine DEF DecForm
  <2>6. Found(f, dec) /\ Guarded(f, dec)
    BY <2>3 DEF Found, Guarded
  <2> QED BY <1>0, <2>2, <2>3, <2>4, <2>5, <2>6, DecBegins
<1>2. ASSUME ApproveRequest(r) PROVE DecInv'
  <2>1. PICK s \in CitingSpecs :
         /\ ~SpecHeld(r, s) /\ decStage[s] # "approved"
         /\ DecGo(r, [DecIdle EXCEPT !.pc = "edges", !.op = "approve", !.spec = s])
    BY <1>2 DEF ApproveRequest
  <2> DEFINE f == [DecIdle EXCEPT !.pc = "edges", !.op = "approve", !.spec = s]
  <2>2. f \in DecRequest
    BY <2>1, DecIdleFine DEF DecRequest
  <2>3. /\ f.pc = "edges" /\ f.op = "approve" /\ f.spec = s /\ f.own = NoRow /\ f.set = KeepAll
        /\ f.todo = {}
    BY DEF DecIdle
  <2>4. DecGo(r, f) /\ s \in CitingSpecs /\ ~SpecHeld(r, s) /\ decStage[s] # "approved"
    BY <2>1
  <2> HIDE DEF f
  <2>5. DecForm(f)
    BY <2>3, <2>4, DecIdleFine DEF DecForm
  <2>6. Found(f, dec) /\ Guarded(f, dec)
    BY <2>3 DEF Found, Guarded
  <2> QED BY <1>0, <2>2, <2>3, <2>4, <2>5, <2>6, DecBegins
<1> QED BY <1>1, <1>2

\* A change of the stage that no request is making.
LEMMA DecOtherStageInv ==
  ASSUME DecInv, NEW s \in CitingSpecs, OtherStageChange(s)
  PROVE  DecInv'
<1>1. decStage \in [CitingSpecs -> {"spark", "shape", "decompose", "approved"}]
  BY DEF DecInv, DecTypeOK
<1>2. /\ UNCHANGED <<dec, decided, unlinked, shaped, decReq, reproposed>>
      /\ overlooked' = {e \in overlooked : e[1] # s}
      /\ \A r \in Requests : decReq[r].spec # s
  BY DEF OtherStageChange
<1>3. /\ decStage' \in [CitingSpecs -> {"spark", "shape", "decompose", "approved"}]
      /\ \A t \in CitingSpecs : decStage'[t] = "approved" => decStage[t] = "approved" /\ t # s
  BY <1>1 DEF OtherStageChange
<1>4. StoreFine(dec, decided, Known, decStage', shaped, reproposed, overlooked')
  <2>1. StoreFine(dec, decided, Known, decStage, shaped, reproposed, overlooked)
    BY DEF DecInv
  <2>2. ASSUME NEW t \in CitingSpecs, decStage'[t] = "approved", NEW d \in shaped[t] \ reproposed
        PROVE  dec[d].status # "proposed" \/ <<t, d>> \in overlooked'
    <3>1. t # s /\ (dec[d].status # "proposed" \/ <<t, d>> \in overlooked)
      BY <1>3, <2>1, <2>2 DEF StoreFine
    <3> QED BY <1>2, <3>1
  <2> QED BY <2>1, <2>2 DEF StoreFine
<1>5. Approving(decReq, decStage')
  <2>1. \A r \in Requests : decReq[r].op = "approve" => decReq[r].spec \in CitingSpecs
    BY DEF DecInv, DecFine, DecForm
  <2> QED BY <1>3, <2>1 DEF DecInv, Approving
<1>6. ASSUME NEW r \in Requests
      PROVE  DecFine(decReq[r], dec, Known, shaped, reproposed, overlooked')
  <2>1. DecFine(decReq[r], dec, Known, shaped, reproposed, overlooked)
    BY DEF DecInv
  <2>2. Settling(decReq[r], dec, shaped, reproposed, overlooked')
    <3>1. \A d : <<decReq[r].spec, d>> \in overlooked => <<decReq[r].spec, d>> \in overlooked'
      BY <1>2
    <3> QED BY <2>1, <3>1 DEF DecFine, Settling
  <2> QED BY <2>1, <2>2 DEF DecFine
<1>7. Known' = Known /\ overlooked' \subseteq CitingSpecs \X DecSlugs
  BY <1>2 DEF Known, DecInv, DecTypeOK
<1> HIDE DEF StoreFine, DecLocks, DecFine, OtherStageChange, Approving, Known
<1> QED BY <1>2, <1>3, <1>4, <1>5, <1>6, <1>7 DEF DecInv, DecTypeOK

\* AddEdge and RemoveEdge of a DECIDED_IN edge.
LEMMA DecLinksInv ==
  ASSUME DecInv, NEW e \in ClientLinks, AddDecidedIn(e) \/ RemoveDecidedIn(e)
  PROVE  DecInv'
<1>0. e \in CitingSpecs \X DecSlugs
  BY DecAssumption
<1>1. UNCHANGED <<dec, overlooked, decStage, shaped, decReq, reproposed>>
  BY DEF AddDecidedIn, RemoveDecidedIn
<1>2. /\ decided' \subseteq CitingSpecs \X DecSlugs /\ unlinked' \subseteq CitingSpecs \X DecSlugs
      /\ Known \subseteq Known'
  BY <1>0 DEF DecInv, DecTypeOK, AddDecidedIn, RemoveDecidedIn, Known
<1>3. \A x \in decided' : dec[x[2]] # None
  BY DEF DecInv, StoreFine, AddDecidedIn, RemoveDecidedIn
<1>4. StoreFine(dec, decided', Known', decStage, shaped, reproposed, overlooked)
  BY <1>2, <1>3 DEF DecInv, StoreFine
<1>5. ASSUME NEW r \in Requests
      PROVE  DecFine(decReq[r], dec, Known', shaped, reproposed, overlooked)
  <2>1. DecFine(decReq[r], dec, Known, shaped, reproposed, overlooked)
    BY DEF DecInv
  <2>2. Linking(decReq[r], dec, Known')
    BY <1>2, <2>1 DEF DecFine, Linking
  <2> QED BY <2>1, <2>2 DEF DecFine
<1> HIDE DEF StoreFine, DecLocks, DecFine, AddDecidedIn, RemoveDecidedIn, Approving, Known
<1> QED BY <1>1, <1>2, <1>4, <1>5 DEF DecInv, DecTypeOK

\* StoreShapeOutput.
LEMMA DecPromotesInv ==
  ASSUME DecInv, NEW r \in Requests, StoreShapeOutput(r) \/ StoreShapeEnd(r)
  PROVE  DecInv'
<1> DEFINE q == decReq[r]
<1>0. StoreUnchanged /\ q.pc = "promote"
  BY DEF StoreShapeOutput, StoreShapeEnd
<1>1. q \in DecRequest /\ DecFine(q, dec, Known, shaped, reproposed, overlooked) /\ q.todo \subseteq DecSlugs
  BY DecTypes
<1>2. DecForm(q) /\ OwnFine(q, dec) /\ Found(q, dec) /\ q.op = "shape" /\ Linking(q, dec, Known)
  BY <1>0, <1>1 DEF DecFine, DecForm
<1>3. ASSUME NEW f \in DecRequest, DecGo(r, f), f.own = q.own, f.spec = q.spec, f.op = q.op,
             f.set = q.set, DecForm(f), Found(f, dec), Linking(f, dec, Known)
      PROVE  DecInv'
  <2>1. OwnFine(f, dec) /\ Guarded(f, dec) /\ Settling(f, dec, shaped, reproposed, overlooked)
    BY <1>2, <1>3 DEF OwnFine, Guarded, Settling
  <2>2. DecFine(f, dec, Known, shaped, reproposed, overlooked)
    BY <1>3, <2>1 DEF DecFine
  <2> QED BY <1>0, <1>3, <2>2, DecMoves
<1>4. ASSUME NEW d \in q.todo, GetDecision(r, d) = None,
             DecGo(r, [q EXCEPT !.pc = "insert", !.d = d])
      PROVE  DecInv'
  <2> DEFINE f == [q EXCEPT !.pc = "insert", !.d = d]
  <2>1. DecGo(r, f) /\ d \in DecSlugs
    BY <1>1, <1>4
  <2> HIDE DEF q
  <2>2. f \in DecRequest
    BY <1>1, <2>1 DEF DecRequest
  <2>3. /\ f.own = q.own /\ f.spec = q.spec /\ f.op = q.op /\ f.set = q.set /\ f.pc = "insert" /\ f.d = d
        /\ f.named = q.named /\ f.todo = q.todo /\ f.fresh = q.fresh
    BY <1>1 DEF DecRequest
  <2> HIDE DEF f
  <2>4. DecForm(f) /\ Found(f, dec) /\ Linking(f, dec, Known)
    BY <1>2, <2>1, <2>3 DEF DecForm, Found, Linking
  <2> QED BY <1>3, <2>1, <2>2, <2>3, <2>4
<1>5. ASSUME NEW d \in q.todo, GetDecision(r, d) # None,
             DecGo(r, [q EXCEPT !.todo = q.todo \ {d}, !.fresh = q.fresh \cup MissingEdge(q.spec, d)])
      PROVE  DecInv'
  <2> DEFINE left == q.todo \ {d}
             gain == q.fresh \cup MissingEdge(q.spec, d)
             f == [q EXCEPT !.todo = left, !.fresh = gain]
  <2>1. DecGo(r, f) /\ d \in DecSlugs /\ (dec[d] # None \/ q.own[d] # None) /\ left \in SUBSET DecSlugs
    BY <1>1, <1>5 DEF GetDecision
  <2>2. \A x \in q.named \ left : x = d \/ x \in q.named \ q.todo
    OBVIOUS
  <2>3. /\ gain \in SUBSET DecSlugs /\ q.fresh \subseteq gain
        /\ d \in gain \/ <<q.spec, d>> \in Known
        /\ \A x \in gain : x = d \/ x \in q.fresh
    BY <1>1, <2>1, DecTypes DEF MissingEdge, Known
  <2> HIDE DEF q, left, gain
  <2>4. f \in DecRequest
    BY <1>1, <2>1, <2>3 DEF DecRequest
  <2>5. /\ f.own = q.own /\ f.spec = q.spec /\ f.op = q.op /\ f.set = q.set /\ f.pc = q.pc /\ f.d = q.d
        /\ f.named = q.named /\ f.todo = left /\ f.fresh = gain
    BY <1>1 DEF DecRequest
  <2> HIDE DEF f
  <2>6. DecForm(f) /\ Found(f, dec)
    BY <1>0, <1>2, <2>1, <2>2, <2>5 DEF DecForm, Found
  <2>7. Linking(f, dec, Known)
    BY <1>2, <2>1, <2>2, <2>3, <2>5 DEF Linking
  <2> QED BY <1>3, <2>1, <2>4, <2>5, <2>6, <2>7
<1>6. ASSUME q.todo = {}, DecGo(r, [q EXCEPT !.pc = "commit"])
      PROVE  DecInv'
  <2> DEFINE f == [q EXCEPT !.pc = "commit"]
  <2>1. DecGo(r, f) /\ q.todo = {}
    BY <1>6
  <2> HIDE DEF q
  <2>3. f \in DecRequest
    BY <1>1 DEF DecRequest
  <2>4. /\ f.own = q.own /\ f.spec = q.spec /\ f.op = q.op /\ f.set = q.set /\ f.pc = "commit" /\ f.d = q.d
        /\ f.named = q.named /\ f.todo = q.todo /\ f.fresh = q.fresh
    BY <1>1 DEF DecRequest
  <2> HIDE DEF f
  <2>5. DecForm(f) /\ Found(f, dec) /\ Linking(f, dec, Known)
    BY <1>2, <2>1, <2>4 DEF DecForm, Found, Linking
  <2> QED BY <1>3, <2>1, <2>3, <2>4, <2>5
<1> QED BY <1>4, <1>5, <1>6 DEF StoreShapeOutput, StoreShapeEnd

\* CreateDecision's INSERT.
LEMMA DecCreateInv ==
  ASSUME DecInv, NEW r \in Requests, CreateDecision(r)
  PROVE  DecInv'
<1> DEFINE q == decReq[r]
           New(t) == [text |-> t, status |-> "proposed", version |-> 1, hash |-> <<t, "proposed">>]
           pc2 == IF q.op = "create" THEN "commit" ELSE "promote"
<1>0. StoreUnchanged /\ q.pc = "insert" /\ ~RowHeld(r, q.d) /\ dec[q.d] = None
  BY DEF CreateDecision
<1>1. q \in DecRequest /\ DecFine(q, dec, Known, shaped, reproposed, overlooked) /\ q.todo \subseteq DecSlugs /\ q.fresh \subseteq DecSlugs
      /\ q.own \in [DecSlugs -> DecRow \cup {None}]
  BY DecTypes
<1>2. DecForm(q) /\ OwnFine(q, dec) /\ Found(q, dec) /\ q.op \in {"create", "shape"} /\ q.d \in DecSlugs
      /\ Linking(q, dec, Known)
  BY <1>0, <1>1 DEF DecFine, DecForm
<1>3. PICK t \in Texts : DecGo(r, [q EXCEPT !.pc = pc2, !.own = [q.own EXCEPT ![q.d] = New(t)],
                                           !.todo = q.todo \ {q.d},
                                           !.fresh = IF q.op = "shape" THEN q.fresh \cup {q.d} ELSE q.fresh])
  BY <1>0, <1>2 DEF CreateDecision, DecForm
<1> DEFINE ow == [q.own EXCEPT ![q.d] = New(t)]
           left == q.todo \ {q.d}
           gain == IF q.op = "shape" THEN q.fresh \cup {q.d} ELSE q.fresh
           f == [q EXCEPT !.pc = pc2, !.own = ow, !.todo = left, !.fresh = gain]
<1>4. New(t) \in DecRow /\ RowFine(New(t))
  <2>1. t \in Texts /\ 1 \in 1 .. MaxDecVersion /\ "proposed" \in Status
    BY <1>3, DecAssumption DEF Status
  <2>2. New(t) \in DecRow
    BY <2>1 DEF DecRow
  <2>3. RowFine(New(t))
    BY DEF RowFine, DecHash
  <2> QED BY <2>2, <2>3
<1>5. DecGo(r, f)
  BY <1>3
<1> HIDE DEF q, New
<1>6. /\ ow \in [DecSlugs -> DecRow \cup {None}] /\ left \in SUBSET DecSlugs
      /\ ow[q.d] = New(t) /\ ow[q.d] # None
      /\ \A x \in DecSlugs : x # q.d => ow[x] = q.own[x]
  BY <1>1, <1>2, <1>4, DecAssumption
<1>7. \A x \in q.named \ left : x = q.d \/ x \in q.named \ q.todo
  OBVIOUS
<1>8. pc2 \in {"commit", "promote"} /\ (pc2 = "commit" <=> q.op = "create")
  OBVIOUS
<1>18. /\ gain \in SUBSET DecSlugs
       /\ q.op = "shape" => q.d \in gain /\ q.fresh \subseteq gain /\ \A x \in gain : x = q.d \/ x \in q.fresh
  BY <1>1, <1>2
<1> HIDE DEF ow, left, pc2, gain
<1>9. f \in DecRequest
  BY <1>1, <1>6, <1>8, <1>18 DEF DecRequest
<1>10. /\ f.own = ow /\ f.spec = q.spec /\ f.op = q.op /\ f.set = q.set /\ f.pc = pc2 /\ f.d = q.d
       /\ f.named = q.named /\ f.todo = left /\ f.fresh = gain
  BY <1>1 DEF DecRequest
<1> HIDE DEF f
<1>11. DecForm(f)
  BY <1>2, <1>8, <1>10 DEF DecForm
<1>12. Found(f, dec)
  <2>1. ASSUME NEW x \in q.named \ left, f.op = "shape" PROVE dec[x] # None \/ ow[x] # None
    <3>1. CASE x = q.d
      BY <1>6, <3>1
    <3>2. CASE x # q.d
      <4>1. x \in DecSlugs
        BY <1>1 DEF DecRequest
      <4>2. dec[x] # None \/ q.own[x] # None
        BY <1>2, <1>7, <1>10, <2>1, <3>2 DEF Found
      <4> QED BY <1>6, <3>2, <4>1, <4>2
    <3> QED BY <3>1, <3>2
  <2> QED BY <1>2, <1>8, <1>10, <2>1 DEF Found
<1>13. OwnFine(f, dec)
  <2>1. ASSUME NEW x \in DecSlugs, ow[x] # None PROVE RowFine(ow[x]) /\ dec[x] = None
    <3>1. CASE x = q.d
      BY <1>0, <1>4, <1>6, <3>1 DEF q
    <3>2. CASE x # q.d
      <4>1. q.own[x] # None
        BY <1>6, <2>1, <3>2
      <4>2. RowFine(q.own[x]) /\ dec[x] = None
        BY <1>2, <4>1 DEF OwnFine
      <4> QED BY <1>6, <3>2, <4>2
    <3> QED BY <3>1, <3>2
  <2> QED BY <1>2, <1>10, <2>1 DEF OwnFine
<1>14. Guarded(f, dec) /\ Settling(f, dec, shaped, reproposed, overlooked)
  BY <1>2, <1>10 DEF Guarded, Settling
<1>19. Linking(f, dec, Known)
  <2> SUFFICES ASSUME q.op = "shape"
               PROVE  /\ \A x \in q.named \ left : x \in gain \/ <<q.spec, x>> \in Known
                      /\ \A x \in gain : dec[x] # None \/ ow[x] # None
    BY <1>10 DEF Linking
  <2>1. ASSUME NEW x \in q.named \ left PROVE x \in gain \/ <<q.spec, x>> \in Known
    BY <1>2, <1>7, <1>18 DEF Linking
  <2>2. ASSUME NEW x \in gain PROVE dec[x] # None \/ ow[x] # None
    <3>1. CASE x = q.d
      BY <1>6, <3>1
    <3>2. CASE x # q.d
      <4>1. x \in q.fresh /\ x \in DecSlugs
        BY <1>18, <3>2
      <4>2. dec[x] # None \/ q.own[x] # None
        BY <1>2, <4>1 DEF Linking
      <4> QED BY <1>6, <3>2, <4>1, <4>2
    <3> QED BY <3>1, <3>2
  <2> QED BY <2>1, <2>2
<1>15. DecFine(f, dec, Known, shaped, reproposed, overlooked)
  BY <1>11, <1>12, <1>13, <1>14, <1>19 DEF DecFine
<1>16. \A x \in DecSlugs : f.own[x] # None => decReq[r].own[x] # None \/ ~RowHeld(r, x)
  BY <1>0, <1>6, <1>10 DEF q
<1>17. \A s \in CitingSpecs : f.spec = s => decReq[r].spec = s \/ ~SpecHeld(r, s)
  BY <1>10 DEF q
<1>20. f.op # "approve"
  BY <1>2, <1>10
<1> QED BY <1>0, <1>5, <1>9, <1>15, <1>16, <1>17, <1>20, DecMoves

\* The row after an UPDATE: the fields set, the next version, its own hash.
LEMMA AppliedRow ==
  ASSUME NEW row \in DecRow, row.version < MaxDecVersion,
         NEW set \in [text : Texts \cup {None}, status : Status \cup {None}]
  PROVE  /\ Applied(row, set, None) \in DecRow /\ RowFine(Applied(row, set, None))
         /\ Applied(row, set, None).version = row.version + 1
         /\ Applied(row, set, None).status = IF set.status = None THEN row.status ELSE set.status
<1> DEFINE tx == IF set.text = None THEN row.text ELSE set.text
           st == IF set.status = None THEN row.status ELSE set.status
           vn == row.version + 1
           new == [row EXCEPT !.text = tx, !.status = st, !.version = vn]
           hs == DecHash(new)
<1>1. tx \in Texts /\ st \in Status
  BY DEF DecRow
<1>2. vn \in 1 .. MaxDecVersion
  <2>1. row.version \in 1 .. MaxDecVersion
    BY DEF DecRow
  <2> QED BY <2>1, DecAssumption
<1>3. Applied(row, set, None) = [new EXCEPT !.hash = hs]
  BY DEF Applied
<1> HIDE DEF tx, st, vn
<1>4. new \in DecRow /\ new.text = tx /\ new.status = st /\ new.version = vn
  BY <1>1, <1>2 DEF DecRow
<1>5. hs = <<tx, st>> /\ hs \in Texts \X Status
  BY <1>1, <1>4 DEF DecHash
<1> HIDE DEF new, hs
<1> DEFINE a == [new EXCEPT !.hash = hs]
<1>6. a \in DecRow /\ a.text = tx /\ a.status = st /\ a.version = vn /\ a.hash = hs
  BY <1>4, <1>5 DEF DecRow
<1> HIDE DEF a
<1>7. RowFine(a)
  BY <1>5, <1>6 DEF RowFine, DecHash
<1> QED BY <1>3, <1>6, <1>7 DEF a, st, vn

\* The decisions of a spec that is being approved.
LEMMA DecListInv ==
  ASSUME DecInv, NEW r \in Requests, ListDecidedIn(r)
  PROVE  DecInv'
<1> DEFINE q == decReq[r]
           all == {d \in DecSlugs : <<q.spec, d>> \in decided}
           f == [q EXCEPT !.pc = "accept", !.todo = all]
           over == {e \in overlooked : e[1] # q.spec} \cup {e \in unlinked : e[1] = q.spec}
<1>0. /\ UNCHANGED <<dec, decided, unlinked, decStage, shaped, reproposed>>
      /\ q.pc = "edges" /\ DecGo(r, f) /\ overlooked' = over
  BY DEF ListDecidedIn
<1>1. q \in DecRequest /\ DecFine(q, dec, Known, shaped, reproposed, overlooked)
  BY DecTypes
<1>2. DecForm(q) /\ OwnFine(q, dec) /\ q.op = "approve" /\ q.spec \in CitingSpecs
  BY <1>0, <1>1 DEF DecFine, DecForm
<1>3. /\ \A d \in all : dec[d] # None
      /\ \A d \in shaped[q.spec] : d \in all \/ <<q.spec, d>> \in over
      /\ over \subseteq CitingSpecs \X DecSlugs
      /\ \A s \in CitingSpecs, d \in DecSlugs :
           s # q.spec /\ <<s, d>> \in overlooked => <<s, d>> \in over
  <2>1. shaped[q.spec] \subseteq DecSlugs
    BY <1>2 DEF DecInv, DecTypeOK
  <2>2. /\ \A e \in decided : dec[e[2]] # None
        /\ \A d \in shaped[q.spec] : <<q.spec, d>> \in Known
    BY <1>2 DEF DecInv, StoreFine
  <2>3. unlinked \subseteq CitingSpecs \X DecSlugs /\ overlooked \subseteq CitingSpecs \X DecSlugs
    BY DEF DecInv, DecTypeOK
  <2> QED BY <2>1, <2>2, <2>3 DEF Known
<1>4. all \in SUBSET DecSlugs
  OBVIOUS
<1>10. overlooked' = over
  BY <1>0
<1> HIDE DEF q, all, over
<1>5. f \in DecRequest
  BY <1>1, <1>4 DEF DecRequest
<1>6. /\ f.own = q.own /\ f.spec = q.spec /\ f.op = q.op /\ f.set = q.set /\ f.pc = "accept" /\ f.d = q.d
      /\ f.todo = all
  BY <1>1 DEF DecRequest
<1> HIDE DEF f
<1>7. DecForm(f) /\ Found(f, dec) /\ Guarded(f, dec) /\ OwnFine(f, dec) /\ Linking(f, dec, Known)
  BY <1>2, <1>3, <1>6 DEF DecForm, Found, Guarded, OwnFine, Linking
<1>8. Settling(f, dec, shaped, reproposed, over)
  BY <1>3, <1>6 DEF Settling
<1>9. DecFine(f, dec, Known, shaped, reproposed, over)
  BY <1>7, <1>8 DEF DecFine
<1>11. UNCHANGED <<dec, decided, unlinked, decStage, shaped, reproposed>> /\ DecGo(r, f)
  BY <1>0
<1>12. f.own = decReq[r].own /\ f.spec = decReq[r].spec /\ f.op = decReq[r].op
  BY <1>6 DEF q
<1>13. /\ f.op = "approve" /\ f.spec \in CitingSpecs
       /\ \A s \in CitingSpecs, d \in DecSlugs :
            s # f.spec /\ <<s, d>> \in overlooked => <<s, d>> \in over
  BY <1>2, <1>3, <1>6
<1> HIDE DEF DecFine, DecGo, RowHeld, SpecHeld, Known
<1> QED BY <1>3, <1>5, <1>9, <1>10, <1>11, <1>12, <1>13, DecMovesNoting

\* acceptLinkedDecisions.
LEMMA DecAcceptInv ==
  ASSUME DecInv, NEW r \in Requests, acceptLinkedDecisions(r) \/ AcceptEnd(r)
  PROVE  DecInv'
<1> DEFINE q == decReq[r]
<1>0. StoreUnchanged /\ q.pc = "accept"
  BY DEF acceptLinkedDecisions, AcceptEnd
<1>1. q \in DecRequest /\ DecFine(q, dec, Known, shaped, reproposed, overlooked) /\ q.todo \subseteq DecSlugs
  BY DecTypes
<1>2. /\ DecForm(q) /\ OwnFine(q, dec) /\ Found(q, dec) /\ Settling(q, dec, shaped, reproposed, overlooked)
      /\ q.op = "approve"
  BY <1>0, <1>1 DEF DecFine, DecForm
<1>3. ASSUME NEW f \in DecRequest, DecGo(r, f), f.own = q.own, f.spec = q.spec, f.op = q.op,
             DecForm(f), Found(f, dec), Settling(f, dec, shaped, reproposed, overlooked)
      PROVE  DecInv'
  <2>1. OwnFine(f, dec) /\ Guarded(f, dec) /\ Linking(f, dec, Known)
    BY <1>2, <1>3 DEF OwnFine, Guarded, Linking
  <2>2. DecFine(f, dec, Known, shaped, reproposed, overlooked)
    BY <1>3, <2>1 DEF DecFine
  <2> QED BY <1>0, <1>3, <2>2, DecMoves
<1>4. ASSUME NEW d \in q.todo, GetDecision(r, d).status # "proposed",
             DecGo(r, [q EXCEPT !.todo = q.todo \ {d}])
      PROVE  DecInv'
  <2> DEFINE left == q.todo \ {d}
             f == [q EXCEPT !.todo = left]
  <2>1. DecGo(r, f) /\ left \in SUBSET DecSlugs /\ left \subseteq q.todo
    BY <1>1, <1>4
  <2>2. Sees(q, dec, d).status # "proposed"
    BY <1>4 DEF Sees, GetDecision
  <2>3. \A x \in q.todo : x = d \/ x \in left
    OBVIOUS
  <2> HIDE DEF q, left
  <2>4. f \in DecRequest
    BY <1>1, <2>1 DEF DecRequest
  <2>5. /\ f.own = q.own /\ f.spec = q.spec /\ f.op = q.op /\ f.set = q.set /\ f.pc = q.pc /\ f.d = q.d
        /\ f.todo = left
    BY <1>1 DEF DecRequest
  <2> HIDE DEF f
  <2>6. DecForm(f) /\ Found(f, dec)
    BY <1>0, <1>2, <2>1, <2>5 DEF DecForm, Found, q
  <2>7. Settling(f, dec, shaped, reproposed, overlooked)
    <3>1. \A x : Sees(f, dec, x) = Sees(q, dec, x)
      BY <2>5 DEF Sees
    <3> QED BY <1>0, <1>2, <2>2, <2>3, <2>5, <3>1 DEF Settling, q
  <2> QED BY <1>3, <2>1, <2>4, <2>5, <2>6, <2>7
<1>5. ASSUME NEW d \in q.todo,
             DecGo(r, [[q EXCEPT !.todo = q.todo \ {d}] EXCEPT !.pc = "read", !.d = d,
                         !.set = [KeepAll EXCEPT !.status = "accepted"]])
      PROVE  DecInv'
  <2> DEFINE left == q.todo \ {d}
             st == [KeepAll EXCEPT !.status = "accepted"]
             g == [q EXCEPT !.todo = left]
             f == [g EXCEPT !.pc = "read", !.d = d, !.set = st]
  <2>1. DecGo(r, f) /\ left \in SUBSET DecSlugs /\ d \in DecSlugs
    BY <1>1, <1>5
  <2>2. dec[d] # None
    BY <1>0, <1>2, <1>5 DEF Found
  <2>3. (\A x \in q.todo : x = d \/ x \in left) /\ left \subseteq q.todo
    OBVIOUS
  <2>4. st \in [text : Texts \cup {None}, status : Status \cup {None}] /\ st.status = "accepted"
    BY DecIdleFine DEF Status
  <2> HIDE DEF q, left, st
  <2>5. g \in DecRequest /\ g.own = q.own /\ g.spec = q.spec /\ g.op = q.op /\ g.todo = left
    BY <1>1, <2>1 DEF DecRequest
  <2> HIDE DEF g
  <2>6. f \in DecRequest
    BY <2>1, <2>4, <2>5 DEF DecRequest
  <2>7. /\ f.own = g.own /\ f.spec = g.spec /\ f.op = g.op /\ f.set = st /\ f.pc = "read" /\ f.d = d
        /\ f.todo = g.todo
    BY <2>5 DEF DecRequest
  <2> HIDE DEF f
  <2>8. DecForm(f)
    BY <1>2, <2>1, <2>4, <2>5, <2>7 DEF DecForm
  <2>9. Found(f, dec)
    BY <1>2, <2>2, <2>3, <2>5, <2>7 DEF Found
  <2>10. Settling(f, dec, shaped, reproposed, overlooked)
    <3>1. \A x : Sees(f, dec, x) = Sees(q, dec, x)
      BY <2>5, <2>7 DEF Sees
    <3> QED BY <1>0, <1>2, <2>3, <2>5, <2>7, <3>1 DEF Settling, q
  <2> QED BY <1>3, <2>1, <2>5, <2>6, <2>7, <2>8, <2>9, <2>10
<1>6. ASSUME q.todo = {}, DecGo(r, [q EXCEPT !.pc = "commit"])
      PROVE  DecInv'
  <2> DEFINE f == [q EXCEPT !.pc = "commit"]
  <2>1. DecGo(r, f) /\ q.todo = {}
    BY <1>6
  <2> HIDE DEF q
  <2>3. f \in DecRequest
    BY <1>1 DEF DecRequest
  <2>4. /\ f.own = q.own /\ f.spec = q.spec /\ f.op = q.op /\ f.set = q.set /\ f.pc = "commit" /\ f.d = q.d
        /\ f.todo = q.todo
    BY <1>1 DEF DecRequest
  <2> HIDE DEF f
  <2>5. DecForm(f) /\ Found(f, dec)
    BY <1>2, <2>1, <2>4 DEF DecForm, Found
  <2>6. Settling(f, dec, shaped, reproposed, overlooked)
    <3>1. \A x : Sees(f, dec, x) = Sees(q, dec, x)
      BY <2>4 DEF Sees
    <3> QED BY <1>0, <1>2, <2>1, <2>4, <3>1 DEF Settling, q
  <2> QED BY <1>3, <2>1, <2>3, <2>4, <2>5, <2>6
<1>7. CASE acceptLinkedDecisions(r)
  <2>1. PICK d \in q.todo :
          \/ /\ GetDecision(r, d).status # "proposed"
             /\ DecGo(r, [q EXCEPT !.todo = q.todo \ {d}])
          \/ DecGo(r, [[q EXCEPT !.todo = q.todo \ {d}] EXCEPT !.pc = "read", !.d = d,
                         !.set = [KeepAll EXCEPT !.status = "accepted"]])
    BY <1>7 DEF acceptLinkedDecisions
  <2> QED BY <1>4, <1>5, <2>1
<1>8. CASE AcceptEnd(r)
  BY <1>6, <1>8 DEF AcceptEnd
<1> QED BY <1>7, <1>8

\* What the transaction of r sees of a decision that is there is a row.
LEMMA SeenRow ==
  ASSUME DecInv, NEW r \in Requests, NEW d \in DecSlugs, dec[d] # None
  PROVE  /\ GetDecision(r, d) = Sees(decReq[r], dec, d)
         /\ Sees(decReq[r], dec, d) \in DecRow
         /\ dec[d] \in DecRow /\ dec[d].version \in Nat
         /\ Sees(decReq[r], dec, d).version \in Nat
         /\ dec[d].version <= Sees(decReq[r], dec, d).version
<1>1. dec[d] \in DecRow /\ Sees(decReq[r], dec, d) \in DecRow
  BY DecTypes DEF Sees
<1>2. \A row \in DecRow : row.version \in Nat
  BY DecAssumption DEF DecRow
<1>3. dec[d].version <= Sees(decReq[r], dec, d).version
  <2>1. CASE decReq[r].own[d] # None
    BY <2>1, DecTypes DEF DecFine, OwnFine, Sees
  <2>2. CASE decReq[r].own[d] = None
    <3>1. Sees(decReq[r], dec, d) = dec[d]
      BY <2>2 DEF Sees
    <3> QED BY <1>1, <1>2, <3>1
  <2> QED BY <2>1, <2>2
<1> QED BY <1>1, <1>2, <1>3 DEF GetDecision, Sees

\* UpdateDecision's first read.
LEMMA DecReadInv ==
  ASSUME DecInv, NEW r \in Requests, UpdateDecisionRead(r)
  PROVE  DecInv'
<1> DEFINE q == decReq[r]
           row == GetDecision(r, q.d)
           f == [q EXCEPT !.pc = "write", !.read = row]
<1>0. StoreUnchanged /\ q.pc = "read" /\ DecGo(r, f)
  BY DEF UpdateDecisionRead
<1>1. q \in DecRequest /\ DecFine(q, dec, Known, shaped, reproposed, overlooked)
  BY DecTypes
<1>2. /\ DecForm(q) /\ OwnFine(q, dec) /\ Found(q, dec) /\ Settling(q, dec, shaped, reproposed, overlooked)
      /\ Guarded(q, dec) /\ q.d \in DecSlugs /\ dec[q.d] # None
  BY <1>0, <1>1 DEF DecFine, DecForm, Found
<1>3. row \in DecRow /\ row = Sees(q, dec, q.d) /\ dec[q.d].version \in Nat
  BY <1>2, SeenRow
<1>4. q.op = "update" => row = dec[q.d]
  BY <1>0, <1>2, <1>3 DEF DecForm, Sees
<1> HIDE DEF q, row
<1>5. f \in DecRequest
  BY <1>1, <1>3 DEF DecRequest
<1>6. /\ f.own = q.own /\ f.spec = q.spec /\ f.op = q.op /\ f.set = q.set /\ f.pc = "write" /\ f.d = q.d
      /\ f.todo = q.todo /\ f.named = q.named /\ f.expected = q.expected /\ f.read = row
  BY <1>1 DEF DecRequest
<1> HIDE DEF f
<1>7. DecForm(f)
  BY <1>0, <1>2, <1>6 DEF DecForm, q
<1>8. Found(f, dec) /\ OwnFine(f, dec) /\ Linking(f, dec, Known)
  BY <1>0, <1>2, <1>3, <1>6 DEF Found, OwnFine, Linking, DecForm, q
<1>9. Guarded(f, dec)
  <2> SUFFICES ASSUME f.op = "update", f.expected > 0
               PROVE  f.expected <= row.version /\ row.version <= dec[q.d].version
    BY <1>4, <1>6 DEF Guarded
  <2>1. q.expected <= dec[q.d].version
    BY <1>0, <1>2, <1>6 DEF Guarded, q
  <2> QED BY <1>3, <1>4, <1>6, <2>1
<1>10. Settling(f, dec, shaped, reproposed, overlooked)
  <2>1. \A x : Sees(f, dec, x) = Sees(q, dec, x)
    BY <1>6 DEF Sees
  <2> QED BY <1>0, <1>2, <1>6, <2>1 DEF Settling, q
<1>11. DecFine(f, dec, Known, shaped, reproposed, overlooked)
  BY <1>7, <1>8, <1>9, <1>10 DEF DecFine
<1> QED BY <1>0, <1>5, <1>6, <1>11, DecMoves DEF q

\* UpdateDecision's UPDATE.
LEMMA DecWriteInv ==
  ASSUME DecInv, NEW r \in Requests, UpdateDecisionWrite(r)
  PROVE  DecInv'
<1> DEFINE q == decReq[r]
           row == GetDecision(r, q.d)
           new == Applied(row, q.set, None)
           ow == [q.own EXCEPT ![q.d] = new]
           pc2 == IF q.op = "approve" THEN "accept" ELSE "commit"
           f == [q EXCEPT !.pc = pc2, !.own = ow]
<1>0. /\ StoreUnchanged /\ q.pc = "write" /\ ~RowHeld(r, q.d) /\ VersionMatches(q, row)
      /\ row.version < MaxDecVersion /\ DecGo(r, f)
  BY DEF UpdateDecisionWrite, UpdatedRow
<1>1. q \in DecRequest /\ DecFine(q, dec, Known, shaped, reproposed, overlooked) /\ q.own \in [DecSlugs -> DecRow \cup {None}]
      /\ q.set \in [text : Texts \cup {None}, status : Status \cup {None}] /\ q.expected \in Nat
  BY DecTypes, DecAssumption DEF DecRequest
<1>2. /\ DecForm(q) /\ OwnFine(q, dec) /\ Found(q, dec) /\ Settling(q, dec, shaped, reproposed, overlooked)
      /\ Guarded(q, dec) /\ q.d \in DecSlugs /\ dec[q.d] # None /\ q.op \in {"update", "approve"}
      /\ q.read \in DecRow
  BY <1>0, <1>1 DEF DecFine, DecForm, Found
<1>3. /\ row \in DecRow /\ row = Sees(q, dec, q.d) /\ row.version \in Nat
      /\ dec[q.d].version \in Nat /\ dec[q.d].version <= row.version
  BY <1>2, SeenRow
<1>4. q.op = "update" => row = dec[q.d]
  BY <1>0, <1>2, <1>3 DEF DecForm, Sees
<1>5. /\ new \in DecRow /\ RowFine(new) /\ new.version = row.version + 1
      /\ new.status = IF q.set.status = None THEN row.status ELSE q.set.status
  <2> HIDE DEF q, row
  <2> QED BY <1>0, <1>1, <1>3, AppliedRow DEF q
<1>6. q.read.version \in Nat
  BY <1>2, DecAssumption DEF DecRow
<1>20. q.pc = "write" /\ VersionMatches(q, row)
  BY <1>0
<1> HIDE DEF q, row, new
<1>7. /\ ow \in [DecSlugs -> DecRow \cup {None}] /\ ow[q.d] = new /\ new # None
      /\ \A x \in DecSlugs : x # q.d => ow[x] = q.own[x]
  BY <1>1, <1>2, <1>5, DecAssumption
<1>8. pc2 \in {"commit", "accept"} /\ (pc2 = "accept" <=> q.op = "approve")
  OBVIOUS
<1> HIDE DEF ow, pc2
<1>9. f \in DecRequest
  BY <1>1, <1>7, <1>8 DEF DecRequest
<1>10. /\ f.own = ow /\ f.spec = q.spec /\ f.op = q.op /\ f.set = q.set /\ f.pc = pc2 /\ f.d = q.d
       /\ f.todo = q.todo /\ f.named = q.named /\ f.expected = q.expected /\ f.read = q.read
  BY <1>1 DEF DecRequest
<1> HIDE DEF f
<1>11. q.pc = "write"
  BY <1>20
<1>12. DecForm(f)
  <2>1. q.op = "update" => \A x \in DecSlugs : q.own[x] = None
    BY <1>2, <1>11 DEF DecForm
  <2> QED BY <1>2, <1>7, <1>8, <1>10, <2>1 DEF DecForm
<1>13. Found(f, dec)
  BY <1>2, <1>8, <1>10 DEF Found
<1>14. OwnFine(f, dec)
  <2>1. ASSUME NEW x \in DecSlugs, ow[x] # None, x # q.d
        PROVE  /\ RowFine(ow[x])
               /\ dec[x] # None => dec[x].version <= ow[x].version
               /\ f.op = "approve" => ow[x].status # "proposed"
               /\ f.op # "update"
    <3>1. ow[x] = q.own[x] /\ q.own[x] # None
      BY <1>7, <2>1
    <3>2. q.op # "update"
      BY <1>2, <2>1, <3>1 DEF DecForm
    <3> QED BY <1>2, <1>10, <3>1, <3>2 DEF OwnFine
  <2>2. dec[q.d].version <= ow[q.d].version
    <3>1. ow[q.d].version = row.version + 1
      BY <1>5, <1>7
    <3> QED BY <1>3, <3>1
  <2>3. f.op = "approve" => ow[q.d].status # "proposed"
    <3>1. q.op = "approve" => q.set.status = "accepted"
      BY <1>2, <1>11 DEF DecForm
    <3>2. q.op = "approve" => new.status = "accepted"
      BY <1>5, <3>1, DecAssumption DEF Status
    <3> QED BY <1>7, <1>10, <3>2
  <2>4. f.op = "update" /\ ow[q.d].status = "proposed" =>
          dec[q.d].status = "proposed" \/ f.set.status = "proposed"
    BY <1>4, <1>5, <1>7, <1>10
  <2>5. RowFine(ow[q.d]) /\ f.op \notin {"create", "shape"}
    BY <1>2, <1>5, <1>7, <1>10
  <2> SUFFICES ASSUME NEW x \in DecSlugs, f.own[x] # None
               PROVE  /\ RowFine(f.own[x])
                      /\ dec[x] # None => dec[x].version <= f.own[x].version
                      /\ f.op \in {"create", "shape"} => dec[x] = None
                      /\ f.op = "approve" => f.own[x].status # "proposed"
                      /\ f.op = "update" /\ f.own[x].status = "proposed" =>
                           dec[x].status = "proposed" \/ f.set.status = "proposed"
    BY DEF OwnFine
  <2>6. CASE x = q.d
    BY <1>10, <2>2, <2>3, <2>4, <2>5, <2>6
  <2>7. CASE x # q.d
    BY <1>10, <2>1, <2>5, <2>7
  <2> QED BY <2>6, <2>7
<1>15. Guarded(f, dec)
  <2> SUFFICES ASSUME f.op = "update", f.expected > 0
               PROVE  q.read.version + 1 = new.version
    BY <1>7, <1>8, <1>10 DEF Guarded
  <2>1. q.expected <= q.read.version /\ q.read.version <= row.version
    BY <1>2, <1>4, <1>10, <1>11 DEF Guarded
  <2>2. q.expected = row.version
    BY <1>20, <1>10 DEF VersionMatches
  <2>3. q.read.version = row.version
    BY <1>3, <1>6, <2>1, <2>2
  <2> QED BY <1>5, <2>3
<1>16. Settling(f, dec, shaped, reproposed, overlooked)
  <2> SUFFICES ASSUME f.op = "approve", NEW x \in shaped[q.spec] \ reproposed, x \notin q.todo
               PROVE  <<q.spec, x>> \in overlooked \/ Sees(f, dec, x).status # "proposed"
    BY <1>8, <1>10 DEF Settling
  <2>0. x \in DecSlugs /\ shaped[q.spec] \subseteq DecSlugs
    <3>1. q.spec \in CitingSpecs
      BY <1>2, <1>10 DEF DecForm
    <3> QED BY <3>1 DEF DecInv, DecTypeOK
  <2>1. CASE x = q.d
    <3>1. Sees(f, dec, x) = new
      BY <1>7, <1>10, <2>1 DEF Sees
    <3>2. ow[q.d].status # "proposed"
      BY <1>2, <1>7, <1>10, <1>14 DEF OwnFine
    <3> QED BY <1>7, <3>1, <3>2
  <2>2. CASE x # q.d
    <3>1. Sees(f, dec, x) = Sees(q, dec, x)
      BY <1>7, <1>10, <2>0, <2>2 DEF Sees
    <3>2. <<q.spec, x>> \in overlooked \/ Sees(q, dec, x).status # "proposed"
      BY <1>2, <1>10, <1>11, <2>2 DEF Settling
    <3> QED BY <3>1, <3>2
  <2> QED BY <2>1, <2>2
<1>21. Linking(f, dec, Known)
  BY <1>2, <1>10 DEF Linking
<1>17. DecFine(f, dec, Known, shaped, reproposed, overlooked)
  BY <1>12, <1>13, <1>14, <1>15, <1>16, <1>21 DEF DecFine
<1>18. \A x \in DecSlugs : f.own[x] # None => decReq[r].own[x] # None \/ ~RowHeld(r, x)
  BY <1>0, <1>7, <1>10 DEF q
<1>19. \A s \in CitingSpecs : f.spec = s => decReq[r].spec = s \/ ~SpecHeld(r, s)
  BY <1>10 DEF q
<1>22. f.op = decReq[r].op /\ f.spec = decReq[r].spec
  BY <1>10 DEF q
<1> QED BY <1>0, <1>9, <1>17, <1>18, <1>19, <1>22, DecMoves

\* The rows after the commit of q.
Committed(q, rows) == [d \in DecSlugs |-> IF q.own[d] # None THEN q.own[d] ELSE rows[d]]

\* A commit loses no row, takes no version back, and unsettles only what its
\* client has set back.
LEMMA CommittedRows ==
  ASSUME DecInv, NEW r \in Requests, NEW back, reproposed \subseteq back,
         decReq[r].set.status = "proposed" => decReq[r].d \in back
  PROVE  LET new == Committed(decReq[r], dec)
         IN  /\ new \in [DecSlugs -> DecRow \cup {None}]
             /\ \A d \in DecSlugs : new[d] = Sees(decReq[r], dec, d)
             /\ \A d \in DecSlugs : new[d] # None => RowFine(new[d])
             /\ \A d \in DecSlugs : dec[d] # None => new[d] # None
             /\ \A d \in DecSlugs : dec[d] # None => dec[d].version <= new[d].version
             /\ \A d \in DecSlugs \ back :
                  dec[d] # None /\ new[d].status = "proposed" => dec[d].status = "proposed"
<1> DEFINE q == decReq[r]
           new == Committed(q, dec)
<1>1. /\ dec \in [DecSlugs -> DecRow \cup {None}] /\ q.own \in [DecSlugs -> DecRow \cup {None}]
      /\ DecForm(q) /\ OwnFine(q, dec) /\ q.op \in {"none", "create", "shape", "update", "approve"}
  BY DecTypes DEF DecFine, DecRequest
<1>2. new \in [DecSlugs -> DecRow \cup {None}] /\ \A d \in DecSlugs : new[d] = Sees(q, dec, d)
  BY <1>1 DEF Committed, Sees
<1>3. \A d \in DecSlugs : dec[d] # None => RowFine(dec[d])
  BY DEF DecInv, StoreFine
<1>4. \A d \in DecSlugs : dec[d] # None => dec[d].version <= Sees(q, dec, d).version
  BY SeenRow
<1>5. ASSUME NEW d \in DecSlugs, d \notin back, dec[d] # None, new[d].status = "proposed"
      PROVE  dec[d].status = "proposed"
  <2>1. CASE q.own[d] = None
    BY <1>2, <1>5, <2>1 DEF Sees
  <2>2. CASE q.own[d] # None
    <3>1. q.own[d].status = "proposed"
      BY <1>2, <1>5, <2>2 DEF Sees
    <3>2. q.op = "update" /\ d = q.d
      BY <1>1, <1>5, <2>2, <3>1 DEF OwnFine, DecForm
    <3>3. q.set.status # "proposed"
      BY <1>5, <3>2
    <3> QED BY <1>1, <2>2, <3>1, <3>2, <3>3 DEF OwnFine
  <2> QED BY <2>1, <2>2
<1>6. \A d \in DecSlugs : new[d] # None => RowFine(new[d])
  BY <1>1, <1>2, <1>3 DEF OwnFine, Sees
<1>7. \A d \in DecSlugs : dec[d] # None => new[d] # None
  BY <1>2 DEF Sees
<1> QED BY <1>2, <1>4, <1>5, <1>6, <1>7

\* The other requests when r commits.
LEMMA OthersFine ==
  ASSUME DecInv, NEW r \in Requests, NEW o \in Requests, o # r, NEW back, reproposed \subseteq back,
         decReq[r].set.status = "proposed" => decReq[r].d \in back,
         NEW known, Known \subseteq known, NEW named, \A s \in CitingSpecs : decReq[o].spec = s => named[s] = shaped[s]
  PROVE  DecFine(decReq[o], Committed(decReq[r], dec), known, named, back, overlooked)
<1> DEFINE q == decReq[o]
           new == Committed(decReq[r], dec)
<1>1. /\ \A d \in DecSlugs : new[d] = Sees(decReq[r], dec, d)
      /\ \A d \in DecSlugs : dec[d] # None => new[d] # None
      /\ \A d \in DecSlugs : dec[d] # None => dec[d].version <= new[d].version
      /\ \A d \in DecSlugs \ back :
           dec[d] # None /\ new[d].status = "proposed" => dec[d].status = "proposed"
      /\ new \in [DecSlugs -> DecRow \cup {None}]
  BY CommittedRows
<1>2. \A d \in DecSlugs : q.own[d] # None => new[d] = dec[d]
  <2>1. \A d \in DecSlugs : q.own[d] # None => decReq[r].own[d] = None
    BY DEF DecInv, DecLocks
  <2> QED BY <1>1, <2>1 DEF Sees
<1>3. /\ q \in DecRequest /\ q.todo \subseteq DecSlugs /\ q.named \subseteq DecSlugs
      /\ dec \in [DecSlugs -> DecRow \cup {None}]
      /\ DecForm(q) /\ OwnFine(q, dec) /\ Found(q, dec) /\ Guarded(q, dec)
      /\ Settling(q, dec, shaped, reproposed, overlooked) /\ Linking(q, dec, Known)
      /\ q.fresh \subseteq DecSlugs
  BY DecTypes DEF DecFine, DecRequest
<1> HIDE DEF new, q
<1>4. OwnFine(q, new)
  BY <1>2, <1>3 DEF OwnFine
<1>5. Found(q, new)
  BY <1>1, <1>3 DEF Found, DecForm
<1>6. Guarded(q, new)
  <2>1. \A row \in DecRow : row.version \in Nat
    BY DecAssumption DEF DecRow
  <2>2. q.expected \in Nat /\ (q.pc = "write" => q.read.version \in Nat)
    BY <1>3, <2>1, DecAssumption DEF DecRequest, Found
  <2> SUFFICES ASSUME q.op = "update", q.expected > 0, q.pc \in {"read", "write"}
               PROVE  /\ q.expected <= new[q.d].version
                      /\ q.pc = "write" => q.read.version <= new[q.d].version
    BY <1>3 DEF Guarded
  <2>3. q.d \in DecSlugs /\ dec[q.d] # None /\ new[q.d] # None
    BY <1>1, <1>3 DEF DecForm, Found
  <2>4. dec[q.d].version \in Nat /\ new[q.d].version \in Nat /\ dec[q.d].version <= new[q.d].version
    BY <1>1, <1>3, <2>1, <2>3
  <2>5. q.expected <= dec[q.d].version /\ (q.pc = "write" => q.read.version <= dec[q.d].version)
    BY <1>3 DEF Guarded
  <2> QED BY <2>2, <2>4, <2>5
<1>8. Linking(q, new, known)
  <2>1. ASSUME q.op = "shape", NEW d \in q.fresh PROVE new[d] # None \/ q.own[d] # None
    <3>1. d \in DecSlugs /\ (dec[d] # None \/ q.own[d] # None)
      BY <1>3, <2>1 DEF Linking
    <3> QED BY <1>1, <3>1
  <2> QED BY <1>3, <2>1 DEF Linking
<1>7. Settling(q, new, named, back, overlooked)
  <2> SUFFICES ASSUME q.op = "approve", q.pc \in {"accept", "read", "write", "commit"},
                      NEW d \in named[q.spec] \ back, d \notin q.todo,
                      ~(q.pc \in {"read", "write"} /\ d = q.d), <<q.spec, d>> \notin overlooked
               PROVE  Sees(q, new, d).status # "proposed"
    BY DEF Settling
  <2>1. q.spec \in CitingSpecs /\ named[q.spec] = shaped[q.spec]
    BY <1>3 DEF DecForm, q
  <2>2. d \in DecSlugs /\ dec[d] # None
    <3>1. shaped[q.spec] \subseteq DecSlugs
      BY <2>1 DEF DecInv, DecTypeOK
    <3>2. dec[d] # None
      BY <2>1 DEF DecInv, StoreFine
    <3> QED BY <2>1, <3>1, <3>2
  <2>3. Sees(q, dec, d).status # "proposed"
    BY <1>3, <2>1 DEF Settling
  <2> QED BY <1>1, <2>2, <2>3 DEF Sees
<1> QED BY <1>3, <1>4, <1>5, <1>6, <1>7, <1>8 DEF DecFine, q, new

\* A commit.
LEMMA DecCommitInv ==
  ASSUME DecInv, NEW r \in Requests, DecCommit(r)
  PROVE  DecInv'
<1> DEFINE q == decReq[r]
           new == Committed(q, dec)
           back == reproposed \cup (IF q.set.status = "proposed" THEN {q.d} ELSE {})
<1>0. /\ q.pc = "commit" /\ dec' = new /\ reproposed' = back /\ DecGo(r, DecIdle)
      /\ overlooked' = overlooked
  BY DEF DecCommit, Committed
<1>1. /\ q \in DecRequest /\ DecForm(q) /\ Found(q, dec) /\ Settling(q, dec, shaped, reproposed, overlooked)
      /\ q.named \subseteq DecSlugs /\ q.fresh \subseteq DecSlugs /\ Linking(q, dec, Known)
      /\ q.op \in {"none", "create", "shape", "update", "approve"}
  BY DecTypes DEF DecFine, DecRequest
<1>2. reproposed \subseteq back /\ back \subseteq DecSlugs /\ (q.set.status = "proposed" => q.d \in back)
  BY <1>1 DEF DecForm, DecInv, DecTypeOK
<1> HIDE DEF back
<1>3. /\ new \in [DecSlugs -> DecRow \cup {None}]
      /\ \A d \in DecSlugs : new[d] = Sees(q, dec, d)
      /\ \A d \in DecSlugs : new[d] # None => RowFine(new[d])
      /\ \A d \in DecSlugs : dec[d] # None => new[d] # None
      /\ \A d \in DecSlugs \ back : dec[d] # None /\ new[d].status = "proposed" => dec[d].status = "proposed"
  BY <1>2, CommittedRows
<1>4. /\ decided \subseteq CitingSpecs \X DecSlugs /\ unlinked \subseteq CitingSpecs \X DecSlugs
      /\ overlooked \subseteq CitingSpecs \X DecSlugs
      /\ decStage \in [CitingSpecs -> {"spark", "shape", "decompose", "approved"}]
      /\ shaped \in [CitingSpecs -> SUBSET DecSlugs]
      /\ StoreFine(dec, decided, Known, decStage, shaped, reproposed, overlooked)
  BY DEF DecInv, DecTypeOK
<1>5. /\ decided' \subseteq CitingSpecs \X DecSlugs /\ unlinked' \subseteq CitingSpecs \X DecSlugs
      /\ Known \subseteq Known'
      /\ decStage' \in [CitingSpecs -> {"spark", "shape", "decompose", "approved"}]
      /\ shaped' \in [CitingSpecs -> SUBSET DecSlugs]
      /\ \A s \in CitingSpecs : s # q.spec =>
           shaped'[s] = shaped[s] /\ (decStage'[s] = "approved" => decStage[s] = "approved")
      /\ \/ /\ q.op = "shape" /\ q.spec \in CitingSpecs
            /\ decided' = decided \cup {<<q.spec, d>> : d \in q.fresh}
            /\ shaped'[q.spec] = q.named /\ decStage'[q.spec] = "shape"
         \/ /\ q.op = "approve" /\ q.spec \in CitingSpecs /\ decided' = decided /\ shaped' = shaped
         \/ /\ decided' = decided /\ shaped' = shaped /\ decStage' = decStage
  <2>1. CASE q.op = "shape"
    <3>1. /\ decided' = decided \cup {<<q.spec, d>> : d \in q.fresh}
          /\ unlinked' = unlinked \ {<<q.spec, d>> : d \in q.fresh}
          /\ shaped' = [shaped EXCEPT ![q.spec] = q.named]
          /\ decStage' = [decStage EXCEPT ![q.spec] = "shape"]
      BY <2>1 DEF DecCommit, FreshEdges
    <3>2. q.spec \in CitingSpecs
      BY <1>1, <2>1 DEF DecForm
    <3>3. Known \subseteq Known'
      BY <3>1 DEF Known
    <3> HIDE DEF q, Known
    <3> QED BY <1>1, <1>4, <2>1, <3>1, <3>2, <3>3
  <2>2. CASE q.op = "approve"
    <3>1. decided' = decided /\ unlinked' = unlinked /\ shaped' = shaped /\ decStage' = [decStage EXCEPT ![q.spec] = "approved"]
      BY <2>2 DEF DecCommit
    <3>2. q.spec \in CitingSpecs
      BY <1>1, <2>2 DEF DecForm
    <3>3. Known \subseteq Known'
      BY <3>1 DEF Known
    <3> HIDE DEF q, Known
    <3> QED BY <1>4, <2>2, <3>1, <3>2, <3>3
  <2>3. CASE q.op \notin {"shape", "approve"}
    <3>1. decided' = decided /\ unlinked' = unlinked /\ shaped' = shaped /\ decStage' = decStage
      BY <2>3 DEF DecCommit
    <3>3. Known \subseteq Known'
      BY <3>1 DEF Known
    <3> HIDE DEF q, Known
    <3> QED BY <1>4, <3>1, <3>3
  <2> QED BY <2>1, <2>2, <2>3
<1> HIDE DEF new
<1>6. StoreFine(new, decided', Known', decStage', shaped', back, overlooked)
  <2>1. \A e \in decided' : new[e[2]] # None
    <3>1. \A e \in decided : new[e[2]] # None
      BY <1>3, <1>4 DEF StoreFine
    <3>2. q.op = "shape" => \A d \in q.fresh : new[d] # None
      BY <1>0, <1>1, <1>3 DEF Linking, Sees
    <3> QED BY <1>5, <3>1, <3>2
  <2>2. ASSUME NEW s \in CitingSpecs, NEW d \in shaped'[s]
        PROVE  <<s, d>> \in Known' /\ new[d] # None
    <3>0. d \in DecSlugs
      BY <1>5
    <3>1. CASE d \in shaped[s]
      <4>1. <<s, d>> \in Known /\ dec[d] # None
        BY <1>4, <3>1 DEF StoreFine
      <4> QED BY <1>3, <1>5, <3>0, <4>1
    <3>2. CASE d \notin shaped[s]
      <4>1. q.op = "shape" /\ s = q.spec /\ d \in q.named /\ q.todo = {}
        BY <1>0, <1>1, <1>5, <2>2, <3>2 DEF DecForm
      <4>2. d \in q.fresh \/ <<s, d>> \in Known
        BY <1>1, <4>1 DEF Linking
      <4>3. dec[d] # None \/ q.own[d] # None
        BY <1>1, <4>1 DEF Found
      <4>4. <<s, d>> \in Known'
        BY <1>5, <3>2, <4>1, <4>2 DEF Known
      <4>5. new[d] # None
        BY <1>3, <3>0, <4>3 DEF Sees
      <4> QED BY <4>4, <4>5
    <3> QED BY <3>1, <3>2
  <2>3. ASSUME NEW s \in CitingSpecs, decStage'[s] = "approved", NEW d \in shaped'[s] \ back
        PROVE  new[d].status # "proposed" \/ <<s, d>> \in overlooked
    <3>1. shaped'[s] = shaped[s]
      BY <1>5, <2>3
    <3>2. d \in DecSlugs /\ d \in shaped[s] \ reproposed /\ dec[d] # None
      <4>1. d \in DecSlugs /\ d \in shaped[s] \ reproposed
        BY <1>2, <1>4, <2>3, <3>1
      <4>2. dec[d] # None
        BY <1>4, <4>1 DEF StoreFine
      <4> QED BY <4>1, <4>2
    <3>3. CASE decStage[s] = "approved"
      BY <1>3, <1>4, <2>3, <3>2, <3>3 DEF StoreFine
    <3>4. CASE decStage[s] # "approved"
      <4>1. q.op = "approve" /\ s = q.spec
        BY <1>5, <2>3, <3>4
      <4>2. q.todo = {}
        BY <1>0, <1>1, <4>1 DEF DecForm
      <4>3. Sees(q, dec, d).status # "proposed" \/ <<s, d>> \in overlooked
        BY <1>0, <1>1, <3>2, <4>1, <4>2 DEF Settling
      <4> QED BY <1>3, <3>2, <4>3
    <3> QED BY <3>3, <3>4
  <2> HIDE DEF q
  <2> QED BY <1>3, <2>1, <2>2, <2>3 DEF StoreFine
<1>7. decReq \in [Requests -> DecRequest]
  BY DEF DecInv, DecTypeOK
<1>8. decReq' \in [Requests -> DecRequest] /\ \A o \in Requests : decReq'[o] = IF o = r THEN DecIdle ELSE decReq[o]
  BY <1>0, <1>7, DecIdleFine DEF DecGo
<1>9. \A o \in Requests : DecFine(decReq'[o], new, Known', shaped', back, overlooked)
  <2>1. ASSUME NEW o \in Requests, o # r PROVE DecFine(decReq[o], new, Known', shaped', back, overlooked)
    <3>1. ASSUME NEW s \in CitingSpecs, decReq[o].spec = s PROVE shaped'[s] = shaped[s]
      <4>1. s # q.spec
        BY <2>1, <3>1 DEF DecInv, DecLocks
      <4> QED BY <1>5, <4>1
    <3> QED BY <1>2, <1>5, <2>1, <3>1, OthersFine DEF new
  <2> QED BY <1>8, <2>1, DecIdleFine
<1>10. DecLocks(decReq')
  <2>1. /\ \A d \in DecSlugs : DecIdle.own[d] = None
        /\ \A s \in CitingSpecs : DecIdle.spec # s
    BY DecIdleFine, DecAssumption DEF DecIdle
  <2>2. DecLocks(decReq)
    BY DEF DecInv
  <2> HIDE DEF q
  <2> QED BY <1>8, <2>1, <2>2 DEF DecLocks
<1>11. Approving(decReq', decStage')
  <2> SUFFICES ASSUME NEW o \in Requests, o # r, decReq[o].op = "approve"
               PROVE  decStage'[decReq[o].spec] # "approved"
    BY <1>8, DecIdleFine DEF Approving
  <2>1. decReq[o].spec \in CitingSpecs /\ decStage[decReq[o].spec] # "approved"
    BY DEF DecInv, DecFine, DecForm, Approving
  <2>2. decReq[o].spec # q.spec
    BY <2>1 DEF DecInv, DecLocks
  <2> QED BY <1>5, <2>1, <2>2
<1> HIDE DEF q, DecLocks, DecFine, StoreFine, DecCommit, Approving, Known
<1> QED BY <1>0, <1>2, <1>3, <1>4, <1>5, <1>6, <1>8, <1>9, <1>10, <1>11 DEF DecInv, DecTypeOK

\* The initial state satisfies the invariant.
LEMMA DecInitInv == DecInit => DecInv
<1> SUFFICES ASSUME DecInit PROVE DecInv
  OBVIOUS
<1>1. \A r \in Requests : decReq[r] = DecIdle
  BY DEF DecInit
<1>2. DecTypeOK
  BY DecIdleFine DEF DecInit, DecTypeOK
<1>3. \A d \in DecSlugs : dec[d] = None
  BY DEF DecInit, NoRow
<1>4. StoreFine(dec, decided, Known, decStage, shaped, reproposed, overlooked) /\ Approving(decReq, decStage)
  BY <1>1, <1>3, DecIdleFine DEF DecInit, StoreFine, Approving
<1>5. DecLocks(decReq)
  <2>1. /\ \A d \in DecSlugs : DecIdle.own[d] = None
        /\ \A s \in CitingSpecs : DecIdle.spec # s
    BY DecIdleFine, DecAssumption DEF DecIdle
  <2> QED BY <1>1, <2>1 DEF DecLocks
<1> QED BY <1>1, <1>2, <1>4, <1>5, DecIdleFine DEF DecInv

\* Every step keeps the invariant.
LEMMA DecNextInv == DecInv /\ [DecNext]_decVars => DecInv'
<1>1. DecInv /\ UNCHANGED decVars => DecInv'
  BY DEF decVars, linkVars, DecInv, DecTypeOK, Known
<1>2. ASSUME DecInv, NEW r \in Requests,
             DecisionAlreadyExists(r) \/ ErrConcurrentModification(r) \/ DecFail(r)
      PROVE  DecInv'
  BY <1>2, DecAbortInv DEF DecisionAlreadyExists, ErrConcurrentModification, DecFail
<1> QED BY <1>1, <1>2, DecOtherStageInv, DecLinksInv, DecClientsInv, DecStagesInv, DecPromotesInv, DecCreateInv,
           DecListInv, DecAcceptInv, DecReadInv, DecWriteInv, DecCommitInv DEF DecNext

\* In every reachable state the hash of a decision is that of its row, and a
\* guarded update computed its changelog entry from the row it replaces, however
\* many updates, promotions and approvals overlap on however many decisions.
THEOREM UpdatesSeeTheLast == DecSpec => []UpdatesSeeLast
<1>1. DecInv => UpdatesSeeLast
  BY DEF DecInv, StoreFine, RowFine, DecFine, Guarded, UpdatesSeeLast, DecisionHashNamesRow,
         GuardedUpdateSeesLast
<1> QED BY <1>1, DecInitInv, DecNextInv, PTL DEF DecSpec

\* In every reachable state no decision that an approved spec's shape output
\* names is left proposed, whoever created the decision and whatever ran beside
\* the approval, unless a client set it back or had removed its edge to the spec
\* when the approval listed the spec's decisions.
THEOREM ApprovalsSettleDecisions == DecSpec => []ApprovedDecisionsSettled
<1>1. DecInv => ApprovedDecisionsSettled
  BY DEF DecInv, StoreFine, ApprovedDecisionsSettled
<1> QED BY <1>1, DecInitInv, DecNextInv, PTL DEF DecSpec
-----------------------------------------------------------------------------
(***************************************************************************)
(* The log of a spec.  An id is drawn once and later than the ids of all   *)
(* conversations that are committed, so the edges that a transaction       *)
(* brings along are those of its own conversation alone.                   *)
(***************************************************************************)

\* What a request holds at each of its steps.
LogForm(q) ==
    /\ q.pass = None => q.gone = {} /\ q.new = None
    /\ q.pc \in {"snapshot", "delete", "finding"} => q.pass # None
    /\ q.pc \in {"idle", "record", "prev", "insert"} => q.conv = None
    /\ q.gate /\ q.pc = "record" => q.row # None /\ q.row.stage = q.stage
    /\ q.pc \in {"prev", "insert"} => q.version \in 1 .. MaxVersion
    /\ q.gate /\ q.pc \in {"prev", "insert"} => q.change = [version |-> q.version, stage |-> q.stage]
    /\ q.conv = None => q.edges = {} /\ q.explains = {}

\* Edge e hangs conversation c on an older one of cs, or on the spec.
HangsOn(e, c, cs) ==
    /\ e.to = c.id
    /\ e.type = "CONTINUES" => \E p \in cs : p.id = e.from /\ p.id < c.id

\* The conversation of a request is new to the committed ones, cs, hangs on one
\* of them, and explains the transition of its transaction.
LogLinks(q, cs, next) ==
    /\ q.pc = "insert" /\ q.prev # None => \E p \in cs : p.id = q.prev
    /\ q.conv # None =>
         /\ q.conv.id < next /\ \A c \in cs : c.id # q.conv.id
         /\ \E e \in q.edges : q.edges = {e} /\ HangsOn(e, q.conv, cs)
         /\ \A x \in q.explains : x[1] = q.conv.id
         /\ q.conv.gate => {x[2] : x \in q.explains} = {[version |-> q.conv.version, stage |-> q.conv.stage]}

LogFine(q, cs, next) == LogForm(q) /\ LogLinks(q, cs, next)

\* The committed conversations cs with their edges es and xs.
LogStore(cs, es, xs, next) ==
    /\ \A c \in cs : c.id < next
    /\ \A e \in es : \E c \in cs : c.id = e.to
    /\ \A x \in xs : \E c \in cs : c.id = x[1]
    /\ \A c \in cs : \E e \in es : HangsOn(e, c, cs) /\ \A f \in es : f.to = c.id => f = e
    /\ \A c \in cs : c.gate => {x[2] : x \in {y \in xs : y[1] = c.id}} = {[version |-> c.version, stage |-> c.stage]}

NewApart(reqs) ==
    \A r, o \in Requests : r # o /\ reqs[r].conv # None /\ reqs[o].conv # None =>
        reqs[r].conv.id # reqs[o].conv.id

ConvInv ==
    /\ ConvTypeOK
    /\ LogStore(convs, convEdges, explains, nextLog)
    /\ FindingEdgesMatch
    /\ NewApart(convReq)
    /\ \A r \in Requests : LogFine(convReq[r], convs, nextLog)

\* What the invariant says of a request.
LEMMA ConvTypes ==
  ASSUME ConvInv, NEW r \in Requests
  PROVE  /\ convReq \in [Requests -> ConvRequest] /\ convReq[r] \in ConvRequest
         /\ LogForm(convReq[r]) /\ LogLinks(convReq[r], convs, nextLog)
         /\ specRow \in SpecRow /\ convs \subseteq Conv /\ nextLog \in Nat /\ nextLog <= MaxLogs + 1
<1>1. nextLog \in 0 .. MaxLogs + 1
  BY DEF ConvInv, ConvTypeOK
<1>2. nextLog \in Nat /\ nextLog <= MaxLogs + 1
  BY <1>1, ConvAssumption
<1> QED BY <1>2 DEF ConvInv, ConvTypeOK, LogFine

\* An idle request.
LEMMA ConvIdleFine ==
  /\ ConvIdle \in ConvRequest
  /\ ConvIdle.conv = None /\ ConvIdle.pc = "idle" /\ ConvIdle.pass = None /\ ConvIdle.gone = {}
  /\ ConvIdle.new = None /\ ConvIdle.edges = {} /\ ConvIdle.explains = {}
  /\ ConvIdle.gate = FALSE
  /\ \A cs, next : LogFine(ConvIdle, cs, next)
<1>1. /\ ConvIdle.conv = None /\ ConvIdle.pc = "idle" /\ ConvIdle.pass = None /\ ConvIdle.gone = {}
      /\ ConvIdle.new = None /\ ConvIdle.edges = {} /\ ConvIdle.explains = {}
      /\ ConvIdle.gate = FALSE
  BY DEF ConvIdle
<1>2. 0 \in StageNo /\ 0 \in 0 .. MaxVersion
  BY ConvAssumption DEF StageNo
<1> DEFINE no == FALSE
<1>3. no \in BOOLEAN /\ {} \in SUBSET ChainEdges /\ {} \in SUBSET (LogIds \X SpecRow) /\ {} \in SUBSET LogIds
  OBVIOUS
<1>4. ConvIdle = [pc |-> "idle", gate |-> no, row |-> None, stage |-> 0, version |-> 0,
                  change |-> None, prev |-> None, conv |-> None, edges |-> {}, explains |-> {},
                  pass |-> None, gone |-> {}, new |-> None]
  BY DEF ConvIdle
<1> HIDE DEF no
<1>5. ConvIdle \in ConvRequest
  BY <1>2, <1>3, <1>4 DEF ConvRequest
<1>6. \A cs, next : LogFine(ConvIdle, cs, next)
  BY <1>1 DEF LogFine, LogForm, LogLinks
<1> QED BY <1>1, <1>5, <1>6

\* A step of one request that commits nothing.
LEMMA ConvMoves ==
  ASSUME ConvInv, NEW r \in Requests, NEW f \in ConvRequest, ConvGo(r, f), ConvStoreUnchanged,
         nextLog' \in 0 .. MaxLogs + 1, nextLog <= nextLog', LogFine(f, convs, nextLog'),
         f.conv # None => f.conv = convReq[r].conv \/ f.conv.id = nextLog
  PROVE  ConvInv'
<1>0. UNCHANGED <<specRow, changes, convs, convEdges, explains, finds, findEdges>>
  BY DEF ConvStoreUnchanged
<1>1. convReq \in [Requests -> ConvRequest] /\ nextLog \in Nat /\ nextLog' \in Nat /\ convs \subseteq Conv
  BY ConvTypes, ConvAssumption
<1>2. convReq' \in [Requests -> ConvRequest]
  BY <1>1 DEF ConvGo
<1>3. \A o \in Requests : convReq'[o] = IF o = r THEN f ELSE convReq[o]
  BY <1>1 DEF ConvGo
<1>4. \A c \in Conv : c.id \in Nat
  BY ConvAssumption DEF Conv, LogIds
<1>5. \A o \in Requests : convReq[o].conv # None => convReq[o].conv.id \in Nat /\ convReq[o].conv.id < nextLog
  <2>1. \A o \in Requests : convReq[o].conv # None => convReq[o].conv \in Conv
    BY <1>1 DEF ConvRequest
  <2>2. \A o \in Requests : convReq[o].conv # None => convReq[o].conv.id < nextLog
    BY DEF ConvInv, LogFine, LogLinks
  <2> QED BY <1>4, <2>1, <2>2
<1>6. NewApart(convReq')
  <2>1. ASSUME NEW o \in Requests, o # r, f.conv # None, convReq[o].conv # None
        PROVE  f.conv.id # convReq[o].conv.id
    <3>1. CASE f.conv = convReq[r].conv
      BY <2>1, <3>1 DEF ConvInv, NewApart
    <3>2. CASE f.conv.id = nextLog
      BY <1>1, <1>5, <2>1, <3>2
    <3> QED BY <2>1, <3>1, <3>2
  <2>2. NewApart(convReq)
    BY DEF ConvInv
  <2> QED BY <1>3, <2>1, <2>2 DEF NewApart
<1>7. \A o \in Requests : LogFine(convReq'[o], convs, nextLog')
  <2>1. ASSUME NEW o \in Requests PROVE LogFine(convReq[o], convs, nextLog')
    <3>1. LogFine(convReq[o], convs, nextLog)
      BY DEF ConvInv
    <3>2. convReq[o].conv # None => convReq[o].conv.id < nextLog'
      <4>1. convReq[o].conv # None => convReq[o].conv.id \in Nat /\ convReq[o].conv.id < nextLog
        BY <1>5
      <4> QED BY <1>1, <4>1
    <3> QED BY <3>1, <3>2 DEF LogFine, LogLinks
  <2> QED BY <1>3, <2>1
<1>8. LogStore(convs, convEdges, explains, nextLog')
  <2>1. LogStore(convs, convEdges, explains, nextLog)
    BY DEF ConvInv
  <2>2. \A c \in convs : c.id < nextLog'
    <3>1. \A c \in convs : c.id \in Nat /\ c.id < nextLog
      BY <1>1, <1>4, <2>1 DEF LogStore
    <3> QED BY <1>1, <3>1
  <2> QED BY <2>1, <2>2 DEF LogStore
<1> HIDE DEF LogStore, LogFine, NewApart, ConvGo
<1> QED BY <1>0, <1>2, <1>6, <1>7, <1>8 DEF ConvInv, ConvTypeOK, FindingEdgesMatch

\* A step of one request that draws no id and writes no conversation.
LEMMA ConvStep ==
  ASSUME ConvInv, NEW r \in Requests, NEW f \in ConvRequest, ConvGo(r, f), ConvStoreUnchanged,
         UNCHANGED nextLog, LogFine(f, convs, nextLog), f.conv = convReq[r].conv \/ f.conv = None
  PROVE  ConvInv'
<1>1. nextLog' \in 0 .. MaxLogs + 1 /\ nextLog <= nextLog' /\ LogFine(f, convs, nextLog')
  <2>1. nextLog' \in 0 .. MaxLogs + 1 /\ LogFine(f, convs, nextLog')
    BY DEF ConvInv, ConvTypeOK
  <2>2. nextLog \in Nat /\ nextLog' = nextLog
    BY ConvTypes
  <2>3. nextLog <= nextLog'
    BY <2>2
  <2> QED BY <2>1, <2>3
<1> QED BY <1>1, ConvMoves

\* There is a newest conversation when there is one.
LEMMA LatestIsOne ==
  ASSUME ConvInv, convs # {}
  PROVE  \E p \in convs : p.id = Latest
<1> DEFINE ids == {c.id : c \in convs}
           S == {n \in 0 .. MaxLogs : \E c \in convs : n + c.id = MaxLogs}
           R == {ss \in Nat \X Nat : ss[1] < ss[2]}
<1>1. \A c \in convs : c.id \in 0 .. MaxLogs
  BY DEF ConvInv, ConvTypeOK, Conv, LogIds
<1>2. S # {} /\ S \subseteq Nat
  <2>1. PICK c \in convs : TRUE
    OBVIOUS
  <2>2. MaxLogs - c.id \in 0 .. MaxLogs /\ (MaxLogs - c.id) + c.id = MaxLogs
    <3>1. c.id \in 0 .. MaxLogs
      BY <1>1
    <3> QED BY <3>1, ConvAssumption
  <2> QED BY <2>2, ConvAssumption
<1>3. IsWellFoundedOn(R, Nat)
  BY NatLessThanWellFounded, Zenon DEF OpToRel
<1>4. PICK m \in S : \A n \in S : ~(<<n, m>> \in R)
  <2> HIDE DEF S, R
  <2> QED BY <1>2, <1>3, WFMin
<1>5. PICK c \in convs : m + c.id = MaxLogs
  BY <1>4
<1>6. \A d \in convs : d.id <= c.id
  <2> SUFFICES ASSUME NEW d \in convs, ~(d.id <= c.id) PROVE FALSE
    OBVIOUS
  <2> DEFINE n == MaxLogs - d.id
  <2>1. d.id \in 0 .. MaxLogs /\ c.id \in 0 .. MaxLogs /\ m \in 0 .. MaxLogs
    BY <1>1, <1>4
  <2>2. n \in 0 .. MaxLogs /\ n + d.id = MaxLogs /\ n < m
    BY <1>5, <2>1, ConvAssumption
  <2> HIDE DEF n
  <2>3. n \in S
    BY <2>2
  <2>4. <<n, m>> \in R
    BY <2>1, <2>2, ConvAssumption
  <2> QED BY <1>4, <2>3, <2>4
<1> DEFINE P(i) == \A d \in convs : d.id <= i
<1>7. c.id \in ids /\ P(c.id)
  BY <1>6
<1>8. Latest = CHOOSE i \in ids : P(i)
  BY DEF Latest
<1> HIDE DEF P
<1>9. Latest \in ids
  BY <1>7, <1>8
<1> QED BY <1>9

\* A request that begins holds no conversation and no finding.
LEMMA ConvBegins ==
  ASSUME ConvInv, NEW r \in Requests, NEW f \in ConvRequest, ConvGo(r, f), ConvStoreUnchanged,
         UNCHANGED nextLog, f.conv = None, f.edges = {}, f.explains = {}, f.gone = {}, f.new = None,
         f.pc = "record" \/ (f.pc = "snapshot" /\ f.pass # None),
         f.gate => f.row # None /\ f.row.stage = f.stage
  PROVE  ConvInv'
<1>1. LogFine(f, convs, nextLog)
  BY DEF LogFine, LogForm, LogLinks
<1> QED BY <1>1, ConvStep

\* The requests.
LEMMA ConvRequestsInv ==
  ASSUME ConvInv, NEW r \in Requests,
         StageHandler(r) \/ RecordConversationRequest(r) \/ ApproveReject(r) \/ StoreFindingsRequest(r)
  PROVE  ConvInv'
<1>0. ConvStoreUnchanged /\ UNCHANGED nextLog
  BY DEF StageHandler, RecordConversationRequest, ApproveReject, StoreFindingsRequest
<1>1. ASSUME StageHandler(r) PROVE ConvInv'
  <2> DEFINE row == [version |-> specRow.version + 1, stage |-> specRow.stage + 1]
             yes == TRUE
             g == [ConvIdle EXCEPT !.pc = "record", !.gate = yes]
             k == row.stage
             f == [g EXCEPT !.row = row, !.stage = k]
  <2>1. row \in SpecRow /\ k \in StageNo /\ row.stage = k
    <3>1. /\ specRow.version \in 1 .. MaxVersion /\ specRow.stage \in 0 .. LastStage
          /\ specRow.version < MaxVersion /\ specRow.stage < LastStage
      BY <1>1, ConvTypes DEF SpecRow, StageNo, StageHandler
    <3>2. specRow.version + 1 \in 1 .. MaxVersion /\ specRow.stage + 1 \in 0 .. LastStage
      BY <3>1, ConvAssumption
    <3> QED BY <3>2 DEF SpecRow, StageNo
  <2>2. ConvGo(r, [ConvIdle EXCEPT !.pc = "record", !.gate = yes, !.row = row, !.stage = k])
    BY <1>1 DEF StageHandler
  <2>3. yes \in BOOLEAN
    OBVIOUS
  <2> HIDE DEF row, yes, k
  <2>4. [ConvIdle EXCEPT !.pc = "record", !.gate = yes, !.row = row, !.stage = k] = f
    BY DEF ConvIdle
  <2>5. /\ g \in ConvRequest /\ g.pc = "record" /\ g.gate = yes /\ g.conv = None /\ g.edges = {}
        /\ g.explains = {} /\ g.gone = {} /\ g.new = None
    BY <2>3, ConvIdleFine DEF ConvRequest
  <2> HIDE DEF g
  <2>6. f \in ConvRequest
    BY <2>1, <2>5 DEF ConvRequest
  <2>7. /\ f.pc = "record" /\ f.conv = None /\ f.edges = {} /\ f.explains = {} /\ f.gone = {}
        /\ f.new = None /\ f.row = row /\ f.stage = k
    BY <2>5 DEF ConvRequest
  <2>8. ConvGo(r, f)
    BY <2>2, <2>4
  <2> HIDE DEF f
  <2>9. f.row # None /\ f.row.stage = f.stage
    BY <2>1, <2>7, ConvAssumption
  <2> QED BY <1>0, <2>6, <2>7, <2>8, <2>9, ConvBegins
<1>2. ASSUME RecordConversationRequest(r) PROVE ConvInv'
  <2>1. PICK s \in StageNo : ConvGo(r, [ConvIdle EXCEPT !.pc = "record", !.stage = s])
    BY <1>2 DEF RecordConversationRequest
  <2> DEFINE f == [ConvIdle EXCEPT !.pc = "record", !.stage = s]
  <2>2. f \in ConvRequest
    BY ConvIdleFine DEF ConvRequest
  <2>3. /\ f.pc = "record" /\ f.conv = None /\ f.edges = {} /\ f.explains = {} /\ f.gone = {}
        /\ f.new = None /\ f.gate = FALSE
    BY DEF ConvIdle
  <2>4. ConvGo(r, f)
    BY <2>1
  <2> HIDE DEF f
  <2> QED BY <1>0, <2>2, <2>3, <2>4, ConvBegins
<1>3. ASSUME ApproveReject(r) PROVE ConvInv'
  <2>1. PICK p \in Passes :
          ConvGo(r, [ConvIdle EXCEPT !.pc = "record", !.stage = LastStage, !.pass = p])
    BY <1>3 DEF ApproveReject
  <2> DEFINE f == [ConvIdle EXCEPT !.pc = "record", !.stage = LastStage, !.pass = p]
  <2>2. LastStage \in StageNo
    BY ConvAssumption DEF StageNo
  <2>3. f \in ConvRequest
    BY <2>2, ConvIdleFine DEF ConvRequest
  <2>4. /\ f.pc = "record" /\ f.conv = None /\ f.edges = {} /\ f.explains = {} /\ f.gone = {}
        /\ f.new = None /\ f.gate = FALSE
    BY DEF ConvIdle
  <2>5. ConvGo(r, f)
    BY <2>1
  <2> HIDE DEF f
  <2> QED BY <1>0, <2>3, <2>4, <2>5, ConvBegins
<1>4. ASSUME StoreFindingsRequest(r) PROVE ConvInv'
  <2>1. PICK p \in Passes : ConvGo(r, [ConvIdle EXCEPT !.pc = "snapshot", !.pass = p])
    BY <1>4 DEF StoreFindingsRequest
  <2> DEFINE f == [ConvIdle EXCEPT !.pc = "snapshot", !.pass = p]
  <2>2. f \in ConvRequest
    BY ConvIdleFine DEF ConvRequest
  <2>3. /\ f.pc = "snapshot" /\ f.conv = None /\ f.edges = {} /\ f.explains = {} /\ f.gone = {}
        /\ f.new = None /\ f.gate = FALSE /\ f.pass = p
    BY DEF ConvIdle
  <2>4. ConvGo(r, f) /\ p # None
    BY <2>1, ConvAssumption
  <2> HIDE DEF f
  <2> QED BY <1>0, <2>2, <2>3, <2>4, ConvBegins
<1> QED BY <1>1, <1>2, <1>3, <1>4

\* The reads of RecordConversation.
LEMMA ConvReadsInv ==
  ASSUME ConvInv, NEW r \in Requests, RecordConversation(r) \/ RecordConversationTail(r)
  PROVE  ConvInv'
<1> DEFINE q == convReq[r]
<1>0. ConvStoreUnchanged /\ UNCHANGED nextLog
  BY DEF RecordConversation, RecordConversationTail
<1>1. q \in ConvRequest /\ LogForm(q) /\ LogLinks(q, convs, nextLog) /\ specRow \in SpecRow
  BY ConvTypes
<1>2. ASSUME RecordConversation(r) PROVE ConvInv'
  <2> DEFINE own == q.row # None
             v == IF own THEN q.row.version ELSE specRow.version
             entry == [version |-> v, stage |-> q.stage]
             entries == IF own THEN changes \cup {q.row} ELSE changes
             ch == IF entry \in entries THEN entry ELSE None
             f == [q EXCEPT !.pc = "prev", !.version = v, !.change = ch]
  <2>1. ConvGo(r, f) /\ q.pc = "record"
    BY <1>2 DEF RecordConversation
  <2>2. v \in 1 .. MaxVersion /\ v \in 0 .. MaxVersion
    <3>1. q.row # None => q.row \in SpecRow
      BY <1>1 DEF ConvRequest
    <3>2. v \in 1 .. MaxVersion
      BY <1>1, <3>1 DEF SpecRow
    <3> HIDE DEF v
    <3> QED BY <3>2, ConvAssumption
  <2>3. q.gate => ch = entry
    <3>1. q.gate => own /\ q.row \in SpecRow /\ q.row.stage = q.stage
      BY <1>1, <2>1 DEF LogForm, ConvRequest
    <3>2. q.gate => entry = q.row
      <4> SUFFICES ASSUME q.gate PROVE [version |-> q.row.version, stage |-> q.row.stage] = q.row
        BY <3>1
      <4>1. q.row \in SpecRow
        BY <3>1
      <4> HIDE DEF q
      <4> QED BY <4>1 DEF SpecRow
    <3> QED BY <3>1, <3>2
  <2>4. ch \in SpecRow \cup {None}
    <3>1. q.stage \in StageNo
      BY <1>1 DEF ConvRequest
    <3> HIDE DEF v, q
    <3>2. entry \in SpecRow
      BY <2>2, <3>1 DEF SpecRow
    <3> HIDE DEF entry, entries
    <3> QED BY <3>2
  <2> HIDE DEF q, v, ch
  <2>5. f \in ConvRequest
    BY <1>1, <2>2, <2>4 DEF ConvRequest
  <2>6. /\ f.pc = "prev" /\ f.version = v /\ f.change = ch /\ f.stage = q.stage /\ f.gate = q.gate
        /\ f.conv = q.conv /\ f.edges = q.edges /\ f.explains = q.explains /\ f.pass = q.pass
        /\ f.gone = q.gone /\ f.new = q.new
    BY <1>1 DEF ConvRequest
  <2> HIDE DEF f
  <2>7. f.conv = None
    BY <1>1, <2>1, <2>6 DEF LogForm
  <2>8. LogForm(f)
    BY <1>1, <2>1, <2>2, <2>3, <2>6, <2>7 DEF LogForm
  <2>9. LogFine(f, convs, nextLog)
    BY <2>6, <2>7, <2>8 DEF LogFine, LogLinks
  <2> QED BY <1>0, <2>1, <2>5, <2>7, <2>9, ConvStep
<1>3. ASSUME RecordConversationTail(r) PROVE ConvInv'
  <2> DEFINE last == Latest
             f == [q EXCEPT !.pc = "insert", !.prev = last]
  <2>1. ConvGo(r, f) /\ q.pc = "prev"
    BY <1>3 DEF RecordConversationTail
  <2>2. last # None => \E p \in convs : p.id = last
    BY LatestIsOne DEF Latest
  <2>3. last \in LogIds \cup {None}
    BY <2>2, ConvTypes DEF Conv
  <2> HIDE DEF q, last
  <2>4. f \in ConvRequest
    BY <1>1, <2>3 DEF ConvRequest
  <2>5. /\ f.pc = "insert" /\ f.prev = last /\ f.stage = q.stage /\ f.gate = q.gate
        /\ f.version = q.version /\ f.change = q.change
        /\ f.conv = q.conv /\ f.edges = q.edges /\ f.explains = q.explains /\ f.pass = q.pass
        /\ f.gone = q.gone /\ f.new = q.new
    BY <1>1 DEF ConvRequest
  <2> HIDE DEF f
  <2>6. f.conv = None
    BY <1>1, <2>1, <2>5 DEF LogForm
  <2>7. LogForm(f)
    BY <1>1, <2>1, <2>5, <2>6 DEF LogForm
  <2>8. LogFine(f, convs, nextLog)
    BY <2>2, <2>5, <2>6, <2>7 DEF LogFine, LogLinks
  <2> QED BY <1>0, <2>1, <2>4, <2>6, <2>8, ConvStep
<1> QED BY <1>2, <1>3

\* The insert of RecordConversation: the new id is later than all the others.
LEMMA ConvInsertInv ==
  ASSUME ConvInv, NEW r \in Requests, RecordConversationInsert(r)
  PROVE  ConvInv'
<1> DEFINE q == convReq[r]
           c == [id |-> nextLog, stage |-> q.stage, version |-> q.version, gate |-> q.gate]
           pc2 == IF q.pass = None THEN "commit" ELSE "snapshot"
           es == ChainEdge(q, nextLog)
           xs == ExplainsEdge(q, nextLog)
           g == [q EXCEPT !.pc = pc2, !.conv = c]
           f == [g EXCEPT !.edges = es, !.explains = xs]
<1>1. /\ q \in ConvRequest /\ LogForm(q) /\ LogLinks(q, convs, nextLog)
      /\ nextLog \in Nat /\ convs \subseteq Conv
  BY ConvTypes
<1>2. /\ q.pc = "insert" /\ nextLog <= MaxLogs /\ nextLog' = nextLog + 1 /\ ConvStoreUnchanged
      /\ ConvGo(r, [q EXCEPT !.pc = pc2, !.conv = c, !.edges = es, !.explains = xs])
  BY DEF RecordConversationInsert
<1>3. nextLog \in LogIds /\ nextLog' \in 0 .. MaxLogs + 1 /\ nextLog <= nextLog' /\ nextLog < nextLog'
  BY <1>1, <1>2, ConvAssumption DEF LogIds
<1>4. \A d \in convs : d.id < nextLog /\ d.id # nextLog
  <2>1. \A d \in convs : d.id < nextLog
    BY DEF ConvInv, LogStore
  <2>2. \A d \in convs : d.id \in Nat
    BY <1>1, ConvAssumption DEF Conv, LogIds
  <2> QED BY <1>1, <2>1, <2>2
<1>5. q.version \in 1 .. MaxVersion /\ q.stage \in StageNo /\ q.gate \in BOOLEAN
  BY <1>1, <1>2 DEF LogForm, ConvRequest
<1>6. c \in Conv /\ c # None /\ c.id = nextLog
  <2>1. c \in Conv /\ c.id = nextLog
    <3> HIDE DEF q
    <3> QED BY <1>3, <1>5 DEF Conv
  <2> HIDE DEF c
  <2> QED BY <2>1, ConvAssumption
<1>7. /\ es \in SUBSET ChainEdges
      /\ \E e \in es : es = {e} /\ HangsOn(e, c, convs)
  <2>1. q.prev \in LogIds \cup {None}
    BY <1>1 DEF ConvRequest
  <2>2. q.prev # None => \E p \in convs : p.id = q.prev
    BY <1>1, <1>2 DEF LogLinks
  <2> HIDE DEF q
  <2>3. CASE q.prev = None
    <3> DEFINE e == [type |-> "AUTHORED_VIA", from |-> None, to |-> nextLog]
    <3>1. es = {e}
      BY <2>3 DEF ChainEdge
    <3>2. e \in ChainEdges /\ e.to = nextLog /\ e.type # "CONTINUES"
      BY <1>3 DEF ChainEdges
    <3> HIDE DEF es, e, c
    <3> QED BY <1>6, <3>1, <3>2 DEF HangsOn
  <2>4. CASE q.prev # None
    <3> DEFINE e == [type |-> "CONTINUES", from |-> q.prev, to |-> nextLog]
    <3>1. es = {e}
      BY <2>4 DEF ChainEdge
    <3>2. e \in ChainEdges /\ e.to = nextLog /\ e.from = q.prev
      BY <1>3, <2>1 DEF ChainEdges
    <3> HIDE DEF es, e, c
    <3>3. HangsOn(e, c, convs)
      BY <1>4, <1>6, <2>2, <2>4, <3>2 DEF HangsOn
    <3> QED BY <3>1, <3>2, <3>3
  <2> QED BY <2>3, <2>4
<1>8. /\ xs \in SUBSET (LogIds \X SpecRow)
      /\ \A x \in xs : x[1] = nextLog
      /\ c.gate => {x[2] : x \in xs} = {[version |-> c.version, stage |-> c.stage]}
  <2>1. q.change \in SpecRow \cup {None}
    BY <1>1 DEF ConvRequest
  <2>2. q.gate => q.change = [version |-> q.version, stage |-> q.stage]
    BY <1>1, <1>2 DEF LogForm
  <2> HIDE DEF q
  <2>3. c.gate = q.gate /\ c.version = q.version /\ c.stage = q.stage
    OBVIOUS
  <2> DEFINE entry == [version |-> q.version, stage |-> q.stage]
  <2>4. entry \in SpecRow
    BY <1>5 DEF SpecRow
  <2>5. xs \in SUBSET (LogIds \X SpecRow) /\ \A x \in xs : x[1] = nextLog
    BY <1>3, <2>1 DEF ExplainsEdge
  <2>6. c.gate => {x[2] : x \in xs} = {entry}
    <3> SUFFICES ASSUME q.gate PROVE {x[2] : x \in xs} = {entry}
      BY <2>3
    <3>1. q.change = entry /\ entry # None
      <4> HIDE DEF entry
      <4> QED BY <2>2, <2>4, ConvAssumption DEF entry
    <3> HIDE DEF entry
    <3>2. xs = {<<nextLog, entry>>}
      BY <3>1 DEF ExplainsEdge
    <3> HIDE DEF xs
    <3> QED BY <3>2
  <2>7. entry = [version |-> c.version, stage |-> c.stage]
    BY <2>3
  <2> QED BY <2>5, <2>6, <2>7
<1>9. [q EXCEPT !.pc = pc2, !.conv = c, !.edges = es, !.explains = xs] = f
  <2> HIDE DEF q, pc2, c, es, xs
  <2> QED BY <1>1 DEF ConvRequest
<1>10. /\ pc2 \in {"commit", "snapshot"}
       /\ pc2 = "snapshot" => q.pass # None
  OBVIOUS
<1> HIDE DEF q, pc2, c, es, xs
<1>11. /\ g \in ConvRequest /\ g.pc = pc2 /\ g.conv = c /\ g.pass = q.pass /\ g.gone = q.gone
       /\ g.new = q.new
  BY <1>1, <1>6, <1>10 DEF ConvRequest
<1> HIDE DEF g
<1>12. f \in ConvRequest
  BY <1>7, <1>8, <1>11 DEF ConvRequest
<1>13. /\ f.pc = pc2 /\ f.conv = c /\ f.pass = q.pass /\ f.gone = q.gone /\ f.new = q.new
       /\ f.edges = es /\ f.explains = xs
  BY <1>11 DEF ConvRequest
<1>14. ConvGo(r, f)
  BY <1>2, <1>9
<1> HIDE DEF f
<1>15. LogForm(f)
  BY <1>1, <1>6, <1>10, <1>13 DEF LogForm
<1>16. LogLinks(f, convs, nextLog')
  BY <1>3, <1>4, <1>6, <1>7, <1>8, <1>10, <1>13 DEF LogLinks
<1>17. LogFine(f, convs, nextLog')
  BY <1>15, <1>16 DEF LogFine
<1>18. f.conv.id = nextLog
  BY <1>6, <1>13
<1> QED BY <1>2, <1>3, <1>12, <1>14, <1>17, <1>18, ConvMoves

\* The findings a request replaces, and the finding it inserts.
LEMMA ConvFindingsInv ==
  ASSUME ConvInv, NEW r \in Requests,
         StoreFindings(r) \/ StoreFindingsDelete(r) \/ StoreFindingsInsert(r)
  PROVE  ConvInv'
<1> DEFINE q == convReq[r]
<1>0. ConvStoreUnchanged
  BY DEF StoreFindings, StoreFindingsDelete, StoreFindingsInsert
<1>1. q \in ConvRequest /\ LogForm(q) /\ LogLinks(q, convs, nextLog) /\ nextLog \in Nat
  BY ConvTypes
<1>2. finds \subseteq Finding
  BY DEF ConvInv, ConvTypeOK
\* The request keeps its conversation.
<1>3. ASSUME NEW pc2 \in {"delete", "finding", "commit"}, q.pc \in {"snapshot", "delete", "finding"},
             NEW ids \in SUBSET LogIds, NEW n \in Finding \cup {None}, nextLog <= nextLog',
             nextLog' \in 0 .. MaxLogs + 1,
             ConvGo(r, [q EXCEPT !.pc = pc2, !.gone = ids, !.new = n])
      PROVE  ConvInv'
  <2> DEFINE f == [q EXCEPT !.pc = pc2, !.gone = ids, !.new = n]
  <2> HIDE DEF q
  <2>1. f \in ConvRequest
    BY <1>1, <1>3 DEF ConvRequest
  <2>2. /\ f.pc = pc2 /\ f.conv = q.conv /\ f.edges = q.edges /\ f.explains = q.explains
        /\ f.pass = q.pass
    BY <1>1 DEF ConvRequest
  <2>3. ConvGo(r, f)
    BY <1>3
  <2> HIDE DEF f
  <2>4. q.pass # None
    BY <1>1, <1>3 DEF LogForm
  <2>5. LogForm(f)
    BY <1>1, <1>3, <2>2, <2>4 DEF LogForm
  <2>6. q.conv # None => q.conv.id < nextLog'
    <3>1. q.conv # None => q.conv \in Conv /\ q.conv.id < nextLog
      BY <1>1 DEF ConvRequest, LogLinks
    <3>2. q.conv # None => q.conv.id \in Nat /\ q.conv.id < nextLog
      BY <3>1, ConvAssumption DEF Conv, LogIds
    <3>3. nextLog' \in Nat
      BY <1>3, ConvAssumption
    <3> QED BY <1>1, <1>3, <3>2, <3>3
  <2>7. LogLinks(f, convs, nextLog')
    BY <1>1, <1>3, <2>2, <2>6 DEF LogLinks
  <2>8. LogFine(f, convs, nextLog')
    BY <2>5, <2>7 DEF LogFine
  <2>9. f.conv = convReq[r].conv
    BY <2>2 DEF q
  <2> QED BY <1>0, <1>3, <2>1, <2>3, <2>8, <2>9, ConvMoves
<1>4. nextLog \in 0 .. MaxLogs + 1 /\ (UNCHANGED nextLog => nextLog <= nextLog' /\ nextLog' \in 0 .. MaxLogs + 1)
  <2>1. nextLog \in 0 .. MaxLogs + 1
    BY DEF ConvInv, ConvTypeOK
  <2> QED BY <1>1, <2>1
<1>5. ASSUME StoreFindings(r) PROVE ConvInv'
  <2> DEFINE ids == {x.id : x \in ListFindings(q.pass)}
             n == q.new
  <2>1. q.pc = "snapshot" /\ UNCHANGED nextLog /\ ConvGo(r, [q EXCEPT !.pc = "delete", !.gone = ids])
    BY <1>5 DEF StoreFindings
  <2>2. ids \in SUBSET LogIds
    BY <1>2 DEF ListFindings, Finding
  <2>3. n \in Finding \cup {None}
    BY <1>1 DEF ConvRequest
  <2>4. [q EXCEPT !.pc = "delete", !.gone = ids] = [q EXCEPT !.pc = "delete", !.gone = ids, !.new = n]
    <3> HIDE DEF ids, q
    <3> QED BY <1>1 DEF ConvRequest
  <2> HIDE DEF ids, q, n
  <2> QED BY <1>3, <1>4, <2>1, <2>2, <2>3, <2>4
<1>6. ASSUME StoreFindingsDelete(r) PROVE ConvInv'
  <2> DEFINE ids == q.gone \cap {x.id : x \in finds}
             n == q.new
  <2>1. q.pc = "delete" /\ UNCHANGED nextLog /\ ConvGo(r, [q EXCEPT !.pc = "finding", !.gone = ids])
    BY <1>6 DEF StoreFindingsDelete
  <2>2. ids \in SUBSET LogIds /\ n \in Finding \cup {None}
    BY <1>1 DEF ConvRequest
  <2>3. [q EXCEPT !.pc = "finding", !.gone = ids] = [q EXCEPT !.pc = "finding", !.gone = ids, !.new = n]
    <3> HIDE DEF ids, q
    <3> QED BY <1>1 DEF ConvRequest
  <2> HIDE DEF ids, q, n
  <2> QED BY <1>3, <1>4, <2>1, <2>2, <2>3
<1>7. ASSUME StoreFindingsInsert(r) PROVE ConvInv'
  <2> DEFINE ids == q.gone
  <2>1. q.pc = "finding" /\ nextLog <= MaxLogs
    BY <1>7 DEF StoreFindingsInsert
  <2>2. ids \in SUBSET LogIds
    BY <1>1 DEF ConvRequest
  <2>3. CASE ConvGo(r, [q EXCEPT !.pc = "commit"]) /\ UNCHANGED nextLog
    <3> DEFINE n == q.new
    <3>1. n \in Finding \cup {None}
      BY <1>1 DEF ConvRequest
    <3>2. [q EXCEPT !.pc = "commit"] = [q EXCEPT !.pc = "commit", !.gone = ids, !.new = n]
      <4> HIDE DEF q
      <4> QED BY <1>1 DEF ConvRequest
    <3> HIDE DEF ids, q, n
    <3> QED BY <1>3, <1>4, <2>1, <2>2, <2>3, <3>1, <3>2
  <2>4. CASE /\ ConvGo(r, [q EXCEPT !.pc = "commit", !.new = [id |-> nextLog, pass |-> q.pass]])
             /\ nextLog' = nextLog + 1
    <3> DEFINE n == [id |-> nextLog, pass |-> q.pass]
    <3>1. q.pass \in Passes
      BY <1>1, <2>1 DEF LogForm, ConvRequest
    <3>2. nextLog \in LogIds /\ nextLog' \in 0 .. MaxLogs + 1 /\ nextLog <= nextLog'
      BY <1>1, <2>1, <2>4, ConvAssumption DEF LogIds
    <3> HIDE DEF q
    <3>3. n \in Finding
      BY <3>1, <3>2 DEF Finding
    <3>4. [q EXCEPT !.pc = "commit", !.new = n] = [q EXCEPT !.pc = "commit", !.gone = ids, !.new = n]
      <4> HIDE DEF n
      <4> QED BY <1>1 DEF ConvRequest
    <3>5. ConvGo(r, [q EXCEPT !.pc = "commit", !.new = n])
      BY <2>4
    <3> HIDE DEF n, ids
    <3> QED BY <1>3, <2>1, <2>2, <3>2, <3>3, <3>4, <3>5
  <2> QED BY <1>7, <2>3, <2>4 DEF StoreFindingsInsert
<1> QED BY <1>5, <1>6, <1>7

\* A request that fails, and an amend, which writes no conversation.
LEMMA ConvOthersInv ==
  ASSUME ConvInv
  PROVE  /\ \A r \in Requests : ConvFail(r) => ConvInv'
         /\ AmendStage => ConvInv'
<1>1. ASSUME NEW r \in Requests, ConvFail(r) PROVE ConvInv'
  <2>1. ConvGo(r, ConvIdle) /\ ConvStoreUnchanged /\ UNCHANGED nextLog
    BY <1>1 DEF ConvFail
  <2>2. ConvIdle \in ConvRequest /\ ConvIdle.conv = None /\ LogFine(ConvIdle, convs, nextLog)
    BY ConvIdleFine
  <2> QED BY <2>1, <2>2, ConvStep
<1>2. ASSUME AmendStage PROVE ConvInv'
  <2>1. UNCHANGED <<convs, convEdges, explains, finds, findEdges, nextLog, convReq>>
    BY <1>2 DEF AmendStage
  <2>2. specRow' \in SpecRow /\ changes' \subseteq SpecRow
    <3>1. PICK s \in StageNo : /\ s < specRow.stage
                               /\ specRow' = [version |-> specRow.version + 1, stage |-> s]
                               /\ changes' = changes \cup {specRow'}
      BY <1>2 DEF AmendStage
    <3>2. specRow.version \in 1 .. MaxVersion /\ specRow.version < MaxVersion /\ changes \subseteq SpecRow
      BY <1>2 DEF AmendStage, ConvInv, ConvTypeOK, SpecRow
    <3>3. specRow.version + 1 \in 1 .. MaxVersion
      BY <3>2, ConvAssumption
    <3>4. specRow' \in SpecRow
      BY <3>1, <3>3 DEF SpecRow
    <3> QED BY <3>1, <3>2, <3>4
  <2> HIDE DEF LogStore, LogFine, NewApart
  <2> QED BY <2>1, <2>2 DEF ConvInv, ConvTypeOK, FindingEdgesMatch
<1> QED BY <1>1, <1>2

\* A new conversation c joins the committed ones with its edge and what it
\* explains: the others keep theirs.
LEMMA LogGrows ==
  ASSUME NEW cs, NEW es, NEW xs, NEW next, NEW c, NEW e, NEW ys, LogStore(cs, es, xs, next),
         c.id < next, \A d \in cs : d.id # c.id, HangsOn(e, c, cs), \A x \in ys : x[1] = c.id,
         c.gate => {x[2] : x \in ys} = {[version |-> c.version, stage |-> c.stage]}
  PROVE  LogStore(cs \cup {c}, es \cup {e}, xs \cup ys, next)
<1> DEFINE ds == cs \cup {c}
           fs == es \cup {e}
           zs == xs \cup ys
<1>1. \A d \in ds : d.id < next
  BY DEF LogStore
<1>2. \A f \in fs : \E d \in ds : d.id = f.to
  BY DEF LogStore, HangsOn
<1>3. \A x \in zs : \E d \in ds : d.id = x[1]
  BY DEF LogStore
<1>4. \A f \in es : f.to # c.id
  BY DEF LogStore
<1>5. \A x \in xs : x[1] # c.id
  BY DEF LogStore
<1>6. ASSUME NEW d \in ds
      PROVE  \E f \in fs : HangsOn(f, d, ds) /\ \A h \in fs : h.to = d.id => h = f
  <2>1. CASE d \in cs
    <3>1. PICK f \in es : HangsOn(f, d, cs) /\ \A h \in es : h.to = d.id => h = f
      BY <2>1 DEF LogStore
    <3>2. HangsOn(f, d, ds)
      BY <3>1 DEF HangsOn
    <3>3. e.to # d.id
      BY <2>1 DEF HangsOn
    <3> QED BY <3>1, <3>2, <3>3
  <2>2. CASE d = c
    <3>1. HangsOn(e, d, ds)
      BY <2>2 DEF HangsOn
    <3> QED BY <1>4, <2>2, <3>1
  <2> QED BY <2>1, <2>2
<1>7. ASSUME NEW d \in ds, d.gate
      PROVE  {x[2] : x \in {y \in zs : y[1] = d.id}} = {[version |-> d.version, stage |-> d.stage]}
  <2>1. CASE d \in cs
    <3>1. {y \in zs : y[1] = d.id} = {y \in xs : y[1] = d.id}
      BY <2>1
    <3>2. {x[2] : x \in {y \in xs : y[1] = d.id}} = {[version |-> d.version, stage |-> d.stage]}
      BY <1>7, <2>1 DEF LogStore
    <3> HIDE DEF zs
    <3> QED BY <3>1, <3>2
  <2>2. CASE d = c
    <3>1. {y \in zs : y[1] = d.id} = ys
      BY <1>5, <2>2
    <3> HIDE DEF zs
    <3> QED BY <1>7, <2>2, <3>1
  <2> QED BY <2>1, <2>2
<1> HIDE DEF ds, fs, zs
<1>8. LogStore(ds, fs, zs, next)
  BY <1>1, <1>2, <1>3, <1>6, <1>7 DEF LogStore
<1> QED BY <1>8 DEF ds, fs, zs

\* The commit of a request.
LEMMA ConvCommitInv ==
  ASSUME ConvInv, NEW r \in Requests, ConvCommit(r)
  PROVE  ConvInv'
<1> DEFINE q == convReq[r]
           new == {q.conv} \ {None}
           cs == convs \cup new
           es == convEdges \cup q.edges
           xs == explains \cup q.explains
<1>1. /\ q \in ConvRequest /\ LogForm(q) /\ LogLinks(q, convs, nextLog)
      /\ convReq \in [Requests -> ConvRequest] /\ specRow \in SpecRow /\ convs \subseteq Conv
  BY ConvTypes
<1>2. /\ q.row \in SpecRow \cup {None} /\ q.conv \in Conv \cup {None} /\ q.edges \in SUBSET ChainEdges
      /\ q.explains \in SUBSET (LogIds \X SpecRow) /\ q.new \in Finding \cup {None}
  BY <1>1 DEF ConvRequest
<1>3. /\ specRow' = IF q.row # None THEN q.row ELSE specRow
      /\ changes' = changes \cup ({q.row} \ {None})
      /\ convs' = cs /\ convEdges' = es /\ explains' = xs
      /\ finds' = {f \in finds : f.id \notin q.gone} \cup ({q.new} \ {None})
      /\ findEdges' = IF q.pass = None THEN findEdges ELSE FindingEdgesAfter(q)
      /\ convReq' = [convReq EXCEPT ![r] = ConvIdle]
      /\ nextLog' = nextLog
  BY DEF ConvCommit, ConvGo
<1>4. \A o \in Requests : convReq'[o] = IF o = r THEN ConvIdle ELSE convReq[o]
  BY <1>1, <1>3
<1>5. FindingEdgesMatch'
  <2>1. findEdges = {f.id : f \in finds}
    BY DEF ConvInv, FindingEdgesMatch
  <2>2. q.pass = None => q.gone = {} /\ q.new = None
    BY <1>1 DEF LogForm
  <2> HIDE DEF q
  <2>3. CASE q.pass = None
    <3>1. finds' = finds /\ findEdges' = findEdges
      BY <1>3, <2>2, <2>3
    <3> QED BY <2>1, <3>1 DEF FindingEdgesMatch
  <2>4. CASE q.pass # None
    <3>1. findEdges' = (findEdges \ q.gone) \cup {n.id : n \in {q.new} \ {None}}
      BY <1>3, <2>4 DEF FindingEdgesAfter
    <3>2. finds' = {f \in finds : f.id \notin q.gone} \cup ({q.new} \ {None})
      BY <1>3
    <3>3. findEdges' = {f.id : f \in finds'}
      BY <2>1, <3>1, <3>2
    <3> QED BY <3>3 DEF FindingEdgesMatch
  <2> QED BY <2>3, <2>4
<1>6. ConvTypeOK'
  <2>1. /\ changes \subseteq SpecRow /\ convEdges \subseteq ChainEdges
        /\ explains \subseteq (LogIds \X SpecRow) /\ finds \subseteq Finding /\ nextLog \in 0 .. MaxLogs + 1
    BY DEF ConvInv, ConvTypeOK
  <2> HIDE DEF q
  <2>2. specRow' \in SpecRow /\ changes' \subseteq SpecRow
    BY <1>1, <1>2, <1>3, <2>1
  <2>3. convs' \subseteq Conv /\ convEdges' \subseteq ChainEdges /\ explains' \subseteq (LogIds \X SpecRow)
    BY <1>1, <1>2, <1>3, <2>1
  <2>4. finds' \subseteq Finding
    BY <1>2, <1>3, <2>1
  <2>5. findEdges' \subseteq LogIds
    <3>1. findEdges' = {f.id : f \in finds'}
      BY <1>5 DEF FindingEdgesMatch
    <3> QED BY <2>4, <3>1 DEF Finding
  <2>6. convReq' \in [Requests -> ConvRequest] /\ nextLog' \in 0 .. MaxLogs + 1
    BY <1>1, <1>3, <2>1, ConvIdleFine
  <2> QED BY <2>2, <2>3, <2>4, <2>5, <2>6 DEF ConvTypeOK
<1>7. LogStore(cs, es, xs, nextLog)
  <2>1. LogStore(convs, convEdges, explains, nextLog)
    BY DEF ConvInv
  <2>2. CASE q.conv = None
    <3>1. q.edges = {} /\ q.explains = {}
      BY <1>1, <2>2 DEF LogForm
    <3>2. cs = convs /\ es = convEdges /\ xs = explains
      <4> HIDE DEF q
      <4> QED BY <2>2, <3>1
    <3> HIDE DEF cs, es, xs
    <3> QED BY <2>1, <3>2
  <2>3. CASE q.conv # None
    <3>1. PICK e \in q.edges : q.edges = {e} /\ HangsOn(e, q.conv, convs)
      BY <1>1, <2>3 DEF LogLinks
    <3>2. /\ q.conv.id < nextLog /\ \A d \in convs : d.id # q.conv.id
          /\ \A x \in q.explains : x[1] = q.conv.id
          /\ q.conv.gate => {x[2] : x \in q.explains} = {[version |-> q.conv.version, stage |-> q.conv.stage]}
      BY <1>1, <2>3 DEF LogLinks
    <3> DEFINE c == q.conv
               ys == q.explains
    <3>3. /\ c.id < nextLog /\ \A d \in convs : d.id # c.id
          /\ HangsOn(e, c, convs)
          /\ \A x \in ys : x[1] = c.id
          /\ c.gate => {x[2] : x \in ys} = {[version |-> c.version, stage |-> c.stage]}
      BY <3>1, <3>2
    <3>4. cs = convs \cup {c} /\ es = convEdges \cup {e} /\ xs = explains \cup ys
      <4> HIDE DEF q
      <4> QED BY <2>3, <3>1
    <3> HIDE DEF c, ys, cs, es, xs
    <3>5. LogStore(convs \cup {c}, convEdges \cup {e}, explains \cup ys, nextLog)
      BY <2>1, <3>3, LogGrows
    <3> QED BY <3>4, <3>5
  <2> QED BY <2>2, <2>3
<1>8. NewApart(convReq')
  <2>1. NewApart(convReq)
    BY DEF ConvInv
  <2> QED BY <1>4, <2>1, ConvIdleFine DEF NewApart
<1>9. ASSUME NEW o \in Requests PROVE LogFine(convReq'[o], cs, nextLog)
  <2>1. CASE o = r
    BY <1>4, <2>1, ConvIdleFine
  <2>2. CASE o # r
    <3> DEFINE p == convReq[o]
    <3>1. LogForm(p) /\ LogLinks(p, convs, nextLog)
      BY ConvTypes
    <3>2. p.conv # None /\ q.conv # None => p.conv.id # q.conv.id
      BY <2>2 DEF ConvInv, NewApart
    <3>3. \A e, c : HangsOn(e, c, convs) => HangsOn(e, c, cs)
      BY DEF HangsOn
    <3>4. convs \subseteq cs /\ \A d \in cs : d \in convs \/ (d = q.conv /\ q.conv # None)
      OBVIOUS
    <3>5. convReq'[o] = p
      BY <1>4, <2>2
    <3> HIDE DEF p, q, cs
    <3>6. LogLinks(p, cs, nextLog)
      <4>1. p.pc = "insert" /\ p.prev # None => \E d \in cs : d.id = p.prev
        BY <3>1, <3>4 DEF LogLinks
      <4>2. p.conv # None =>
              /\ p.conv.id < nextLog /\ \A d \in cs : d.id # p.conv.id
        BY <3>1, <3>2, <3>4 DEF LogLinks
      <4>3. p.conv # None => \E e \in p.edges : p.edges = {e} /\ HangsOn(e, p.conv, cs)
        BY <3>1, <3>3 DEF LogLinks
      <4> QED BY <3>1, <4>1, <4>2, <4>3 DEF LogLinks
    <3> QED BY <3>1, <3>5, <3>6 DEF LogFine
  <2> QED BY <2>1, <2>2
<1> HIDE DEF cs, es, xs, LogStore, LogFine, NewApart
<1>10. LogStore(convs', convEdges', explains', nextLog')
  BY <1>3, <1>7
<1>11. \A o \in Requests : LogFine(convReq'[o], convs', nextLog')
  BY <1>3, <1>9
<1> QED BY <1>5, <1>6, <1>8, <1>10, <1>11 DEF ConvInv

\* The first state.
LEMMA ConvInitInv ==
  ASSUME ConvInit
  PROVE  ConvInv
<1>1. specRow \in SpecRow /\ 0 \in 0 .. MaxLogs + 1
  <2>1. 1 \in 1 .. MaxVersion /\ 0 \in 0 .. LastStage /\ 0 \in 0 .. MaxLogs + 1
    BY ConvAssumption
  <2> QED BY <2>1 DEF ConvInit, SpecRow, StageNo
<1>2. convReq = [r \in Requests |-> ConvIdle]
  BY DEF ConvInit
<1>3. convReq \in [Requests -> ConvRequest] /\ \A r \in Requests : convReq[r] = ConvIdle
  BY <1>2, ConvIdleFine
<1>4. ConvTypeOK
  BY <1>1, <1>3 DEF ConvInit, ConvTypeOK
<1>5. LogStore(convs, convEdges, explains, nextLog)
  BY DEF ConvInit, LogStore
<1>6. FindingEdgesMatch
  BY DEF ConvInit, FindingEdgesMatch
<1>7. NewApart(convReq) /\ \A r \in Requests : LogFine(convReq[r], convs, nextLog)
  BY <1>3, ConvIdleFine DEF NewApart
<1> QED BY <1>4, <1>5, <1>6, <1>7 DEF ConvInv

\* Every step keeps the invariant.
LEMMA ConvNextInv ==
  ASSUME ConvInv, [ConvNext]_convVars
  PROVE  ConvInv'
<1>1. ASSUME AmendStage PROVE ConvInv'
  BY <1>1, ConvOthersInv
<1>2. ASSUME NEW r \in Requests,
             StageHandler(r) \/ RecordConversationRequest(r) \/ ApproveReject(r) \/ StoreFindingsRequest(r)
      PROVE  ConvInv'
  BY <1>2, ConvRequestsInv
<1>3. ASSUME NEW r \in Requests, RecordConversation(r) \/ RecordConversationTail(r)
      PROVE  ConvInv'
  BY <1>3, ConvReadsInv
<1>4. ASSUME NEW r \in Requests, RecordConversationInsert(r)
      PROVE  ConvInv'
  BY <1>4, ConvInsertInv
<1>5. ASSUME NEW r \in Requests, StoreFindings(r) \/ StoreFindingsDelete(r) \/ StoreFindingsInsert(r)
      PROVE  ConvInv'
  BY <1>5, ConvFindingsInv
<1>6. ASSUME NEW r \in Requests, ConvCommit(r)
      PROVE  ConvInv'
  BY <1>6, ConvCommitInv
<1>7. ASSUME NEW r \in Requests, ConvFail(r)
      PROVE  ConvInv'
  BY <1>7, ConvOthersInv
<1>8. ASSUME UNCHANGED convVars PROVE ConvInv'
  <2> HIDE DEF LogStore, LogFine, NewApart
  <2> QED BY <1>8 DEF convVars, ConvInv, ConvTypeOK, FindingEdgesMatch
<1> QED BY <1>1, <1>2, <1>3, <1>4, <1>5, <1>6, <1>7, <1>8 DEF ConvNext

\* In every reachable state, for any number of requests, stages and passes, each
\* conversation hangs on an older committed one or on the spec by one edge, the
\* conversation of a stage handler explains that handler's transition, and the
\* findings have exactly their edges.
THEOREM LogsStayWhole == ConvSpec => []LogWhole
<1>1. ConvInv => LogWhole
  <2> SUFFICES ASSUME ConvInv PROVE LogWhole
    OBVIOUS
  <2>1. LogStore(convs, convEdges, explains, nextLog) /\ FindingEdgesMatch
    BY DEF ConvInv
  <2>2. ConversationsChained
    BY <2>1 DEF LogStore, HangsOn, ConversationsChained
  <2>3. StageConversationExplains
    BY <2>1 DEF LogStore, StageConversationExplains
  <2> QED BY <2>1, <2>2, <2>3 DEF LogWhole
<1> QED BY <1>1, ConvInitInv, ConvNextInv, PTL DEF ConvSpec
-----------------------------------------------------------------------------
(***************************************************************************)
(* The components together.  They share no variable, so that a step of one *)
(* leaves the invariants of the others as they are.                        *)
(***************************************************************************)
RecordsInv == IInv /\ DecInv /\ ConvInv

\* Slices, decisions and the log have their types in every state of the composed
\* specification, whatever runs beside the request that writes them.
THEOREM RecordsTyped == MCSpec => []RecordsTypeOK
<1>1. MCInit => RecordsInv
  BY InitIInv, DecInitInv, ConvInitInv DEF MCInit, RecordsInv
<1>2. RecordsInv /\ [MCNext]_MCVars => RecordsInv'
  <2> SUFFICES ASSUME RecordsInv, [MCNext]_MCVars PROVE RecordsInv'
    OBVIOUS
  <2>1. [Next]_vars /\ [DecNext]_decVars /\ [ConvNext]_convVars
    BY DEF MCNext, MCVars
  <2> QED BY <2>1, NextIInv, DecNextInv, ConvNextInv DEF RecordsInv
<1>3. RecordsInv => RecordsTypeOK
  BY DEF RecordsInv, IInv, DecInv, ConvInv, RecordsTypeOK
<1> QED BY <1>1, <1>2, <1>3, PTL DEF MCSpec
=============================================================================
