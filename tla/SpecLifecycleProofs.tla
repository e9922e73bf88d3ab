------------------------ MODULE SpecLifecycleProofs -------------------------
(***************************************************************************)
(* Proofs about SpecLifecycle, for any number of specs, requests, field    *)
(* values and versions.                                                    *)
(***************************************************************************)
EXTENDS SpecLifecycle, StagesProofs, SequenceTheorems

\* A row of the table whose hash is that of its fields, with its outputs or
\* with none.
GoodRow(row) ==
    /\ row \in Row
    /\ row.hash.intent = row.intent
    /\ row.hash.stage = row.stage
    /\ row.hash.outputs \in {row.outputs, NoOutputs}

Typed == specs \in [Slugs -> Row] /\ req \in [Requests -> Request]

\* What a request that runs has read is not newer than the row it names.
RequestOK ==
    \A r \in Requests :
        /\ req[r].pc = "write" =>
             /\ req[r].spec \in Slugs
             /\ req[r].read.version <= specs[req[r].spec].version
        /\ req[r].pc \in {"first", "second", "commit"} =>
             /\ req[r].spec \in Slugs /\ req[r].other \in Slugs
             /\ req[r].spec # req[r].other

IInv == Typed /\ RequestOK /\ VersionIdentifiesRow /\ HashNamesRow
-----------------------------------------------------------------------------
\* The constants the initial rows are made of.
LEMMA AnyFacts ==
    /\ AnyIntent \in Intents
    /\ AnyNotes \in Notes
    /\ NoOutputs \in OutputMap
BY FieldsAssumption DEF AnyIntent, AnyNotes, NoOutputs, OutputMap

\* Recomputing the hash makes any row good and changes nothing else.
LEMMA RecomputeGood ==
    ASSUME NEW row \in Row
    PROVE  /\ GoodRow(recomputeContentHash(row))
           /\ recomputeContentHash(row).version = row.version
<1> DEFINE h == contenthash(row.intent, row.stage, row.outputs)
           new == recomputeContentHash(row)
<1>1. h \in Hash
  BY DEF contenthash, Hash, Row
<1>2. new = [row EXCEPT !.hash = h]
  BY DEF recomputeContentHash
<1>3. /\ new \in Row /\ new.hash = h /\ new.intent = row.intent
      /\ new.stage = row.stage /\ new.outputs = row.outputs
      /\ new.version = row.version
  BY <1>1, <1>2 DEF Row
<1>4. h.intent = row.intent /\ h.stage = row.stage /\ h.outputs = row.outputs
  BY DEF contenthash
<1> QED BY <1>3, <1>4 DEF GoodRow

\* A stage change leaves a good row one version on.
LEMMA EnterGood ==
    ASSUME NEW row \in Row, NEW to \in SpecStage
    PROVE  /\ GoodRow(EnterStage(row, to))
           /\ EnterStage(row, to).version = row.version + 1
<1> DEFINE next == row.version + 1
           new == [row EXCEPT !.stage = to, !.version = next]
<1>1. next \in Nat
  BY DEF Row
<1>2. new \in Row /\ new.version = next
  <2> HIDE DEF next
  <2> QED BY <1>1 DEF Row
<1>3. EnterStage(row, to) = recomputeContentHash(new)
  BY DEF EnterStage
<1> QED BY <1>2, <1>3, RecomputeGood

\* Storing an output leaves a good row at the same version.
LEMMA StoreGood ==
    ASSUME NEW row \in Row, NEW column \in OutputNames, NEW out \in Outputs
    PROVE  /\ GoodRow(storeJSONColumn(row, column, out))
           /\ storeJSONColumn(row, column, out).version = row.version
<1> DEFINE outs == [row.outputs EXCEPT ![column] = out]
           new == [row EXCEPT !.outputs = outs]
<1>1. outs \in OutputMap
  BY DEF Row, OutputMap
<1>2. new \in Row /\ new.version = row.version
  BY <1>1 DEF Row
<1>3. storeJSONColumn(row, column, out) = recomputeContentHash(new)
  BY DEF storeJSONColumn
<1> QED BY <1>2, <1>3, RecomputeGood

\* A created row is good and at version 1.
LEMMA NewRowGood ==
    ASSUME NEW i \in Intents, NEW n \in Notes, NEW st \in SpecStage,
           NEW outs \in OutputMap
    PROVE  GoodRow(NewRow(i, n, st, outs)) /\ NewRow(i, n, st, outs).version = 1
<1>1. contenthash(i, st, outs) \in Hash
  BY DEF contenthash, Hash
<1>2. NewRow(i, n, st, outs) \in Row
  BY <1>1 DEF NewRow, Row, None
<1> QED BY <1>2 DEF NewRow, GoodRow, contenthash

\* The row of a free slug, and that of an answered request.
LEMMA IdleFacts ==
    /\ GoodRow(NoRow) /\ NoRow.version = 0
    /\ \A st \in Steps : Idle(st) \in Request /\ Idle(st).pc = st
<1> DEFINE base == NewRow(AnyIntent, AnyNotes, "spark", NoOutputs)
<1>1. "spark" \in SpecStage
  BY DEF SpecStage, AuthoringStageSet
<1>2. GoodRow(base)
  BY <1>1, AnyFacts, NewRowGood
<1>3. NoRow = [base EXCEPT !.version = 0]
  BY DEF NoRow
<1>4. GoodRow(NoRow) /\ NoRow.version = 0
  BY <1>2, <1>3 DEF GoodRow, Row
<1>5. NoRow \in Row
  BY <1>4 DEF GoodRow
<1>6. ASSUME NEW st \in Steps PROVE Idle(st) \in Request /\ Idle(st).pc = st
  BY <1>1, <1>5, AnyFacts DEF Idle, Request, Ops, None
<1> QED BY <1>4, <1>6

\* The rows of the specs that went up the funnel.
LEMMA FunnelGood ==
    ASSUME NEW v \in 1..5, NEW stored \in BOOLEAN
    PROVE  GoodRow(FunnelRow(v, stored))
<1> DEFINE outs == [o \in OutputNames |->
                      IF stageIndex(o) < v \/ (stored /\ stageIndex(o) = v)
                      THEN CHOOSE x \in Outputs : TRUE ELSE 0]
           base == NewRow(AnyIntent, AnyNotes, authoringStages[v], outs)
<1>1. (CHOOSE x \in Outputs : TRUE) \in Outputs
  BY OutputsAssumption
<1>2. outs \in OutputMap
  BY <1>1 DEF OutputMap
<1>3. authoringStages[v] \in SpecStage
  BY StageFacts
<1>4. GoodRow(base)
  BY <1>2, <1>3, AnyFacts, NewRowGood
<1>5. FunnelRow(v, stored) = [base EXCEPT !.version = v]
  BY DEF FunnelRow
<1>6. v \in Nat
  OBVIOUS
<1> QED BY <1>4, <1>5, <1>6 DEF GoodRow, Row
-----------------------------------------------------------------------------
\* The initial states satisfy the invariant.
LEMMA InitIInv == Init => IInv
<1> SUFFICES ASSUME Init PROVE IInv
  OBVIOUS
<1>1. PICK reached \in [Slugs -> {stageIndex(st) : st \in InitStages}] :
        specs = [s \in Slugs |-> IF reached[s] = 0 THEN NoRow
                                 ELSE FunnelRow(reached[s], TRUE)]
  BY DEF Init
<1>2. ASSUME NEW s \in Slugs PROVE GoodRow(specs[s])
  <2>1. reached[s] \in 0..5
    BY StageIndexType
  <2>2. CASE reached[s] = 0
    BY <1>1, <2>2, IdleFacts
  <2>3. CASE reached[s] # 0
    <3>1. reached[s] \in 1..5
      BY <2>1, <2>3
    <3>2. specs[s] = FunnelRow(reached[s], TRUE)
      BY <1>1, <2>3
    <3> QED BY <3>1, <3>2, FunnelGood
  <2> QED BY <2>2, <2>3
<1>3. specs \in [Slugs -> Row]
  BY <1>1, <1>2 DEF GoodRow
<1>4. HashNamesRow
  BY <1>2 DEF HashNamesRow, GoodRow
<1>5. req = [r \in Requests |-> Idle("idle")]
  BY DEF Init
<1>6. "idle" \in Steps
  BY DEF Steps, Replied
<1>7. req \in [Requests -> Request] /\ \A r \in Requests : req[r].pc = "idle"
  BY <1>5, <1>6, IdleFacts
<1> QED BY <1>3, <1>4, <1>7 DEF IInv, Typed, RequestOK, VersionIdentifiesRow
-----------------------------------------------------------------------------
\* Requests go on as they were or are answered.
ReqQuiet ==
    /\ req' \in [Requests -> Request]
    /\ \A r \in Requests : req'[r] = req[r] \/ req'[r].pc \in Replied

\* Rows stay as they are or become good rows of a later version.
SpecsGrow ==
    /\ specs' \in [Slugs -> Row]
    /\ \A s \in Slugs :
         \/ specs'[s] = specs[s]
         \/ GoodRow(specs'[s]) /\ specs'[s].version > specs[s].version

\* A step of both kinds keeps the invariant: a row that changed is past every
\* version that was read of it.
LEMMA QuietStep == ASSUME IInv, ReqQuiet, SpecsGrow PROVE IInv'
<1>1. Typed'
  BY DEF ReqQuiet, SpecsGrow, Typed
<1>2. HashNamesRow'
  BY DEF IInv, SpecsGrow, HashNamesRow, GoodRow
<1>3. \A s \in Slugs : /\ specs[s].version \in Nat /\ specs'[s].version \in Nat
                       /\ specs[s].version <= specs'[s].version
  BY DEF IInv, Typed, SpecsGrow, Row
<1>4. \A r \in Requests : req[r].read.version \in Nat
  BY DEF IInv, Typed, Request, Row
<1>5. \A r \in Requests : req'[r].pc \notin Replied => req'[r] = req[r]
  BY DEF ReqQuiet
<1>6. ASSUME NEW r \in Requests, req'[r].pc = "write"
      PROVE  /\ req'[r].spec \in Slugs
             /\ req'[r].read.version <= specs'[req'[r].spec].version
  <2>1. req'[r] = req[r]
    BY <1>5, <1>6 DEF Replied
  <2>2. /\ req[r].spec \in Slugs
        /\ req[r].read.version <= specs[req[r].spec].version
    BY <1>6, <2>1 DEF IInv, RequestOK
  <2> QED BY <2>1, <2>2, <1>3, <1>4
<1>7. ASSUME NEW r \in Requests, req'[r].pc \in {"first", "second", "commit"}
      PROVE  /\ req'[r].spec \in Slugs /\ req'[r].other \in Slugs
             /\ req'[r].spec # req'[r].other
  BY <1>5, <1>7 DEF IInv, RequestOK, Replied
<1>8. RequestOK'
  BY <1>6, <1>7 DEF RequestOK
<1>9. ASSUME NEW r \in Requests, req'[r].pc = "write",
             req'[r].read.version = specs'[req'[r].spec].version
      PROVE  req'[r].read = specs'[req'[r].spec]
  <2> DEFINE s == req[r].spec
  <2>1. req'[r] = req[r]
    BY <1>5, <1>9 DEF Replied
  <2>2. s \in Slugs /\ req[r].read.version <= specs[s].version
    BY <1>9, <2>1 DEF IInv, RequestOK
  <2>3. req[r].read.version = specs'[s].version
    BY <1>9, <2>1
  <2>4. ~(specs'[s].version > specs[s].version)
    BY <1>3, <1>4, <2>2, <2>3
  <2>5. specs'[s] = specs[s]
    BY <2>2, <2>4 DEF SpecsGrow
  <2>6. req[r].read = specs[s]
    BY <1>9, <2>1, <2>3, <2>5 DEF IInv, VersionIdentifiesRow
  <2> QED BY <2>1, <2>5, <2>6
<1>10. VersionIdentifiesRow'
  BY <1>9 DEF VersionIdentifiesRow
<1> QED BY <1>1, <1>2, <1>8, <1>10 DEF IInv

\* Answering a request is quiet.
LEMMA FinishQuiet ==
    ASSUME IInv, NEW r \in Requests, NEW status \in Replied, Finish(r, status)
    PROVE  ReqQuiet
<1>1. status \in Steps
  BY DEF Steps
<1>2. Idle(status) \in Request /\ Idle(status).pc \in Replied
  BY <1>1, IdleFacts
<1>3. req' = [req EXCEPT ![r] = Idle(status)]
  BY DEF Finish
<1> QED BY <1>2, <1>3 DEF ReqQuiet, IInv, Typed

\* Writing one good row of the next version.
LEMMA WriteGrows ==
    ASSUME IInv, NEW s \in Slugs, NEW row, GoodRow(row),
           row.version > specs[s].version, NEW es, Write(s, row, es)
    PROVE  SpecsGrow
<1>1. specs' = [specs EXCEPT ![s] = row]
  BY DEF Write
<1>2. row \in Row
  BY DEF GoodRow
<1> QED BY <1>1, <1>2 DEF SpecsGrow, IInv, Typed

\* Nothing written, nothing asked.
LEMMA SameQuiet == ASSUME IInv PROVE /\ UNCHANGED req => ReqQuiet
                                     /\ UNCHANGED specs => SpecsGrow
BY DEF IInv, Typed, ReqQuiet, SpecsGrow

\* The fields a row and a request are made of.
LEMMA TypeFacts ==
    ASSUME IInv
    PROVE  /\ \A s \in Slugs : specs[s] \in Row /\ specs[s].version \in Nat
           /\ \A r \in Requests : /\ req[r] \in Request /\ req[r].read \in Row
                                  /\ req[r].intent \in Intents
                                  /\ req[r].notes \in Notes
                                  /\ req[r].to \in SpecStage
BY DEF IInv, Typed, Row, Request
-----------------------------------------------------------------------------
\* CreateSpec and Spark put version 1 where there was no row.
LEMMA CreateIInv ==
    ASSUME IInv, NEW s \in Slugs, CreateSpec(s) \/ Spark(s) PROVE IInv'
<1>1. ReqQuiet
  BY SameQuiet DEF CreateSpec, Spark
<1>2. specs[s].version < 1
  BY TypeFacts DEF CreateSpec, Spark, Exists
<1>3. CASE CreateSpec(s)
  <2>1. PICK i \in Intents, o \in OutputMap :
          LET stage == IF o["shape"] = 0 THEN "spark" ELSE "done"
              row == NewRow(i, AnyNotes, stage, o)
          IN  Write(s, row, <<EntryOf(row, {})>>)
    BY <1>3 DEF CreateSpec
  <2> DEFINE stage == IF o["shape"] = 0 THEN "spark" ELSE "done"
             row == NewRow(i, AnyNotes, stage, o)
  <2>2. stage \in SpecStage
    BY DEF SpecStage, AuthoringStageSet
  <2>3. GoodRow(row) /\ row.version = 1
    <3> HIDE DEF stage
    <3> QED BY <2>2, AnyFacts, NewRowGood
  <2>4. Write(s, row, <<EntryOf(row, {})>>)
    BY <2>1
  <2>5. SpecsGrow
    <3> HIDE DEF row
    <3> QED BY <1>2, <2>3, <2>4, TypeFacts, WriteGrows
  <2> QED BY <1>1, <2>5, QuietStep
<1>4. CASE Spark(s)
  <2>1. PICK i \in Intents, out \in Outputs :
          LET row == NewRow(i, AnyNotes, "spark", NoOutputs)
              stored == storeJSONColumn(row, "spark", out)
          IN  Write(s, stored, <<EntryOf(row, {})>>
                               \o authoringOutputChangeLog(row, stored))
    BY <1>4 DEF Spark
  <2> DEFINE row == NewRow(i, AnyNotes, "spark", NoOutputs)
             stored == storeJSONColumn(row, "spark", out)
             es == <<EntryOf(row, {})>> \o authoringOutputChangeLog(row, stored)
  <2>2. "spark" \in SpecStage /\ "spark" \in OutputNames
    BY DEF SpecStage, AuthoringStageSet, OutputNames
  <2>3. row \in Row /\ row.version = 1
    BY <2>2, AnyFacts, NewRowGood DEF GoodRow
  <2>4. GoodRow(stored) /\ stored.version = 1
    <3> HIDE DEF row
    <3> QED BY <2>2, <2>3, StoreGood
  <2>5. Write(s, stored, es)
    BY <2>1
  <2>6. SpecsGrow
    <3> HIDE DEF stored, es
    <3> QED BY <1>2, <2>4, <2>5, TypeFacts, WriteGrows
  <2> QED BY <1>1, <2>6, QuietStep
<1> QED BY <1>3, <1>4

\* A stage handler enters the stage and stores the output: one version on.
LEMMA StageOutputIInv ==
    ASSUME IInv, NEW s \in Slugs, NEW from, NEW to \in OutputNames,
           StageOutput(s, from, to)
    PROVE  IInv'
<1>1. ReqQuiet
  BY SameQuiet DEF StageOutput
<1>2. PICK out \in Outputs :
        LET row == EnterStage(specs[s], to)
            stored == storeJSONColumn(row, to, out)
        IN  Write(s, stored, <<StageEntry(specs[s], row)>>
                             \o authoringOutputChangeLog(row, stored))
  BY DEF StageOutput
<1> DEFINE row == EnterStage(specs[s], to)
           stored == storeJSONColumn(row, to, out)
           es == <<StageEntry(specs[s], row)>> \o authoringOutputChangeLog(row, stored)
<1>3. to \in SpecStage
  BY DEF OutputNames, SpecStage, AuthoringStageSet
<1>4. row \in Row /\ row.version = specs[s].version + 1
  BY <1>3, TypeFacts, EnterGood DEF GoodRow
<1>5. GoodRow(stored) /\ stored.version = specs[s].version + 1
  <2> HIDE DEF row
  <2> QED BY <1>4, StoreGood
<1>6. Write(s, stored, es)
  BY <1>2
<1>7. SpecsGrow
  <2> HIDE DEF stored, es
  <2> QED BY <1>5, <1>6, TypeFacts, WriteGrows
<1> QED BY <1>1, <1>7, QuietStep

\* Approve enters the last stage of the funnel.
LEMMA ApproveIInv == ASSUME IInv, NEW s \in Slugs, Approve(s) PROVE IInv'
<1> DEFINE row == EnterStage(specs[s], "approved")
           es == <<StageEntry(specs[s], row)>>
<1>1. ReqQuiet
  BY SameQuiet DEF Approve
<1>2. "approved" \in SpecStage
  BY DEF SpecStage, AuthoringStageSet
<1>3. GoodRow(row) /\ row.version = specs[s].version + 1
  BY <1>2, TypeFacts, EnterGood
<1>4. Write(s, row, es)
  BY DEF Approve
<1>5. SpecsGrow
  <2> HIDE DEF row, es
  <2> QED BY <1>3, <1>4, TypeFacts, WriteGrows
<1> QED BY <1>1, <1>5, QuietStep

\* Every request of the funnel.
LEMMA AuthorIInv == ASSUME IInv, NEW s \in Slugs, Author(s) PROVE IInv'
<1>1. {"shape", "specify", "decompose"} \subseteq OutputNames
  BY DEF OutputNames
<1> QED BY <1>1, CreateIInv, StageOutputIInv, ApproveIInv
        DEF Author, Shape, Specify, Decompose
-----------------------------------------------------------------------------
\* A new request of one handler, the rows untouched, keeps the invariant if
\* the new request meets it.
LEMMA AskIInv ==
    ASSUME IInv, NEW r \in Requests, NEW q \in Request,
           req' = [req EXCEPT ![r] = q], UNCHANGED specs,
           q.pc = "write" => q.spec \in Slugs /\ q.read = specs[q.spec],
           q.pc \in {"first", "second", "commit"} =>
               q.spec \in Slugs /\ q.other \in Slugs /\ q.spec # q.other
    PROVE  IInv'
<1>1. \A p \in Requests : req'[p] = IF p = r THEN q ELSE req[p]
  BY DEF IInv, Typed
<1>2. Typed'
  BY DEF IInv, Typed
<1>3. HashNamesRow'
  BY DEF IInv, HashNamesRow
<1>4. RequestOK'
  BY <1>1, TypeFacts DEF IInv, RequestOK
<1>5. VersionIdentifiesRow'
  BY <1>1 DEF IInv, VersionIdentifiesRow
<1> QED BY <1>2, <1>3, <1>4, <1>5 DEF IInv

\* The unlocked read of update, amend, abandon and completion.
LEMMA ReadIInv ==
    ASSUME IInv, NEW r \in Requests, NEW op \in Ops, NEW s \in Slugs,
           NEW i \in Intents, NEW n \in Notes, NEW to \in SpecStage,
           Read(r, op, s, i, n, to)
    PROVE  IInv'
<1> DEFINE q == [op |-> op, pc |-> "write", spec |-> s, other |-> None,
                 read |-> specs[s], intent |-> i, notes |-> n, to |-> to]
<1>1. q \in Request
  BY TypeFacts DEF Request, Steps
<1>2. q.pc = "write" /\ q.spec = s /\ q.read = specs[s]
  OBVIOUS
<1>3. req' = [req EXCEPT ![r] = q] /\ UNCHANGED specs
  BY DEF Read
<1> QED
  <2> HIDE DEF q
  <2> QED BY <1>1, <1>2, <1>3, AskIInv

\* Every arrival of a request.
LEMMA ArriveIInv == ASSUME IInv, NEW r \in Requests, Arrive(r) PROVE IInv'
<1>1. {"update", "amend", "abandon", "complete", "supersede"} \subseteq Ops
  BY DEF Ops
<1>2. {"spark", "abandoned", "done"} \subseteq SpecStage
  BY DEF SpecStage, AuthoringStageSet
<1>3. CASE UpdateSpec(r)
  BY <1>1, <1>2, <1>3, ReadIInv DEF UpdateSpec
<1>4. CASE LifecycleAmendSpec(r)
  <2>1. PICK s \in Slugs, st \in ReEntryStages :
          Read(r, "amend", s, AnyIntent, AnyNotes, PrecedingAuthStage(st))
    BY <1>4 DEF LifecycleAmendSpec
  <2>2. PrecedingAuthStage(st) \in SpecStage
    BY PrecedingType DEF SpecStage
  <2> QED BY <1>1, <2>1, <2>2, AnyFacts, ReadIInv
<1>5. CASE LifecycleAbandonSpec(r)
  BY <1>1, <1>2, <1>5, AnyFacts, ReadIInv DEF LifecycleAbandonSpec
<1>6. CASE RecordCompletion(r)
  BY <1>1, <1>2, <1>6, AnyFacts, ReadIInv DEF RecordCompletion
<1>7. CASE LifecycleSupersedeSpec(r)
  <2>1. PICK old \in Slugs, new \in Slugs :
          /\ old # new
          /\ req' = [req EXCEPT ![r] =
                       [Idle("first") EXCEPT !.op = "supersede", !.spec = old,
                                             !.other = new]]
    BY <1>7 DEF LifecycleSupersedeSpec
  <2> DEFINE q == [Idle("first") EXCEPT !.op = "supersede", !.spec = old,
                                        !.other = new]
  <2>2. Idle("first") \in Request /\ Idle("first").pc = "first"
    BY IdleFacts DEF Steps
  <2>3. q \in Request /\ q.pc = "first" /\ q.spec = old /\ q.other = new
    BY <1>1, <2>2 DEF Request
  <2>4. req' = [req EXCEPT ![r] = q] /\ UNCHANGED specs
    BY <1>7, <2>1 DEF LifecycleSupersedeSpec
  <2> QED
    <3> HIDE DEF q
    <3> QED BY <2>1, <2>3, <2>4, AskIInv
<1> QED BY <1>3, <1>4, <1>5, <1>6, <1>7 DEF Arrive
-----------------------------------------------------------------------------
\* UpdateSpec: the version guard makes the row that was read the current one,
\* so the hash computed from it is the hash of the new row.
LEMMA UpdateIInv == ASSUME IInv, NEW r \in Requests, UpdateWrite(r) PROVE IInv'
<1> DEFINE s == req[r].spec
           h == UpdatedHash(req[r].read, req[r].intent)
           next == specs[s].version + 1
           row == [specs[s] EXCEPT !.intent = req[r].intent,
                                   !.notes = req[r].notes,
                                   !.hash = h, !.version = next]
<1>1. s \in Slugs /\ req[r].pc = "write"
  BY DEF UpdateWrite, IInv, RequestOK
<1>2. specs[s].version = req[r].read.version
  BY DEF UpdateWrite, GuardHolds
<1>3. req[r].read = specs[s]
  BY <1>1, <1>2 DEF IInv, VersionIdentifiesRow
<1>4. /\ h = contenthash(req[r].intent, specs[s].stage, NoOutputs)
      /\ h \in Hash /\ next \in Nat
  BY <1>1, <1>3, TypeFacts, AnyFacts DEF UpdatedHash, contenthash, Hash, Row
<1>5. /\ h.intent = req[r].intent /\ h.stage = specs[s].stage
      /\ h.outputs = NoOutputs
  BY <1>4 DEF contenthash
<1>6. /\ row \in Row /\ row.intent = req[r].intent /\ row.stage = specs[s].stage
      /\ row.hash = h /\ row.version = next
  <2> HIDE DEF h, next
  <2> QED BY <1>1, <1>4, TypeFacts DEF Row
<1>7. GoodRow(row)
  <2> HIDE DEF row, h
  <2> QED BY <1>5, <1>6 DEF GoodRow
<1>8. PICK es : Write(s, row, es)
  BY DEF UpdateWrite
<1>9. row.version > specs[s].version
  BY <1>1, <1>6, TypeFacts
<1>10. SpecsGrow
  <2> HIDE DEF row, s
  <2> QED BY <1>1, <1>7, <1>8, <1>9, WriteGrows
<1>11. ReqQuiet
  BY FinishQuiet DEF UpdateWrite, Replied
<1> QED BY <1>10, <1>11, QuietStep

\* Amend, abandon and completion enter a stage.
LEMMA EnterIInv ==
    ASSUME IInv, NEW r \in Requests, LifecycleWrite(r) \/ CompletionWrite(r)
    PROVE  IInv'
<1> DEFINE s == req[r].spec
<1>1. s \in Slugs
  BY DEF LifecycleWrite, CompletionWrite, IInv, RequestOK
<1>2. PICK to \in SpecStage : \E es : Write(s, EnterStage(specs[s], to), es)
  BY TypeFacts DEF LifecycleWrite, CompletionWrite, SpecStage
<1> DEFINE row == EnterStage(specs[s], to)
<1>3. GoodRow(row) /\ row.version = specs[s].version + 1
  BY <1>1, TypeFacts, EnterGood
<1>4. SpecsGrow
  <2> HIDE DEF row, s
  <2> QED BY <1>1, <1>2, <1>3, TypeFacts, WriteGrows DEF row
<1>5. ReqQuiet
  BY FinishQuiet DEF LifecycleWrite, CompletionWrite, Replied
<1> QED BY <1>4, <1>5, QuietStep

\* A request that is refused or rolled back writes no row.
LEMMA RefusedIInv ==
    ASSUME IInv, NEW r \in Requests,
           WriteRefused(r) \/ SupersedeRefused(r) \/ Rollback(r)
    PROVE  IInv'
<1>1. SpecsGrow
  BY SameQuiet DEF WriteRefused, Refused, SupersedeRefused, Rollback
<1>2. Finish(r, "err")
  BY DEF WriteRefused, Refused, SupersedeRefused, Rollback
<1>3. ReqQuiet
  BY <1>2, FinishQuiet DEF Replied
<1> QED BY <1>1, <1>3, QuietStep

\* Locking a row changes neither the row nor what the request names.
LEMMA LockIInv == ASSUME IInv, NEW r \in Requests, SupersedeLock(r) PROVE IInv'
<1> DEFINE pc == IF req[r].pc = "first" THEN "second" ELSE "commit"
           q == [req[r] EXCEPT !.pc = pc]
<1>1. req' = [req EXCEPT ![r] = q] /\ UNCHANGED specs
  BY DEF SupersedeLock, Goto
<1>2. pc \in Steps /\ pc # "write"
  BY DEF Steps
<1>3. /\ q \in Request /\ q.pc = pc /\ q.spec = req[r].spec
      /\ q.other = req[r].other
  <2> HIDE DEF pc
  <2> QED BY <1>2, TypeFacts DEF Request
<1>4. /\ req[r].spec \in Slugs /\ req[r].other \in Slugs
      /\ req[r].spec # req[r].other
  BY DEF SupersedeLock, IInv, RequestOK
<1> QED
  <2> HIDE DEF q, pc
  <2> QED BY <1>1, <1>2, <1>3, <1>4, AskIInv

\* Supersede writes both rows, each one version on.
LEMMA SupersedeIInv == ASSUME IInv, NEW r \in Requests, SupersedeCommit(r) PROVE IInv'
<1> DEFINE old == req[r].spec
           new == req[r].other
           marked == [specs[old] EXCEPT !.supersededBy = new]
           oldRow == EnterStage(marked, "superseded")
           next == specs[new].version + 1
           newRow == [specs[new] EXCEPT !.supersedes = old, !.version = next]
<1>1. old \in Slugs /\ new \in Slugs /\ old # new
  BY DEF SupersedeCommit, IInv, RequestOK
<1>2. marked \in Row /\ marked.version = specs[old].version
  <2> HIDE DEF old, new
  <2> QED BY <1>1, TypeFacts DEF Row
<1>3. "superseded" \in SpecStage
  BY DEF SpecStage
<1>4. GoodRow(oldRow) /\ oldRow.version = specs[old].version + 1
  <2> HIDE DEF marked
  <2> QED BY <1>2, <1>3, EnterGood
<1>5. next \in Nat
  BY <1>1, TypeFacts
<1>6. /\ newRow \in Row /\ newRow.version = next
      /\ newRow.hash = specs[new].hash /\ newRow.intent = specs[new].intent
      /\ newRow.stage = specs[new].stage /\ newRow.outputs = specs[new].outputs
  <2> HIDE DEF old, new, next
  <2> QED BY <1>1, <1>5, TypeFacts DEF Row
<1>7. GoodRow(newRow) /\ newRow.version > specs[new].version
  <2>1. newRow.version > specs[new].version
    BY <1>1, <1>6, TypeFacts
  <2>2. /\ specs[new].hash.intent = specs[new].intent
        /\ specs[new].hash.stage = specs[new].stage
        /\ specs[new].hash.outputs \in {specs[new].outputs, NoOutputs}
    BY <1>1 DEF IInv, HashNamesRow
  <2> HIDE DEF newRow
  <2> QED BY <1>6, <2>1, <2>2 DEF GoodRow
<1>8. specs' = [specs EXCEPT ![old] = oldRow, ![new] = newRow]
  BY DEF SupersedeCommit
<1>9. oldRow \in Row /\ oldRow.version > specs[old].version
  BY <1>1, <1>4, TypeFacts DEF GoodRow
<1>10. SpecsGrow
  <2> HIDE DEF oldRow, newRow, old, new
  <2>1. \A s \in Slugs : specs'[s] = IF s = new THEN newRow
                                     ELSE IF s = old THEN oldRow ELSE specs[s]
    BY <1>1, <1>8 DEF IInv, Typed
  <2>2. specs' \in [Slugs -> Row]
    BY <1>6, <1>8, <1>9 DEF IInv, Typed
  <2> QED BY <1>1, <1>4, <1>7, <1>9, <2>1, <2>2 DEF SpecsGrow
<1>11. ReqQuiet
  BY FinishQuiet DEF SupersedeCommit, Replied
<1> QED BY <1>10, <1>11, QuietStep

\* Every step of a request that runs.
LEMMA ProceedIInv == ASSUME IInv, NEW r \in Requests, Proceed(r) PROVE IInv'
BY UpdateIInv, EnterIInv, RefusedIInv, LockIInv, SupersedeIInv DEF Proceed
-----------------------------------------------------------------------------
\* The invariant is inductive.
LEMMA NextIInv == IInv /\ [Next]_vars => IInv'
<1> SUFFICES ASSUME IInv, [Next]_vars PROVE IInv'
  OBVIOUS
<1>1. CASE UNCHANGED vars
  <2>1. UNCHANGED <<specs, req>>
    BY <1>1 DEF vars
  <2> QED BY <2>1, SameQuiet, QuietStep
<1>2. CASE Next
  <2>1. ASSUME NEW e, AddEdge(e) \/ RemoveEdge(e) PROVE IInv'
    <3>1. UNCHANGED <<specs, req>>
      BY <2>1 DEF AddEdge, RemoveEdge, ByHand
    <3> QED BY <3>1, SameQuiet, QuietStep
  <2> QED BY <1>2, <2>1, AuthorIInv, ArriveIInv, ProceedIInv, RefusedIInv DEF Next
<1> QED BY <1>1, <1>2

\* In every reachable state, a request that finds the version it read finds
\* the row it read: the optimistic guards of spec.go and lifecycle.go are
\* enough for any number of concurrent requests.
THEOREM VersionsIdentifyRows == Spec => []VersionIdentifiesRow
<1>1. IInv => VersionIdentifiesRow
  BY DEF IInv
<1> QED BY <1>1, InitIInv, NextIInv, PTL DEF Spec

\* In every reachable state, the stored content hash is that of the row's
\* current fields and stage, with its outputs or with none.
THEOREM HashesNameRows == Spec => []HashNamesRow
<1>1. IInv => HashNamesRow
  BY DEF IInv
<1> QED BY <1>1, InitIInv, NextIInv, PTL DEF Spec
-----------------------------------------------------------------------------
(***************************************************************************)
(* The rest of the state: changelog, history, edges and locks.  Every step *)
(* leaves a slug alone or takes its row one version on, and Grown says     *)
(* what such a write may look like.                                        *)
(***************************************************************************)

\* The stages that a row is at have left their outputs.  No operation enters
\* in_progress or review, so only an approved spec passes amend's guard.
Filled(row) ==
    /\ row.stage \notin {"in_progress", "review"}
    /\ \A o \in OutputNames \ {"spark"} :
         stageIndex(row.stage) >= stageIndex(o) => row.outputs[o] # 0

\* The old value of intent that an entry records, if it does.
IntentChange(e) == {c \in e.changes : c[1] = "intent"}

NoIntent(es) ==
    /\ es \in Seq(Entry)
    /\ \A i \in 1..Len(es) : IntentChange(es[i]) = {}

IntentLogged(old, row, es) ==
    \/ NoIntent(es) /\ (row.intent = old.intent \/ old.version = 0)
    \/ \E e \in Entry : /\ es = <<e>>
                        /\ e.version = row.version
                        /\ IntentChange(e) = {<<"intent", old.intent>>}

Grown(old, row, es) ==
    /\ row \in Row /\ row.version = old.version + 1
    /\ es \in Seq(Entry)
    /\ Filled(row)
    /\ old.stage \in FullyTerminalStages => row.stage \in {old.stage, "done"}
    /\ IntentLogged(old, row, es)

SlugStep(s) ==
    \/ specs'[s] = specs[s] /\ log'[s] = log[s] /\ past'[s] = past[s]
    \/ \E es : /\ Grown(specs[s], specs'[s], es)
               /\ log'[s] = log[s] \o es
               /\ past'[s] = Append(past[s], specs'[s])

\* An abandon goes to abandoned; no request goes where nobody amends from.
TargetsOK ==
    \A r \in Requests :
        /\ req[r].to \notin {"in_progress", "review"}
        /\ req[r].op = "abandon" => req[r].to = "abandoned"

AllFilled == \A s \in Slugs : Filled(specs[s])
FreeIsBlank == \A s \in Slugs : specs[s].version = 0 => specs[s] = NoRow

\* The history has one row a version, and the last is the current one.
PastOK ==
    \A s \in Slugs :
        /\ Len(past[s]) = specs[s].version
        /\ specs[s].version > 0 => past[s][specs[s].version] = specs[s]

\* An entry that records an intent is numbered with a version that was made.
IntentNumbered ==
    \A s \in Slugs : \A i \in 1..Len(log[s]) :
        IntentChange(log[s][i]) # {} => log[s][i].version <= specs[s].version

FullInv ==
    /\ IInv /\ TypeOK /\ TargetsOK
    /\ AllFilled /\ FreeIsBlank /\ SupersessionLinked
    /\ PastOK /\ IntentNumbered /\ IntentReconstructed
-----------------------------------------------------------------------------
\* The fields a stage change keeps, and the ones it sets.
LEMMA EnterFields ==
    ASSUME NEW row \in Row, NEW to \in SpecStage
    PROVE  LET new == EnterStage(row, to) IN
           /\ new \in Row /\ new.version = row.version + 1 /\ new.stage = to
           /\ new.intent = row.intent /\ new.outputs = row.outputs
           /\ new.supersedes = row.supersedes /\ new.supersededBy = row.supersededBy
<1> DEFINE next == row.version + 1
           mid == [row EXCEPT !.stage = to, !.version = next]
           h == contenthash(mid.intent, mid.stage, mid.outputs)
           new == [mid EXCEPT !.hash = h]
<1>1. next \in Nat
  BY DEF Row
<1>2. /\ mid \in Row /\ mid.version = next /\ mid.stage = to
      /\ mid.intent = row.intent /\ mid.outputs = row.outputs
      /\ mid.supersedes = row.supersedes /\ mid.supersededBy = row.supersededBy
  <2> HIDE DEF next
  <2> QED BY <1>1 DEF Row
<1>3. h \in Hash
  <2> HIDE DEF mid
  <2> QED BY <1>2 DEF contenthash, Hash, Row
<1>4. /\ new \in Row /\ new.version = mid.version /\ new.stage = mid.stage
      /\ new.intent = mid.intent /\ new.outputs = mid.outputs
      /\ new.supersedes = mid.supersedes /\ new.supersededBy = mid.supersededBy
  <2> HIDE DEF mid, h
  <2> QED BY <1>2, <1>3 DEF Row
<1>5. EnterStage(row, to) = new
  BY DEF EnterStage, recomputeContentHash
<1> HIDE DEF new, mid
<1> QED BY <1>2, <1>4, <1>5

\* Storing an output sets one column and the hash.
LEMMA StoreFields ==
    ASSUME NEW row \in Row, NEW column \in OutputNames, NEW out \in Outputs
    PROVE  LET new == storeJSONColumn(row, column, out) IN
           /\ new \in Row /\ new.version = row.version /\ new.stage = row.stage
           /\ new.intent = row.intent
           /\ new.outputs = [row.outputs EXCEPT ![column] = out]
           /\ new.supersedes = row.supersedes /\ new.supersededBy = row.supersededBy
<1> DEFINE outs == [row.outputs EXCEPT ![column] = out]
           mid == [row EXCEPT !.outputs = outs]
           h == contenthash(mid.intent, mid.stage, mid.outputs)
           new == [mid EXCEPT !.hash = h]
<1>1. outs \in OutputMap
  BY DEF Row, OutputMap
<1>2. /\ mid \in Row /\ mid.version = row.version /\ mid.stage = row.stage
      /\ mid.intent = row.intent /\ mid.outputs = outs
      /\ mid.supersedes = row.supersedes /\ mid.supersededBy = row.supersededBy
  <2> HIDE DEF outs
  <2> QED BY <1>1 DEF Row
<1>3. h \in Hash
  <2> HIDE DEF mid
  <2> QED BY <1>2 DEF contenthash, Hash, Row
<1>4. /\ new \in Row /\ new.version = mid.version /\ new.stage = mid.stage
      /\ new.intent = mid.intent /\ new.outputs = mid.outputs
      /\ new.supersedes = mid.supersedes /\ new.supersededBy = mid.supersededBy
  <2> HIDE DEF mid, h
  <2> QED BY <1>2, <1>3 DEF Row
<1>5. storeJSONColumn(row, column, out) = new
  BY DEF storeJSONColumn, recomputeContentHash
<1> HIDE DEF new, mid
<1> QED BY <1>2, <1>4, <1>5

\* The fields of a created row.
LEMMA NewFields ==
    ASSUME NEW i \in Intents, NEW n \in Notes, NEW st \in SpecStage,
           NEW outs \in OutputMap
    PROVE  LET new == NewRow(i, n, st, outs) IN
           /\ new \in Row /\ new.version = 1 /\ new.stage = st
           /\ new.intent = i /\ new.outputs = outs
           /\ new.supersedes = None /\ new.supersededBy = None
<1>1. NewRow(i, n, st, outs) \in Row
  BY NewRowGood DEF GoodRow
<1> QED BY <1>1 DEF NewRow

\* The blank row of a free slug.
LEMMA BlankFields ==
    /\ NoRow \in Row /\ NoRow.version = 0 /\ NoRow.stage = "spark"
    /\ NoRow.supersedes = None /\ NoRow.supersededBy = None
<1> DEFINE base == NewRow(AnyIntent, AnyNotes, "spark", NoOutputs)
<1>1. "spark" \in SpecStage
  BY DEF SpecStage, AuthoringStageSet
<1>2. /\ base \in Row /\ base.stage = "spark"
      /\ base.supersedes = None /\ base.supersededBy = None
  BY <1>1, AnyFacts, NewFields
<1>3. NoRow = [base EXCEPT !.version = 0]
  BY DEF NoRow
<1> HIDE DEF base
<1> QED BY <1>2, <1>3 DEF Row
-----------------------------------------------------------------------------
\* An entry made of a row and a set of field changes.
LEMMA EntryFacts ==
    ASSUME NEW row \in Row, NEW ch \in SUBSET FieldChange
    PROVE  /\ EntryOf(row, ch) \in Entry
           /\ EntryOf(row, ch).version = row.version
           /\ EntryOf(row, ch).changes = ch
BY DEF EntryOf, Entry, Row

\* The checkpoint of a stage change records no intent.
LEMMA StageEntryFacts ==
    ASSUME NEW old \in Row, NEW new \in Row
    PROVE  /\ StageEntry(old, new) \in Entry
           /\ IntentChange(StageEntry(old, new)) = {}
<1> DEFINE ch == Changed("stage", old.stage, new.stage)
<1>1. ch \in SUBSET FieldChange /\ \A c \in ch : c[1] # "intent"
  BY DEF Changed, FieldChange, Fields, Row
<1>2. StageEntry(old, new) = EntryOf(new, ch)
  BY DEF StageEntry
<1> HIDE DEF ch
<1> QED BY <1>1, <1>2, EntryFacts DEF IntentChange

\* Entries without an intent, one or two of them.
LEMMA OneNoIntent ==
    ASSUME NEW e \in Entry, IntentChange(e) = {} PROVE NoIntent(<<e>>)
BY DEF NoIntent

\* Appending such entries to such entries.
LEMMA ConcatNoIntent ==
    ASSUME NEW es, NEW fs, NoIntent(es), NoIntent(fs) PROVE NoIntent(es \o fs)
<1>1. es \in Seq(Entry) /\ fs \in Seq(Entry)
  BY DEF NoIntent
<1>2. es \o fs \in Seq(Entry) /\ Len(es \o fs) = Len(es) + Len(fs)
  BY <1>1
<1>3. ASSUME NEW i \in 1..Len(es \o fs) PROVE IntentChange((es \o fs)[i]) = {}
  <2>1. CASE i <= Len(es)
    <3>1. (es \o fs)[i] = es[i] /\ i \in 1..Len(es)
      BY <1>1, <2>1
    <3> QED BY <3>1 DEF NoIntent
  <2>2. CASE ~(i <= Len(es))
    <3>1. (es \o fs)[i] = fs[i - Len(es)] /\ i - Len(es) \in 1..Len(fs)
      BY <1>1, <1>2, <2>2
    <3> QED BY <3>1 DEF NoIntent
  <2> QED BY <2>1, <2>2
<1> QED BY <1>2, <1>3 DEF NoIntent

\* The entry of an output that was stored, if there is one.
LEMMA OutputLogFacts ==
    ASSUME NEW old \in Row, NEW new \in Row
    PROVE  NoIntent(authoringOutputChangeLog(old, new))
<1>1. {} \in SUBSET FieldChange
  OBVIOUS
<1>2. EntryOf(new, {}) \in Entry /\ IntentChange(EntryOf(new, {})) = {}
  BY <1>1, EntryFacts DEF IntentChange
<1>3. NoIntent(<<EntryOf(new, {})>>)
  BY <1>2, OneNoIntent
<1>4. NoIntent(<<>>)
  BY DEF NoIntent
<1> QED BY <1>3, <1>4 DEF authoringOutputChangeLog
-----------------------------------------------------------------------------
\* A row that left the funnel, or is at its start, needs no outputs.
LEMMA FilledOutside ==
    ASSUME NEW row,
           row.stage \in {"spark", "done", "superseded", "abandoned"}
    PROVE  Filled(row)
<1>1. stageIndex(row.stage) <= 1
  <2>1. {"done", "superseded", "abandoned"} \subseteq SpecStage \ AuthoringStageSet
    BY DEF SpecStage, AuthoringStageSet
  <2> QED BY <2>1, StageIndexValues
<1>2. \A o \in OutputNames \ {"spark"} : stageIndex(o) >= 2 /\ stageIndex(o) \in Nat
  BY StageIndexValues DEF OutputNames
<1>3. stageIndex(row.stage) \in Nat
  BY StageIndexType
<1> QED BY <1>1, <1>2, <1>3 DEF Filled

\* An approved row has the outputs of every stage below it.
LEMMA FilledFromApproved ==
    ASSUME NEW old, NEW new, Filled(old), old.stage = "approved",
           new.outputs = old.outputs, new.stage \notin {"in_progress", "review"}
    PROVE  Filled(new)
<1>1. \A o \in OutputNames \ {"spark"} : stageIndex("approved") >= stageIndex(o)
  BY StageIndexValues DEF OutputNames
<1> QED BY <1>1 DEF Filled

\* A stage handler stores the one output that its stage adds.
LEMMA FilledStored ==
    ASSUME NEW old \in Row, NEW new \in Row, NEW to \in OutputNames \ {"spark"},
           NEW out \in Outputs,
           Filled(old), old.stage \in AuthoringStageSet,
           stageIndex(to) = stageIndex(old.stage) + 1,
           new.stage = to, new.outputs = [old.outputs EXCEPT ![to] = out]
    PROVE  Filled(new)
<1>1. old.outputs \in OutputMap
  BY DEF Row
<1>2. out # 0
  BY OutputsAssumption
<1>3. to \notin {"in_progress", "review"}
  BY DEF OutputNames
<1>4. ASSUME NEW o \in OutputNames \ {"spark"}, stageIndex(to) >= stageIndex(o)
      PROVE  new.outputs[o] # 0
  <2>1. CASE o = to
    BY <1>1, <1>2, <2>1 DEF OutputMap
  <2>2. CASE o # to
    <3>1. stageIndex(o) # stageIndex(to)
      BY <2>2, StageIndexValues DEF OutputNames
    <3>2. stageIndex(old.stage) \in Nat /\ stageIndex(o) \in Nat /\ stageIndex(to) \in Nat
      BY StageIndexType
    <3>3. stageIndex(old.stage) >= stageIndex(o)
      BY <1>4, <3>1, <3>2
    <3>4. old.outputs[o] # 0
      BY <3>3 DEF Filled
    <3> QED BY <1>1, <2>2, <3>4 DEF OutputMap
  <2> QED BY <2>1, <2>2
<1> QED BY <1>3, <1>4 DEF Filled

\* Approval needs no output of its own.
LEMMA FilledApproved ==
    ASSUME NEW old, NEW new, Filled(old), old.stage = "decompose",
           new.stage = "approved", new.outputs = old.outputs
    PROVE  Filled(new)
<1>1. \A o \in OutputNames \ {"spark"} : stageIndex("decompose") >= stageIndex(o)
  BY StageIndexValues DEF OutputNames
<1> QED BY <1>1 DEF Filled

\* A write touches one slug.
LEMMA OneWrite ==
    ASSUME TypeOK, NEW s \in Slugs, NEW row, NEW es, Write(s, row, es),
           Grown(specs[s], row, es)
    PROVE  \A t \in Slugs : SlugStep(t)
<1> SUFFICES ASSUME NEW t \in Slugs PROVE SlugStep(t)
  OBVIOUS
<1>1. CASE t = s
  BY <1>1 DEF Write, SlugStep, TypeOK
<1>2. CASE t # s
  BY <1>2 DEF Write, SlugStep, TypeOK
<1> QED BY <1>1, <1>2

\* No write, no step.
LEMMA NoWrite ==
    ASSUME UNCHANGED <<specs, log, past>> PROVE \A t \in Slugs : SlugStep(t)
BY DEF SlugStep

\* No write, no change of the links.
LinksKept ==
    /\ Linked' = Linked
    /\ \A s \in Slugs : /\ specs'[s].supersedes = specs[s].supersedes
                        /\ specs'[s].supersededBy = specs[s].supersededBy

\* A write of one row that keeps its links keeps all links.
LEMMA OneWriteLinks ==
    ASSUME TypeOK, NEW s \in Slugs, NEW row, NEW es, Write(s, row, es),
           row.supersedes = specs[s].supersedes,
           row.supersededBy = specs[s].supersededBy, UNCHANGED edgeVars
    PROVE  LinksKept
BY DEF Write, TypeOK, LinksKept, Linked, edgeVars
-----------------------------------------------------------------------------
\* CreateSpec and Spark fill a blank slug.
LEMMA CreateStep ==
    ASSUME FullInv, NEW s \in Slugs, CreateSpec(s) \/ Spark(s)
    PROVE  (\A t \in Slugs : SlugStep(t)) /\ LinksKept
<1>1. specs[s] = NoRow /\ specs[s].version = 0 /\ TypeOK /\ UNCHANGED edgeVars
  BY TypeFacts DEF CreateSpec, Spark, Exists, FullInv, FreeIsBlank
<1>a. {} \in SUBSET FieldChange
  OBVIOUS
<1>2. ASSUME NEW row \in Row, NEW es, NoIntent(es), Write(s, row, es),
             row.version = 1, row.supersedes = None, row.supersededBy = None, Filled(row)
      PROVE  (\A t \in Slugs : SlugStep(t)) /\ LinksKept
  <2>1. Grown(specs[s], row, es)
    <3>1. specs[s].stage \notin FullyTerminalStages
      BY <1>1, BlankFields DEF FullyTerminalStages
    <3>2. IntentLogged(specs[s], row, es) /\ es \in Seq(Entry)
      BY <1>1, <1>2 DEF IntentLogged, NoIntent
    <3>3. row.version = specs[s].version + 1
      BY <1>1, <1>2
    <3> QED BY <1>2, <3>1, <3>2, <3>3 DEF Grown
  <2> QED BY <1>1, <1>2, <2>1, OneWrite, OneWriteLinks, BlankFields
<1>3. ASSUME NEW row \in Row PROVE NoIntent(<<EntryOf(row, {})>>)
  BY <1>3, <1>a, EntryFacts, OneNoIntent DEF IntentChange
<1>4. CASE CreateSpec(s)
  <2>1. PICK i \in Intents, o \in OutputMap :
          LET stage == IF o["shape"] = 0 THEN "spark" ELSE "done"
              row == NewRow(i, AnyNotes, stage, o)
          IN  Write(s, row, <<EntryOf(row, {})>>)
    BY <1>4 DEF CreateSpec
  <2> DEFINE stage == IF o["shape"] = 0 THEN "spark" ELSE "done"
             row == NewRow(i, AnyNotes, stage, o)
  <2>2. stage \in SpecStage /\ stage \in {"spark", "done"}
    BY DEF SpecStage, AuthoringStageSet
  <2>3. /\ row \in Row /\ row.version = 1 /\ row.stage = stage
        /\ row.supersedes = None /\ row.supersededBy = None
    <3> HIDE DEF stage
    <3> QED BY <2>2, AnyFacts, NewFields
  <2>4. Write(s, row, <<EntryOf(row, {})>>)
    BY <2>1
  <2>5. Filled(row)
    <3> HIDE DEF row, stage
    <3> QED BY <2>2, <2>3, FilledOutside
  <2> HIDE DEF row
  <2> QED BY <1>2, <1>3, <2>3, <2>4, <2>5
<1>5. CASE Spark(s)
  <2>1. PICK i \in Intents, out \in Outputs :
          LET row == NewRow(i, AnyNotes, "spark", NoOutputs)
              stored == storeJSONColumn(row, "spark", out)
          IN  Write(s, stored, <<EntryOf(row, {})>>
                               \o authoringOutputChangeLog(row, stored))
    BY <1>5 DEF Spark
  <2> DEFINE row == NewRow(i, AnyNotes, "spark", NoOutputs)
             stored == storeJSONColumn(row, "spark", out)
             es == <<EntryOf(row, {})>> \o authoringOutputChangeLog(row, stored)
  <2>2. "spark" \in SpecStage /\ "spark" \in OutputNames
    BY DEF SpecStage, AuthoringStageSet, OutputNames
  <2>3. /\ row \in Row /\ row.version = 1 /\ row.stage = "spark"
        /\ row.supersedes = None /\ row.supersededBy = None
    BY <2>2, AnyFacts, NewFields
  <2>4. /\ stored \in Row /\ stored.version = 1 /\ stored.stage = "spark"
        /\ stored.supersedes = None /\ stored.supersededBy = None
    <3> HIDE DEF row
    <3> QED BY <2>2, <2>3, StoreFields
  <2>5. Write(s, stored, es)
    BY <2>1
  <2> HIDE DEF row, stored
  <2>6. NoIntent(es)
    BY <1>3, <2>3, <2>4, OutputLogFacts, ConcatNoIntent
  <2>7. Filled(stored)
    BY <2>4, FilledOutside
  <2> HIDE DEF es
  <2> QED BY <1>2, <2>4, <2>5, <2>6, <2>7
<1> QED BY <1>4, <1>5

\* A write that enters a stage keeps links and intent.
LEMMA EnterGrows ==
    ASSUME FullInv, NEW s \in Slugs, NEW to \in SpecStage, NEW es, NoIntent(es),
           NEW row, row = EnterStage(specs[s], to), Filled(row), Write(s, row, es),
           specs[s].stage \in FullyTerminalStages => to = "done", UNCHANGED edgeVars
    PROVE  (\A t \in Slugs : SlugStep(t)) /\ LinksKept
<1>1. specs[s] \in Row /\ TypeOK
  BY DEF FullInv, TypeOK
<1>2. /\ row \in Row /\ row.version = specs[s].version + 1 /\ row.stage = to
      /\ row.intent = specs[s].intent
      /\ row.supersedes = specs[s].supersedes
      /\ row.supersededBy = specs[s].supersededBy
  BY <1>1, EnterFields
<1>3. Grown(specs[s], row, es)
  BY <1>2 DEF Grown, IntentLogged, NoIntent
<1> QED BY <1>1, <1>2, <1>3, OneWrite, OneWriteLinks

\* The stages that a transition may leave are not closed.
LEMMA AuthoringOpen == \A st \in AuthoringStageSet : st \notin FullyTerminalStages
BY DEF AuthoringStageSet, FullyTerminalStages

\* Shape, Specify and Decompose.
LEMMA StageOutputStep ==
    ASSUME FullInv, NEW s \in Slugs, NEW from \in AuthoringStageSet,
           NEW to \in OutputNames \ {"spark"},
           stageIndex(to) = stageIndex(from) + 1, StageOutput(s, from, to)
    PROVE  (\A t \in Slugs : SlugStep(t)) /\ LinksKept
<1>1. PICK out \in Outputs :
        LET row == EnterStage(specs[s], to)
            stored == storeJSONColumn(row, to, out)
        IN  Write(s, stored, <<StageEntry(specs[s], row)>>
                             \o authoringOutputChangeLog(row, stored))
  BY DEF StageOutput
<1> DEFINE row == EnterStage(specs[s], to)
           stored == storeJSONColumn(row, to, out)
           es == <<StageEntry(specs[s], row)>> \o authoringOutputChangeLog(row, stored)
<1>2. to \in SpecStage /\ specs[s] \in Row /\ TypeOK /\ Filled(specs[s])
      /\ specs[s].stage = from /\ UNCHANGED edgeVars
  BY DEF OutputNames, SpecStage, AuthoringStageSet, FullInv, TypeOK, AllFilled,
         StageOutput, TransitionStage
<1>3. /\ row \in Row /\ row.version = specs[s].version + 1 /\ row.stage = to
      /\ row.intent = specs[s].intent /\ row.outputs = specs[s].outputs
      /\ row.supersedes = specs[s].supersedes /\ row.supersededBy = specs[s].supersededBy
  BY <1>2, EnterFields
<1>4. /\ stored \in Row /\ stored.version = specs[s].version + 1 /\ stored.stage = to
      /\ stored.intent = specs[s].intent
      /\ stored.outputs = [specs[s].outputs EXCEPT ![to] = out]
      /\ stored.supersedes = specs[s].supersedes /\ stored.supersededBy = specs[s].supersededBy
  <2> HIDE DEF row
  <2> QED BY <1>3, StoreFields
<1>5. Write(s, stored, es)
  BY <1>1
<1> HIDE DEF row, stored
<1>6. Filled(stored)
  BY <1>2, <1>4, FilledStored
<1>7. NoIntent(es)
  BY <1>2, <1>3, <1>4, StageEntryFacts, OneNoIntent, OutputLogFacts, ConcatNoIntent
<1>8. from \notin FullyTerminalStages
  BY AuthoringOpen
<1> HIDE DEF es
<1>9. Grown(specs[s], stored, es)
  BY <1>2, <1>4, <1>6, <1>7, <1>8 DEF Grown, IntentLogged, NoIntent
<1> QED BY <1>2, <1>4, <1>5, <1>9, OneWrite, OneWriteLinks

\* Approve.
LEMMA ApproveStep ==
    ASSUME FullInv, NEW s \in Slugs, Approve(s)
    PROVE  (\A t \in Slugs : SlugStep(t)) /\ LinksKept
<1> DEFINE row == EnterStage(specs[s], "approved")
           es == <<StageEntry(specs[s], row)>>
<1>1. /\ specs[s] \in Row /\ Filled(specs[s]) /\ specs[s].stage = "decompose"
      /\ "approved" \in SpecStage /\ UNCHANGED edgeVars /\ Write(s, row, es)
  BY DEF FullInv, TypeOK, AllFilled, Approve, TransitionStage, SpecStage, AuthoringStageSet
<1>2. row \in Row /\ row.stage = "approved" /\ row.outputs = specs[s].outputs
  BY <1>1, EnterFields
<1>3. NoIntent(es)
  <2> HIDE DEF row
  <2> QED BY <1>1, <1>2, StageEntryFacts, OneNoIntent
<1>4. Filled(row)
  <2> HIDE DEF row
  <2> QED BY <1>1, <1>2, FilledApproved
<1>5. specs[s].stage \notin FullyTerminalStages
  BY <1>1 DEF FullyTerminalStages
<1> HIDE DEF es
<1> QED BY <1>1, <1>3, <1>4, <1>5, EnterGrows

\* UpdateSpec.  Its entry is written whenever the intent changed: the row it
\* read is the current one, and that row's hash names its intent.
LEMMA UpdateStep ==
    ASSUME FullInv, NEW r \in Requests, UpdateWrite(r)
    PROVE  (\A t \in Slugs : SlugStep(t)) /\ LinksKept
<1> DEFINE s == req[r].spec
           old == specs[s]
           h == UpdatedHash(req[r].read, req[r].intent)
           next == specs[s].version + 1
           row == [specs[s] EXCEPT !.intent = req[r].intent,
                                   !.notes = req[r].notes,
                                   !.hash = h, !.version = next]
           ch == Changed("intent", old.intent, row.intent)
                   \cup Changed("notes", old.notes, row.notes)
           es == IF row.hash = old.hash THEN <<>> ELSE <<EntryOf(row, ch)>>
<1>0. IInv /\ TypeOK
  BY DEF FullInv
<1>1. s \in Slugs /\ req[r].pc = "write"
  BY <1>0 DEF UpdateWrite, IInv, RequestOK
<1>2. specs[s].version = req[r].read.version
  BY DEF UpdateWrite, GuardHolds
<1>3. req[r].read = specs[s]
  BY <1>0, <1>1, <1>2 DEF IInv, VersionIdentifiesRow
<1>4. /\ h = contenthash(req[r].intent, specs[s].stage, NoOutputs)
      /\ h \in Hash /\ next \in Nat /\ h.intent = req[r].intent
  BY <1>0, <1>1, <1>3, TypeFacts, AnyFacts DEF UpdatedHash, contenthash, Hash, Row
<1>5. /\ row \in Row /\ row.intent = req[r].intent /\ row.notes = req[r].notes
      /\ row.stage = old.stage /\ row.outputs = old.outputs
      /\ row.hash = h /\ row.version = next
      /\ row.supersedes = old.supersedes /\ row.supersededBy = old.supersededBy
  <2> HIDE DEF h, next
  <2> QED BY <1>0, <1>1, <1>4, TypeFacts DEF Row
<1>6. Write(s, row, es) /\ UNCHANGED edgeVars
  BY <1>3 DEF UpdateWrite
<1>7. old \in Row /\ old.hash.intent = old.intent
  BY <1>0, <1>1, TypeFacts DEF IInv, HashNamesRow
<1> HIDE DEF row, h, next
<1>8. ch \in SUBSET FieldChange
  BY <1>5, <1>7 DEF Changed, FieldChange, Fields, Row
<1>9. {c \in ch : c[1] = "intent"} = Changed("intent", old.intent, row.intent)
  BY DEF Changed
<1> HIDE DEF ch
<1>10. EntryOf(row, ch) \in Entry /\ EntryOf(row, ch).version = row.version
       /\ IntentChange(EntryOf(row, ch)) = Changed("intent", old.intent, row.intent)
  BY <1>5, <1>8, <1>9, EntryFacts DEF IntentChange
<1>11. es \in Seq(Entry)
  BY <1>10
<1>12. IntentLogged(old, row, es)
  <2>1. CASE row.intent = old.intent
    <3>1. IntentChange(EntryOf(row, ch)) = {}
      BY <1>10, <2>1 DEF Changed
    <3>2. NoIntent(<<EntryOf(row, ch)>>)
      BY <1>10, <3>1, OneNoIntent
    <3>3. NoIntent(<<>>)
      BY DEF NoIntent
    <3> QED BY <2>1, <3>2, <3>3 DEF IntentLogged
  <2>2. CASE row.intent # old.intent
    <3>1. row.hash # old.hash
      BY <1>4, <1>5, <1>7, <2>2
    <3>2. es = <<EntryOf(row, ch)>>
      BY <3>1
    <3>3. IntentChange(EntryOf(row, ch)) = {<<"intent", old.intent>>}
      BY <1>10, <2>2 DEF Changed
    <3> QED BY <1>10, <3>2, <3>3 DEF IntentLogged
  <2> QED BY <2>1, <2>2
<1>13. Filled(old)
  BY <1>1 DEF FullInv, AllFilled
<1>14. Filled(row)
  BY <1>5, <1>13 DEF Filled
<1>15. row.version = old.version + 1
  BY <1>5 DEF next
<1> HIDE DEF es
<1>16. Grown(old, row, es)
  BY <1>5, <1>11, <1>12, <1>14, <1>15 DEF Grown
<1> HIDE DEF s
<1> QED BY <1>0, <1>1, <1>5, <1>6, <1>16, OneWrite, OneWriteLinks DEF old

\* Amend rewinds an approved spec, abandon closes one that is open.
LEMMA LifecycleStep ==
    ASSUME FullInv, NEW r \in Requests, LifecycleWrite(r)
    PROVE  (\A t \in Slugs : SlugStep(t)) /\ LinksKept
<1> DEFINE s == req[r].spec
           to == req[r].to
           row == EnterStage(specs[s], to)
           es == <<StageEntry(req[r].read, row)>>
<1>0. IInv /\ TypeOK
  BY DEF FullInv
<1>1. s \in Slugs /\ specs[s] \in Row /\ to \in SpecStage /\ req[r].read \in Row
  BY <1>0, TypeFacts DEF LifecycleWrite, IInv, RequestOK
<1>2. Write(s, row, es) /\ UNCHANGED edgeVars
  BY DEF LifecycleWrite
<1>3. row \in Row /\ row.stage = to /\ row.outputs = specs[s].outputs
  BY <1>1, EnterFields
<1>4. NoIntent(es)
  <2> HIDE DEF row
  <2> QED BY <1>1, <1>3, StageEntryFacts, OneNoIntent
<1>5. Filled(specs[s]) /\ to \notin {"in_progress", "review"}
      /\ (req[r].op = "abandon" => to = "abandoned")
  BY <1>1 DEF FullInv, AllFilled, TargetsOK
<1>6. Filled(row) /\ specs[s].stage \notin FullyTerminalStages
  <2> HIDE DEF row
  <2>1. CASE req[r].op = "amend"
    <3>1. specs[s].stage \in AmendEligible
      BY <2>1 DEF LifecycleWrite, GuardHolds
    <3>2. specs[s].stage = "approved"
      BY <1>5, <3>1 DEF AmendEligible, Filled
    <3>3. Filled(row)
      BY <1>3, <1>5, <3>2, FilledFromApproved
    <3> QED BY <3>2, <3>3 DEF FullyTerminalStages
  <2>2. CASE req[r].op = "abandon"
    <3>1. specs[s].stage \notin FullyTerminalStages
      BY <2>2 DEF LifecycleWrite, GuardHolds
    <3>2. row.stage = "abandoned"
      BY <1>3, <1>5, <2>2
    <3> QED BY <3>1, <3>2, FilledOutside
  <2> QED BY <2>1, <2>2 DEF LifecycleWrite
<1> HIDE DEF es, to, s
<1> QED BY <1>1, <1>2, <1>4, <1>6, EnterGrows

\* A completion goes to done from any stage.
LEMMA CompletionStep ==
    ASSUME FullInv, NEW r \in Requests, CompletionWrite(r)
    PROVE  (\A t \in Slugs : SlugStep(t)) /\ LinksKept
<1> DEFINE s == req[r].spec
           row == EnterStage(specs[s], "done")
           v == req[r].read.version + 1
           e == [StageEntry(req[r].read, row) EXCEPT !.version = v]
<1>0. IInv /\ TypeOK
  BY DEF FullInv
<1>1. s \in Slugs /\ specs[s] \in Row /\ "done" \in SpecStage /\ req[r].read \in Row
  BY <1>0, TypeFacts DEF CompletionWrite, IInv, RequestOK, SpecStage
<1>2. Write(s, row, <<e>>) /\ UNCHANGED edgeVars
  BY DEF CompletionWrite
<1>3. row \in Row /\ row.stage = "done"
  BY <1>1, EnterFields
<1>4. v \in Nat
  BY <1>1 DEF Row
<1>5. e \in Entry /\ IntentChange(e) = {}
  <2> HIDE DEF row, v
  <2>1. /\ StageEntry(req[r].read, row) \in Entry
        /\ IntentChange(StageEntry(req[r].read, row)) = {}
    BY <1>1, <1>3, StageEntryFacts
  <2>2. e \in Entry /\ e.changes = StageEntry(req[r].read, row).changes
    BY <1>4, <2>1 DEF Entry
  <2> QED BY <2>1, <2>2 DEF IntentChange
<1>6. NoIntent(<<e>>)
  <2> HIDE DEF e
  <2> QED BY <1>5, OneNoIntent
<1>7. Filled(row)
  <2> HIDE DEF row
  <2> QED BY <1>3, FilledOutside
<1> HIDE DEF e, s
<1> QED BY <1>1, <1>2, <1>6, <1>7, EnterGrows

\* Supersede writes both rows: the old one, done before, is closed, and the
\* new one keeps its stage.
LEMMA SupersedeStep ==
    ASSUME FullInv, NEW r \in Requests, SupersedeCommit(r)
    PROVE  \A t \in Slugs : SlugStep(t)
<1> DEFINE old == req[r].spec
           new == req[r].other
           marked == [specs[old] EXCEPT !.supersededBy = new]
           oldRow == EnterStage(marked, "superseded")
           next == specs[new].version + 1
           newRow == [specs[new] EXCEPT !.supersedes = old, !.version = next]
           e == StageEntry(specs[old], oldRow)
           f == EntryOf(newRow, {})
<1>0. IInv /\ TypeOK
  BY DEF FullInv
<1>1. old \in Slugs /\ new \in Slugs /\ old # new
  BY <1>0 DEF SupersedeCommit, IInv, RequestOK
<1>2. /\ marked \in Row /\ marked.version = specs[old].version
      /\ marked.intent = specs[old].intent
  <2> HIDE DEF old, new
  <2> QED BY <1>0, <1>1, TypeFacts DEF Row
<1>3. "superseded" \in SpecStage
  BY DEF SpecStage
<1>4. /\ oldRow \in Row /\ oldRow.version = specs[old].version + 1
      /\ oldRow.stage = "superseded" /\ oldRow.intent = specs[old].intent
  <2> HIDE DEF marked
  <2> QED BY <1>2, <1>3, EnterFields
<1>5. next \in Nat
  BY <1>0, <1>1, TypeFacts
<1>6. /\ newRow \in Row /\ newRow.version = specs[new].version + 1
      /\ newRow.intent = specs[new].intent /\ newRow.stage = specs[new].stage
      /\ newRow.outputs = specs[new].outputs
  <2>1. /\ newRow \in Row /\ newRow.version = next
        /\ newRow.intent = specs[new].intent /\ newRow.stage = specs[new].stage
        /\ newRow.outputs = specs[new].outputs
    <3> HIDE DEF old, new, next
    <3> QED BY <1>0, <1>1, <1>5, TypeFacts DEF Row
  <2> QED BY <2>1
<1>7. /\ specs' = [specs EXCEPT ![old] = oldRow, ![new] = newRow]
      /\ log' = [log EXCEPT ![old] = Append(log[old], e), ![new] = Append(log[new], f)]
      /\ past' = [past EXCEPT ![old] = Append(past[old], oldRow),
                              ![new] = Append(past[new], newRow)]
  BY <1>1 DEF SupersedeCommit
<1>8. specs[old].stage = "done" /\ specs[new].stage \notin FullyTerminalStages
  BY DEF SupersedeCommit, MaySupersede
<1>9. Filled(oldRow)
  <2> HIDE DEF oldRow
  <2> QED BY <1>4, FilledOutside
<1>10. Filled(newRow)
  <2>1. Filled(specs[new])
    BY <1>1 DEF FullInv, AllFilled
  <2> HIDE DEF newRow
  <2> QED BY <1>6, <2>1 DEF Filled
<1>11. e \in Entry /\ f \in Entry /\ NoIntent(<<e>>) /\ NoIntent(<<f>>)
  <2> HIDE DEF oldRow, newRow, old, new
  <2>1. {} \in SUBSET FieldChange
    OBVIOUS
  <2>2. specs[old] \in Row
    BY <1>0, <1>1, TypeFacts
  <2>3. e \in Entry /\ IntentChange(e) = {}
    BY <1>4, <2>2, StageEntryFacts
  <2>4. f \in Entry /\ IntentChange(f) = {}
    BY <1>6, <2>1, EntryFacts DEF IntentChange
  <2> HIDE DEF e, f
  <2> QED BY <2>3, <2>4, OneNoIntent
<1> HIDE DEF oldRow, newRow, e, f
<1>12. Grown(specs[old], oldRow, <<e>>)
  BY <1>4, <1>8, <1>9, <1>11 DEF Grown, IntentLogged, NoIntent, FullyTerminalStages
<1>13. Grown(specs[new], newRow, <<f>>)
  BY <1>6, <1>8, <1>10, <1>11 DEF Grown, IntentLogged, NoIntent
<1> HIDE DEF old, new
<1>14. log[old] \in Seq(Entry) /\ log[new] \in Seq(Entry)
  BY <1>0, <1>1 DEF TypeOK
<1>15. Append(log[old], e) = log[old] \o <<e>> /\ Append(log[new], f) = log[new] \o <<f>>
  BY <1>11, <1>14, AppendIsConcat
<1>16. SlugStep(old)
  <2>1. specs'[old] = oldRow /\ log'[old] = log[old] \o <<e>>
        /\ past'[old] = Append(past[old], oldRow)
    BY <1>0, <1>1, <1>7, <1>15 DEF TypeOK
  <2> QED BY <1>12, <2>1 DEF SlugStep
<1>17. SlugStep(new)
  <2>1. specs'[new] = newRow /\ log'[new] = log[new] \o <<f>>
        /\ past'[new] = Append(past[new], newRow)
    BY <1>0, <1>1, <1>7, <1>15 DEF TypeOK
  <2> QED BY <1>13, <2>1 DEF SlugStep
<1>18. ASSUME NEW t \in Slugs \ {old, new} PROVE SlugStep(t)
  BY <1>0, <1>7, <1>18 DEF SlugStep, TypeOK
<1> QED BY <1>16, <1>17, <1>18
-----------------------------------------------------------------------------
\* Every step takes slugs one version on or leaves them, and only supersede
\* writes links.
LEMMA NextSteps ==
    ASSUME FullInv, [Next]_vars
    PROVE  /\ \A t \in Slugs : SlugStep(t)
           /\ LinksKept \/ \E r \in Requests : SupersedeCommit(r)
<1>1. ASSUME UNCHANGED <<specs, log, past, edgeVars>>
      PROVE  (\A t \in Slugs : SlugStep(t)) /\ LinksKept
  BY <1>1, NoWrite DEF LinksKept, Linked, edgeVars
<1>2. CASE UNCHANGED vars
  BY <1>1, <1>2 DEF vars, edgeVars
<1>6. ASSUME NEW e, AddEdge(e) \/ RemoveEdge(e)
      PROVE  (\A t \in Slugs : SlugStep(t)) /\ LinksKept
  <2>1. UNCHANGED <<specs, log, past>>
    BY <1>6 DEF AddEdge, RemoveEdge, ByHand
  <2>2. Linked' = Linked
    BY <1>6 DEF AddEdge, RemoveEdge, ByHand, Linked
  <2> QED BY <2>1, <2>2, NoWrite DEF LinksKept
<1>3. ASSUME NEW s \in Slugs, Author(s)
      PROVE  (\A t \in Slugs : SlugStep(t)) /\ LinksKept
  <2>1. CASE CreateSpec(s) \/ Spark(s)
    BY <2>1, CreateStep
  <2>2. CASE Shape(s)
    <3>1. "spark" \in AuthoringStageSet /\ "shape" \in OutputNames \ {"spark"}
      BY DEF AuthoringStageSet, OutputNames
    <3>2. stageIndex("shape") = stageIndex("spark") + 1
      BY StageIndexValues
    <3> QED BY <2>2, <3>1, <3>2, StageOutputStep DEF Shape
  <2>3. CASE Specify(s)
    <3>1. "shape" \in AuthoringStageSet /\ "specify" \in OutputNames \ {"spark"}
      BY DEF AuthoringStageSet, OutputNames
    <3>2. stageIndex("specify") = stageIndex("shape") + 1
      BY StageIndexValues
    <3> QED BY <2>3, <3>1, <3>2, StageOutputStep DEF Specify
  <2>4. CASE Decompose(s)
    <3>1. "specify" \in AuthoringStageSet /\ "decompose" \in OutputNames \ {"spark"}
      BY DEF AuthoringStageSet, OutputNames
    <3>2. stageIndex("decompose") = stageIndex("specify") + 1
      BY StageIndexValues
    <3> QED BY <2>4, <3>1, <3>2, StageOutputStep DEF Decompose
  <2>5. CASE Approve(s)
    BY <2>5, ApproveStep
  <2> QED BY <1>3, <2>1, <2>2, <2>3, <2>4, <2>5 DEF Author
<1>4. ASSUME NEW r \in Requests, Arrive(r) PROVE UNCHANGED <<specs, log, past, edgeVars>>
  BY <1>4 DEF Arrive, UpdateSpec, LifecycleAmendSpec, LifecycleAbandonSpec,
              RecordCompletion, LifecycleSupersedeSpec, Read
<1>5. ASSUME NEW r \in Requests,
             WriteRefused(r) \/ SupersedeLock(r) \/ SupersedeRefused(r) \/ Rollback(r)
      PROVE  UNCHANGED <<specs, log, past, edgeVars>>
  BY <1>5 DEF WriteRefused, Refused, SupersedeLock, SupersedeRefused, Rollback
<1> QED BY <1>1, <1>2, <1>3, <1>4, <1>5, <1>6, UpdateStep, LifecycleStep, CompletionStep,
           SupersedeStep
        DEF Next, Proceed

\* The two functions that SlugStep speaks of slug by slug stay functions.
LEMMA NextFunctions ==
    ASSUME TypeOK, [Next]_vars
    PROVE  /\ log' = [s \in Slugs |-> log'[s]]
           /\ past' = [s \in Slugs |-> past'[s]]
<1> DEFINE Same == UNCHANGED <<log, past>>
<1>1. ASSUME Same PROVE /\ log' = [s \in Slugs |-> log'[s]]
                        /\ past' = [s \in Slugs |-> past'[s]]
  BY <1>1 DEF TypeOK
<1>2. ASSUME NEW s, NEW row, NEW es, Write(s, row, es)
      PROVE  /\ log' = [t \in Slugs |-> log'[t]]
             /\ past' = [t \in Slugs |-> past'[t]]
  BY <1>2 DEF TypeOK, Write
<1>3. ASSUME NEW r \in Requests, SupersedeCommit(r)
      PROVE  /\ log' = [t \in Slugs |-> log'[t]]
             /\ past' = [t \in Slugs |-> past'[t]]
  BY <1>3 DEF TypeOK, SupersedeCommit
<1>4. ASSUME NEW s \in Slugs, Author(s) PROVE \E t, row, es : Write(t, row, es)
  BY <1>4 DEF Author, CreateSpec, Spark, Shape, Specify, Decompose, Approve, StageOutput
<1>5. ASSUME NEW r \in Requests, Proceed(r)
      PROVE  Same \/ SupersedeCommit(r) \/ \E t, row, es : Write(t, row, es)
  BY <1>5 DEF Proceed, UpdateWrite, LifecycleWrite, CompletionWrite, WriteRefused,
              Refused, SupersedeLock, SupersedeRefused
<1>6. ASSUME NEW r \in Requests, Arrive(r) \/ Rollback(r) PROVE Same
  BY <1>6 DEF Arrive, UpdateSpec, LifecycleAmendSpec, LifecycleAbandonSpec,
              RecordCompletion, LifecycleSupersedeSpec, Read, Rollback
<1>7. CASE UNCHANGED vars
  BY <1>1, <1>7 DEF vars
<1>8. ASSUME NEW e, AddEdge(e) \/ RemoveEdge(e) PROVE Same
  BY <1>8 DEF AddEdge, RemoveEdge, ByHand
<1> QED BY <1>1, <1>2, <1>3, <1>4, <1>5, <1>6, <1>7, <1>8 DEF Next

\* The edges stay between slugs, the locks with requests and the limits.
EdgesLocks ==
    /\ edges \subseteq Slugs \X Slugs /\ byHand \subseteq Slugs \X Slugs
    /\ lock \in [Slugs -> Requests \cup {None}]
    /\ limit \in [Slugs -> Nat]

\* Every step keeps these types.
LEMMA NextLocks ==
    ASSUME FullInv, [Next]_vars
    PROVE  EdgesLocks'
<1>0. IInv /\ EdgesLocks
  BY DEF FullInv, TypeOK, EdgesLocks
<1>1. CASE UNCHANGED <<edgeVars, lock>>
  BY <1>0, <1>1 DEF EdgesLocks, edgeVars
<1>2. ASSUME NEW r \in Requests PROVE Unlocked(r) \in [Slugs -> Requests \cup {None}]
  BY <1>0 DEF Unlocked, EdgesLocks
<1>3. ASSUME NEW r \in Requests, SupersedeLock(r)
      PROVE  EdgesLocks'
  BY <1>0, <1>3 DEF SupersedeLock, EdgesLocks, edgeVars
<1>4. ASSUME NEW r \in Requests, SupersedeCommit(r)
      PROVE  EdgesLocks'
  <2>1. req[r].spec \in Slugs /\ req[r].other \in Slugs
    BY <1>0, <1>4 DEF SupersedeCommit, IInv, RequestOK
  <2> QED BY <1>0, <1>2, <1>4, <2>1 DEF SupersedeCommit, SupersedesEdge, EdgesLocks
<1>5. ASSUME NEW r \in Requests, SupersedeRefused(r) \/ Rollback(r)
      PROVE  EdgesLocks'
  BY <1>0, <1>2, <1>5 DEF SupersedeRefused, Rollback, EdgesLocks, edgeVars
<1>6. ASSUME NEW s \in Slugs, Author(s) PROVE UNCHANGED <<edgeVars, lock>>
  BY <1>6 DEF Author, CreateSpec, Spark, Shape, Specify, Decompose, Approve, StageOutput
<1>7. ASSUME NEW r \in Requests, Arrive(r) PROVE UNCHANGED <<edgeVars, lock>>
  BY <1>7 DEF Arrive, UpdateSpec, LifecycleAmendSpec, LifecycleAbandonSpec,
              RecordCompletion, LifecycleSupersedeSpec, Read
<1>8. ASSUME NEW r \in Requests,
             UpdateWrite(r) \/ LifecycleWrite(r) \/ CompletionWrite(r) \/ WriteRefused(r)
      PROVE  UNCHANGED <<edgeVars, lock>>
  BY <1>8 DEF UpdateWrite, LifecycleWrite, CompletionWrite, WriteRefused, Refused
<1>9. CASE UNCHANGED vars
  BY <1>1, <1>9 DEF vars, edgeVars
<1>10. ASSUME NEW e \in ClientEdges, AddEdge(e) \/ RemoveEdge(e) PROVE EdgesLocks'
  <2>1. e \in Slugs \X Slugs
    BY ClientEdgesAssumption
  <2> QED BY <1>0, <1>10, <2>1 DEF AddEdge, RemoveEdge, ByHand, EdgesLocks
<1> QED BY <1>1, <1>3, <1>4, <1>5, <1>6, <1>7, <1>8, <1>9, <1>10 DEF Next, Proceed

\* The state stays typed.
LEMMA NextTypeOK == ASSUME FullInv, [Next]_vars PROVE TypeOK'
<1>1. IInv'
  BY NextIInv DEF FullInv
<1>2. \A t \in Slugs : SlugStep(t)
  BY NextSteps
<1>3. ASSUME NEW t \in Slugs PROVE log'[t] \in Seq(Entry) /\ past'[t] \in Seq(Row)
  <2>1. log[t] \in Seq(Entry) /\ past[t] \in Seq(Row)
    BY DEF FullInv, TypeOK
  <2>2. CASE log'[t] = log[t] /\ past'[t] = past[t]
    BY <2>1, <2>2
  <2>3. ASSUME NEW es, Grown(specs[t], specs'[t], es), log'[t] = log[t] \o es,
               past'[t] = Append(past[t], specs'[t])
        PROVE  log'[t] \in Seq(Entry) /\ past'[t] \in Seq(Row)
    <3>1. es \in Seq(Entry) /\ specs'[t] \in Row
      BY <2>3 DEF Grown
    <3> QED BY <2>1, <2>3, <3>1
  <2> QED BY <1>2, <2>2, <2>3 DEF SlugStep
<1>4. log' \in [Slugs -> Seq(Entry)] /\ past' \in [Slugs -> Seq(Row)]
  <2>1. log' = [s \in Slugs |-> log'[s]] /\ past' = [s \in Slugs |-> past'[s]]
    BY NextFunctions DEF FullInv
  <2> QED BY <1>3, <2>1
<1> QED BY <1>1, <1>4, NextLocks DEF TypeOK, IInv, Typed, EdgesLocks

\* What a request was sent to do stays as it was sent.
LEMMA NextTargets == ASSUME FullInv, [Next]_vars PROVE TargetsOK'
<1>0. TargetsOK /\ req \in [Requests -> Request]
  BY DEF FullInv, TypeOK
<1>1. ASSUME NEW r \in Requests, NEW q, req' = [req EXCEPT ![r] = q],
             q.to \notin {"in_progress", "review"},
             q.op = "abandon" => q.to = "abandoned"
      PROVE  TargetsOK'
  <2>1. \A x \in Requests : req'[x] = IF x = r THEN q ELSE req[x]
    BY <1>0, <1>1
  <2> QED BY <1>0, <1>1, <2>1 DEF TargetsOK
<1>2. ASSUME NEW r \in Requests, NEW status, Finish(r, status) PROVE TargetsOK'
  <2>1. Idle(status).to = "spark" /\ Idle(status).op = "none"
    BY DEF Idle
  <2> QED BY <1>1, <1>2, <2>1 DEF Finish
<1>3. ASSUME NEW r \in Requests, NEW op, NEW s, NEW i, NEW n, NEW to,
             Read(r, op, s, i, n, to), to \notin {"in_progress", "review"},
             op = "abandon" => to = "abandoned"
      PROVE  TargetsOK'
  <2> DEFINE q == [op |-> op, pc |-> "write", spec |-> s, other |-> None,
                   read |-> specs[s], intent |-> i, notes |-> n, to |-> to]
  <2>1. req' = [req EXCEPT ![r] = q] /\ q.to = to /\ q.op = op
    BY <1>3 DEF Read
  <2> HIDE DEF q
  <2> QED BY <1>1, <1>3, <2>1
<1>4. ASSUME NEW r \in Requests, Arrive(r) PROVE TargetsOK'
  <2>1. CASE LifecycleAmendSpec(r)
    <3>1. PICK s \in Slugs, st \in ReEntryStages :
            Read(r, "amend", s, AnyIntent, AnyNotes, PrecedingAuthStage(st))
      BY <2>1 DEF LifecycleAmendSpec
    <3>2. PrecedingAuthStage(st) \notin {"in_progress", "review"}
      BY PrecedingAuthoring DEF AuthoringStageSet
    <3> QED BY <1>3, <3>1, <3>2
  <2>2. CASE UpdateSpec(r) \/ LifecycleAbandonSpec(r) \/ RecordCompletion(r)
    BY <1>3, <2>2 DEF UpdateSpec, LifecycleAbandonSpec, RecordCompletion
  <2>3. CASE LifecycleSupersedeSpec(r)
    <3>1. PICK old \in Slugs, new \in Slugs :
            req' = [req EXCEPT ![r] =
                      [Idle("first") EXCEPT !.op = "supersede", !.spec = old,
                                            !.other = new]]
      BY <2>3 DEF LifecycleSupersedeSpec
    <3> DEFINE q == [Idle("first") EXCEPT !.op = "supersede", !.spec = old,
                                          !.other = new]
    <3>2. q.to = "spark" /\ q.op = "supersede"
      BY DEF Idle
    <3> HIDE DEF q
    <3> QED BY <1>1, <3>1, <3>2 DEF q
  <2> QED BY <1>4, <2>1, <2>2, <2>3 DEF Arrive
<1>5. ASSUME NEW r \in Requests, SupersedeLock(r) PROVE TargetsOK'
  <2> DEFINE pc == IF req[r].pc = "first" THEN "second" ELSE "commit"
             q == [req[r] EXCEPT !.pc = pc]
  <2>1. req' = [req EXCEPT ![r] = q]
    BY <1>5 DEF SupersedeLock, Goto
  <2>2. q.to = req[r].to /\ q.op = req[r].op
    BY <1>0 DEF Request
  <2> HIDE DEF q
  <2> QED BY <1>0, <1>1, <2>1, <2>2 DEF TargetsOK
<1>6. ASSUME NEW r \in Requests, Proceed(r) \/ Rollback(r), ~SupersedeLock(r)
      PROVE  \E status : Finish(r, status)
  BY <1>6 DEF Proceed, UpdateWrite, LifecycleWrite, CompletionWrite, WriteRefused,
              Refused, SupersedeCommit, SupersedeRefused, Rollback
<1>7. CASE req' = req
  BY <1>0, <1>7 DEF TargetsOK
<1>8. ASSUME NEW s \in Slugs, Author(s) PROVE req' = req
  BY <1>8 DEF Author, CreateSpec, Spark, Shape, Specify, Decompose, Approve, StageOutput
<1>9. ASSUME NEW e, AddEdge(e) \/ RemoveEdge(e) PROVE req' = req
  BY <1>9 DEF AddEdge, RemoveEdge, ByHand
<1> QED BY <1>2, <1>4, <1>5, <1>6, <1>7, <1>8, <1>9 DEF Next, vars

\* Links: only supersede writes them, both ends and the edge together.
LEMMA NextLinks == ASSUME FullInv, [Next]_vars PROVE SupersessionLinked'
<1>0. SupersessionLinked /\ TypeOK /\ IInv
  BY DEF FullInv
<1>1. CASE LinksKept
  BY <1>0, <1>1 DEF SupersessionLinked, LinksKept
<1>2. ASSUME NEW r \in Requests, SupersedeCommit(r) PROVE SupersessionLinked'
  <2> DEFINE old == req[r].spec
             new == req[r].other
             marked == [specs[old] EXCEPT !.supersededBy = new]
             oldRow == EnterStage(marked, "superseded")
             next == specs[new].version + 1
             newRow == [specs[new] EXCEPT !.supersedes = old, !.version = next]
  <2>1. old \in Slugs /\ new \in Slugs /\ old # new
    BY <1>0, <1>2 DEF SupersedeCommit, IInv, RequestOK
  <2>2. /\ marked \in Row /\ marked.supersededBy = new
        /\ marked.supersedes = specs[old].supersedes
    <3> HIDE DEF old, new
    <3> QED BY <1>0, <2>1, TypeFacts DEF Row
  <2>3. "superseded" \in SpecStage
    BY DEF SpecStage
  <2>4. oldRow.supersededBy = new /\ oldRow.supersedes = specs[old].supersedes
    <3> HIDE DEF marked
    <3> QED BY <2>2, <2>3, EnterFields
  <2>5. newRow.supersedes = old /\ newRow.supersededBy = specs[new].supersededBy
    <3> HIDE DEF old, new, next
    <3> QED BY <1>0, <2>1, TypeFacts DEF Row
  <2>6. /\ specs' = [specs EXCEPT ![old] = oldRow, ![new] = newRow]
        /\ Linked' = Linked \cup {<<new, old>>}
    BY <1>2 DEF SupersedeCommit, SupersedesEdge, Linked
  <2>7. old # None /\ new # None
    BY <2>1, SlugsAssumption DEF None
  <2> HIDE DEF oldRow, newRow, old, new
  <2>8. \A s \in Slugs : specs'[s] = IF s = new THEN newRow
                                     ELSE IF s = old THEN oldRow ELSE specs[s]
    BY <1>0, <2>1, <2>6 DEF TypeOK
  <2>9. \A s \in Slugs :
          /\ specs'[s].supersededBy = IF s = old THEN new ELSE specs[s].supersededBy
          /\ specs'[s].supersedes = IF s = new THEN old ELSE specs[s].supersedes
    BY <2>1, <2>4, <2>5, <2>8
  <2> SUFFICES ASSUME NEW n \in Slugs, NEW o \in Slugs
               PROVE  /\ specs'[o].supersededBy = n => <<n, o>> \in Linked'
                      /\ specs'[n].supersedes = o => <<n, o>> \in Linked'
                      /\ <<n, o>> \in Linked' => /\ specs'[o].supersededBy # None
                                                /\ specs'[n].supersedes # None
    BY DEF SupersessionLinked
  <2>10. /\ specs[o].supersededBy = n => <<n, o>> \in Linked
         /\ specs[n].supersedes = o => <<n, o>> \in Linked
         /\ <<n, o>> \in Linked => /\ specs[o].supersededBy # None
                                  /\ specs[n].supersedes # None
    BY <1>0 DEF SupersessionLinked
  <2> QED BY <2>6, <2>7, <2>9, <2>10
<1> QED BY <1>1, <1>2, NextSteps
-----------------------------------------------------------------------------
\* What a step of one slug does to the invariants that speak of that slug.
LEMMA NextRows ==
    ASSUME FullInv, [Next]_vars
    PROVE  AllFilled' /\ FreeIsBlank' /\ PastOK'
<1>1. \A s \in Slugs : SlugStep(s)
  BY NextSteps
<1>2. ASSUME NEW s \in Slugs
      PROVE  /\ Filled(specs'[s])
             /\ specs'[s].version = 0 => specs'[s] = NoRow
             /\ Len(past'[s]) = specs'[s].version
             /\ specs'[s].version > 0 => past'[s][specs'[s].version] = specs'[s]
  <2>1. /\ specs[s] \in Row /\ specs[s].version \in Nat /\ past[s] \in Seq(Row)
        /\ Len(past[s]) = specs[s].version
    BY DEF FullInv, TypeOK, Row, PastOK
  <2>2. CASE specs'[s] = specs[s] /\ past'[s] = past[s]
    BY <2>2 DEF FullInv, AllFilled, FreeIsBlank, PastOK
  <2>3. ASSUME NEW es, Grown(specs[s], specs'[s], es),
               past'[s] = Append(past[s], specs'[s])
        PROVE  /\ Filled(specs'[s])
               /\ specs'[s].version > 0
               /\ Len(past'[s]) = specs'[s].version
               /\ past'[s][specs'[s].version] = specs'[s]
    <3>1. Filled(specs'[s]) /\ specs'[s].version = specs[s].version + 1 /\ specs'[s] \in Row
      BY <2>3 DEF Grown
    <3>2. Len(past'[s]) = Len(past[s]) + 1 /\ past'[s][Len(past[s]) + 1] = specs'[s]
      BY <2>1, <2>3, <3>1
    <3> QED BY <2>1, <3>1, <3>2
  <2> QED BY <1>1, <2>2, <2>3 DEF SlugStep
<1>3. AllFilled' /\ FreeIsBlank'
  BY <1>2 DEF AllFilled, FreeIsBlank, Filled, NoRow, NewRow, AnyIntent, AnyNotes, NoOutputs,
              contenthash
<1> QED BY <1>2, <1>3 DEF PastOK

\* Entries of a log after it grew.
LEMMA GrownEntries ==
    ASSUME NEW l \in Seq(Entry), NEW es \in Seq(Entry),
           NEW i \in 1..Len(l \o es)
    PROVE  \/ i \in 1..Len(l) /\ (l \o es)[i] = l[i]
           \/ \E j \in 1..Len(es) : (l \o es)[i] = es[j]
<1>1. Len(l \o es) = Len(l) + Len(es)
  OBVIOUS
<1>2. CASE i <= Len(l)
  BY <1>2
<1>3. CASE ~(i <= Len(l))
  <2>1. i - Len(l) \in 1..Len(es) /\ (l \o es)[i] = es[i - Len(l)]
    BY <1>1, <1>3
  <2> QED BY <2>1
<1> QED BY <1>2, <1>3

\* No entry that records an intent is numbered above the row.
LEMMA NextNumbered == ASSUME FullInv, [Next]_vars PROVE IntentNumbered'
<1> SUFFICES ASSUME NEW s \in Slugs, NEW i \in 1..Len(log'[s]),
                    IntentChange(log'[s][i]) # {}
             PROVE  log'[s][i].version <= specs'[s].version
  BY DEF IntentNumbered, IntentChange
<1>1. /\ specs[s] \in Row /\ specs[s].version \in Nat /\ log[s] \in Seq(Entry)
  BY DEF FullInv, TypeOK, Row
<1>2. \A j \in 1..Len(log[s]) :
        /\ log[s][j].version \in Nat
        /\ IntentChange(log[s][j]) # {} => log[s][j].version <= specs[s].version
  <2>1. \A j \in 1..Len(log[s]) : log[s][j] \in Entry
    BY <1>1
  <2>2. \A j \in 1..Len(log[s]) : log[s][j].version \in Nat
    BY <2>1 DEF Entry
  <2>3. \A j \in 1..Len(log[s]) :
          IntentChange(log[s][j]) # {} => log[s][j].version <= specs[s].version
    BY DEF FullInv, IntentNumbered
  <2> QED BY <2>2, <2>3
<1>3. CASE specs'[s] = specs[s] /\ log'[s] = log[s]
  BY <1>2, <1>3
<1>4. ASSUME NEW es, Grown(specs[s], specs'[s], es), log'[s] = log[s] \o es
      PROVE  log'[s][i].version <= specs'[s].version
  <2>1. es \in Seq(Entry) /\ specs'[s].version = specs[s].version + 1
        /\ IntentLogged(specs[s], specs'[s], es)
    BY <1>4 DEF Grown
  <2>2. CASE i \in 1..Len(log[s]) /\ log'[s][i] = log[s][i]
    <3>1. log[s][i].version \in Nat /\ log[s][i].version <= specs[s].version
      BY <1>2, <2>2
    <3>2. log[s][i].version <= specs[s].version + 1
      BY <1>1, <3>1
    <3> QED BY <2>1, <2>2, <3>2
  <2>3. ASSUME NEW j \in 1..Len(es), log'[s][i] = es[j]
        PROVE  log'[s][i].version <= specs'[s].version
    <3>1. ~NoIntent(es)
      BY <2>3 DEF NoIntent
    <3>2. PICK e \in Entry : es = <<e>> /\ e.version = specs'[s].version
      BY <2>1, <3>1 DEF IntentLogged
    <3>3. es[j] = e
      BY <3>2
    <3> QED BY <1>1, <2>1, <2>3, <3>2, <3>3
  <2> QED BY <1>1, <1>4, <2>1, <2>2, <2>3, GrownEntries
<1> QED BY <1>3, <1>4, NextSteps DEF SlugStep
-----------------------------------------------------------------------------
(***************************************************************************)
(* GetSpecAtVersion.  IntentsAbove and UndoneOf are SinceVersion and       *)
(* Undone of SpecLifecycle for the field intent, as functions of a set of  *)
(* entries and of the current value.                                       *)
(***************************************************************************)
IntentsAbove(es, v) == {e \in es : e.version > v /\ IntentChange(e) # {}}
Lowest(es) == {e \in es : \A f \in es : e.version <= f.version}
OldIntents(es) == {c[2] : c \in UNION {IntentChange(e) : e \in es}}
UndoneOf(es, current, v) ==
    IF IntentsAbove(es, v) = {} THEN {current}
    ELSE OldIntents(Lowest(IntentsAbove(es, v)))

\* The two readings of Undone agree, before a step and after it.
LEMMA UndoneIntent ==
    ASSUME NEW s, NEW v
    PROVE  /\ Undone(s, v, "intent") = UndoneOf(Entries(s), specs[s].intent, v)
           /\ Undone(s, v, "intent")' = UndoneOf(Entries(s)', specs'[s].intent, v)
<1>1. Undone(s, v, "intent") = UndoneOf(Entries(s), specs[s].intent, v)
  <2> DEFINE changed == {e \in SinceVersion(s, v) : \E c \in e.changes : c[1] = "intent"}
             last == {e \in changed : \A f \in changed : e.version <= f.version}
  <2>1. changed = IntentsAbove(Entries(s), v)
    BY DEF SinceVersion, IntentsAbove, IntentChange
  <2>2. last = Lowest(IntentsAbove(Entries(s), v))
    BY <2>1 DEF Lowest
  <2>3. {d \in UNION {e.changes : e \in last} : d[1] = "intent"}
          = UNION {IntentChange(e) : e \in last}
    BY DEF IntentChange
  <2>4. {c[2] : c \in {d \in UNION {e.changes : e \in last} : d[1] = "intent"}}
          = OldIntents(last)
    BY <2>3 DEF OldIntents
  <2>5. Undone(s, v, "intent") =
          IF changed = {} THEN {specs[s]["intent"]}
          ELSE {c[2] : c \in {d \in UNION {e.changes : e \in last} : d[1] = "intent"}}
    BY DEF Undone
  <2> HIDE DEF changed, last
  <2> QED BY <2>1, <2>2, <2>4, <2>5 DEF UndoneOf
<1>2. Undone(s, v, "intent")' = UndoneOf(Entries(s)', specs'[s].intent, v)
  <2> DEFINE changed == {e \in SinceVersion(s, v)' : \E c \in e.changes : c[1] = "intent"}
             last == {e \in changed : \A f \in changed : e.version <= f.version}
  <2>1. changed = IntentsAbove(Entries(s)', v)
    BY DEF SinceVersion, IntentsAbove, IntentChange
  <2>2. last = Lowest(IntentsAbove(Entries(s)', v))
    BY <2>1 DEF Lowest
  <2>3. {d \in UNION {e.changes : e \in last} : d[1] = "intent"}
          = UNION {IntentChange(e) : e \in last}
    BY DEF IntentChange
  <2>4. {c[2] : c \in {d \in UNION {e.changes : e \in last} : d[1] = "intent"}}
          = OldIntents(last)
    BY <2>3 DEF OldIntents
  <2>5. Undone(s, v, "intent")' =
          IF changed = {} THEN {specs'[s]["intent"]}
          ELSE {c[2] : c \in {d \in UNION {e.changes : e \in last} : d[1] = "intent"}}
    BY DEF Undone
  <2> HIDE DEF changed, last
  <2> QED BY <2>1, <2>2, <2>4, <2>5 DEF UndoneOf
<1> QED BY <1>1, <1>2

\* Entries that record no intent change nothing.
LEMMA UndoneNoIntent ==
    ASSUME NEW es, NEW fs, NEW v, NEW current,
           \A f \in fs : IntentChange(f) = {}
    PROVE  UndoneOf(es \cup fs, current, v) = UndoneOf(es, current, v)
<1>1. IntentsAbove(es \cup fs, v) = IntentsAbove(es, v)
  BY DEF IntentsAbove
<1> QED BY <1>1 DEF UndoneOf

\* An entry above all others that records the current intent stands for it.
LEMMA UndoneNewest ==
    ASSUME NEW es, NEW e, NEW current, NEW new, NEW top \in Nat, NEW v \in 0..top,
           IntentChange(e) = {<<"intent", current>>}, e.version = top + 1,
           \A f \in es : IntentChange(f) # {} => f.version \in Nat /\ f.version <= top
    PROVE  UndoneOf(es \cup {e}, new, v) = UndoneOf(es, current, v)
<1> DEFINE above == IntentsAbove(es, v)
<1>1. e.version > v /\ IntentChange(e) # {}
  OBVIOUS
<1>2. IntentsAbove(es \cup {e}, v) = above \cup {e}
  BY <1>1 DEF IntentsAbove
<1>3. \A f \in above : f.version \in Nat /\ f.version <= top
  BY DEF IntentsAbove
<1> HIDE DEF above
<1>4. CASE above = {}
  <2>1. Lowest(above \cup {e}) = {e}
    BY <1>4 DEF Lowest
  <2>2. UNION {IntentChange(f) : f \in {e}} = {<<"intent", current>>}
    OBVIOUS
  <2>3. {c[2] : c \in {<<"intent", current>>}} = {current}
    OBVIOUS
  <2>4. OldIntents({e}) = {current}
    BY <2>2, <2>3 DEF OldIntents
  <2> QED BY <1>2, <1>4, <2>1, <2>4 DEF UndoneOf, above
<1>5. CASE above # {}
  <2>1. Lowest(above \cup {e}) = Lowest(above)
    <3>1. ASSUME NEW f \in Lowest(above) PROVE f \in Lowest(above \cup {e})
      BY <1>3 DEF Lowest
    <3>2. ASSUME NEW f \in Lowest(above \cup {e}) PROVE f \in Lowest(above)
      BY <1>3, <1>5 DEF Lowest
    <3> QED BY <3>1, <3>2
  <2> QED BY <1>2, <1>5, <2>1 DEF UndoneOf, above
<1> QED BY <1>4, <1>5

\* The entries of a log after it grew, as sets.
LEMMA EntriesGrow ==
    ASSUME NEW s, NEW es \in Seq(Entry), log[s] \in Seq(Entry), log'[s] = log[s] \o es
    PROVE  Entries(s)' = Entries(s) \cup {es[j] : j \in 1..Len(es)}
<1> DEFINE l == log[s]
<1>0. l \in Seq(Entry) /\ Len(l \o es) = Len(l) + Len(es) /\ Len(l) \in Nat /\ Len(es) \in Nat
  OBVIOUS
<1>1. Entries(s)' = {(l \o es)[i] : i \in 1..Len(l \o es)}
  BY DEF Entries
<1>2. ASSUME NEW i \in 1..Len(l \o es)
      PROVE  (l \o es)[i] \in Entries(s) \cup {es[j] : j \in 1..Len(es)}
  BY GrownEntries DEF Entries
<1>3. ASSUME NEW i \in 1..Len(l) PROVE l[i] \in Entries(s)'
  <2>1. i \in 1..Len(l \o es) /\ (l \o es)[i] = l[i]
    BY <1>0
  <2> QED BY <1>1, <2>1
<1>4. ASSUME NEW j \in 1..Len(es) PROVE es[j] \in Entries(s)'
  <2>1. Len(l) + j \in 1..Len(l \o es) /\ (l \o es)[Len(l) + j] = es[j]
    BY <1>0
  <2> QED BY <1>1, <2>1
<1> QED BY <1>1, <1>2, <1>3, <1>4 DEF Entries

\* Every version that there was is given back with its intent, after every
\* step.
LEMMA NextReconstructed == ASSUME FullInv, [Next]_vars PROVE IntentReconstructed'
<1> SUFFICES ASSUME NEW s \in Slugs, NEW v \in 1..(specs'[s].version - 1)
             PROVE  Undone(s, v, "intent")' = {past'[s][v].intent}
  BY DEF IntentReconstructed, Earlier
<1> DEFINE x == specs[s].intent
           V == specs[s].version
<1>0. /\ specs[s] \in Row /\ V \in Nat /\ log[s] \in Seq(Entry)
      /\ past[s] \in Seq(Row) /\ Len(past[s]) = V
  BY DEF FullInv, TypeOK, Row, PastOK
<1>1. Undone(s, v, "intent")' = UndoneOf(Entries(s)', specs'[s].intent, v)
  BY UndoneIntent
<1>2. ASSUME NEW w \in 1..(V - 1) PROVE UndoneOf(Entries(s), x, w) = {past[s][w].intent}
  <2>1. Undone(s, w, "intent") = {past[s][w].intent}
    BY DEF FullInv, IntentReconstructed, Earlier
  <2> QED BY <2>1, UndoneIntent
<1>3. CASE specs'[s] = specs[s] /\ log'[s] = log[s] /\ past'[s] = past[s]
  <2>1. Entries(s)' = Entries(s)
    BY <1>3 DEF Entries
  <2> QED BY <1>1, <1>2, <1>3, <2>1
<1>4. ASSUME NEW es, Grown(specs[s], specs'[s], es), log'[s] = log[s] \o es,
             past'[s] = Append(past[s], specs'[s])
      PROVE  UndoneOf(Entries(s)', specs'[s].intent, v) = {past'[s][v].intent}
  <2>1. /\ es \in Seq(Entry) /\ specs'[s].version = V + 1 /\ specs'[s] \in Row
        /\ IntentLogged(specs[s], specs'[s], es)
    BY <1>4 DEF Grown
  <2>2. v \in 1..V /\ V > 0
    BY <1>0, <2>1
  <2>3. past'[s][v] = past[s][v]
    BY <1>0, <1>4, <2>1, <2>2
  <2>4. \A f \in Entries(s) : IntentChange(f) # {} => f.version \in Nat /\ f.version <= V
    <3> SUFFICES ASSUME NEW i \in 1..Len(log[s]), IntentChange(log[s][i]) # {}
                 PROVE  log[s][i].version \in Nat /\ log[s][i].version <= V
      BY DEF Entries
    <3>1. log[s][i] \in Entry
      BY <1>0
    <3>2. log[s][i].version <= V
      BY DEF FullInv, IntentNumbered
    <3> QED BY <3>1, <3>2 DEF Entry
  <2>5. UndoneOf(Entries(s), x, v) = {past[s][v].intent}
    <3>1. CASE v \in 1..(V - 1)
      BY <1>2, <3>1
    <3>2. CASE v = V
      <4>1. IntentsAbove(Entries(s), V) = {}
        BY <1>0, <2>4 DEF IntentsAbove
      <4>2. past[s][V] = specs[s]
        BY <2>2 DEF FullInv, PastOK
      <4> QED BY <3>2, <4>1, <4>2 DEF UndoneOf
    <3> QED BY <1>0, <2>2, <3>1, <3>2
  <2>6. Entries(s)' = Entries(s) \cup {es[j] : j \in 1..Len(es)}
    BY <1>0, <1>4, <2>1, EntriesGrow
  <2>7. CASE NoIntent(es) /\ specs'[s].intent = x
    <3>1. \A f \in {es[j] : j \in 1..Len(es)} : IntentChange(f) = {}
      BY <2>7 DEF NoIntent
    <3> DEFINE fs == {es[j] : j \in 1..Len(es)}
    <3>2. \A f \in fs : IntentChange(f) = {}
      BY <3>1
    <3>3. Entries(s)' = Entries(s) \cup fs
      BY <2>6
    <3> HIDE DEF fs
    <3>4. UndoneOf(Entries(s) \cup fs, x, v) = UndoneOf(Entries(s), x, v)
      BY <3>2, UndoneNoIntent
    <3>5. UndoneOf(Entries(s)', x, v) = UndoneOf(Entries(s), x, v)
      BY <3>3, <3>4
    <3>6. UndoneOf(Entries(s)', specs'[s].intent, v) = UndoneOf(Entries(s), x, v)
      BY <2>7, <3>5
    <3> QED BY <2>3, <2>5, <3>6
  <2>8. ASSUME NEW e \in Entry, es = <<e>>, e.version = specs'[s].version,
               IntentChange(e) = {<<"intent", x>>}
        PROVE  UndoneOf(Entries(s)', specs'[s].intent, v) = {past'[s][v].intent}
    <3>1. {es[j] : j \in 1..Len(es)} = {e}
      BY <2>8
    <3>2. Entries(s)' = Entries(s) \cup {e}
      BY <2>6, <3>1
    <3>3. v \in 0..V /\ e.version = V + 1
      BY <2>1, <2>2, <2>8
    <3>4. UndoneOf(Entries(s) \cup {e}, specs'[s].intent, v) = UndoneOf(Entries(s), x, v)
      BY <1>0, <2>4, <2>8, <3>3, UndoneNewest
    <3> QED BY <2>3, <2>5, <3>2, <3>4
  <2>9. ~(specs[s].version = 0)
    BY <1>0, <2>2
  <2> QED BY <2>1, <2>7, <2>8, <2>9 DEF IntentLogged
<1> QED BY <1>1, <1>3, <1>4, NextSteps DEF SlugStep
-----------------------------------------------------------------------------
(***************************************************************************)
(* The initial states.                                                     *)
(***************************************************************************)

\* The fields of a row that went up the funnel.
LEMMA FunnelFields ==
    ASSUME NEW v \in 1..5, NEW stored \in BOOLEAN
    PROVE  LET row == FunnelRow(v, stored) IN
           /\ row \in Row /\ row.version = v /\ row.intent = AnyIntent
           /\ row.supersedes = None /\ row.supersededBy = None
           /\ stored => Filled(row)
<1> DEFINE outs == [o \in OutputNames |->
                      IF stageIndex(o) < v \/ (stored /\ stageIndex(o) = v)
                      THEN CHOOSE x \in Outputs : TRUE ELSE 0]
           base == NewRow(AnyIntent, AnyNotes, authoringStages[v], outs)
           row == FunnelRow(v, stored)
<1>1. (CHOOSE x \in Outputs : TRUE) \in Outputs /\ 0 \notin Outputs
  BY OutputsAssumption
<1>2. outs \in OutputMap
  BY <1>1 DEF OutputMap
<1>3. authoringStages[v] \in AuthoringStageSet /\ authoringStages[v] \in SpecStage
  BY StageFacts DEF authoringStages, AuthoringStageSet
<1>4. /\ base \in Row /\ base.stage = authoringStages[v] /\ base.outputs = outs
      /\ base.intent = AnyIntent /\ base.supersedes = None /\ base.supersededBy = None
  BY <1>2, <1>3, AnyFacts, NewFields
<1>5. row = [base EXCEPT !.version = v]
  BY DEF FunnelRow
<1>6. stageIndex(authoringStages[v]) = v
  BY StageIndexValues DEF authoringStages
<1>7. \A o \in OutputNames : stageIndex(o) < v \/ (stored /\ stageIndex(o) = v) => outs[o] # 0
  BY <1>1
<1>8. \A o \in OutputNames : stageIndex(o) \in Nat
  BY StageIndexValues DEF OutputNames
<1> HIDE DEF base, outs, row
<1>9. /\ row \in Row /\ row.version = v /\ row.intent = AnyIntent
      /\ row.supersedes = None /\ row.supersededBy = None
      /\ row.stage = authoringStages[v] /\ row.outputs = outs
  BY <1>4, <1>5 DEF Row
<1>10. stored => Filled(row)
  <2>1. authoringStages[v] \notin {"in_progress", "review"}
    BY <1>3 DEF AuthoringStageSet
  <2> QED BY <1>6, <1>7, <1>8, <1>9, <2>1 DEF Filled
<1> QED BY <1>9, <1>10 DEF row

\* The changelog of such a spec, which records no intent.
LEMMA FunnelEntries == ASSUME NEW n \in 0..5 PROVE NoIntent(FunnelLog(n))
<1> DEFINE len == IF n = 5 THEN 9 ELSE 2 * n
<1>1. ASSUME NEW i \in 1..len
      PROVE  FunnelLog(n)[i] \in Entry /\ IntentChange(FunnelLog(n)[i]) = {}
  <2> DEFINE v == (i + 1) \div 2
             ch == IF v = 1 THEN {} ELSE {<<"stage", authoringStages[v - 1]>>}
             even == EntryOf(FunnelRow(v, TRUE), {})
             odd == EntryOf(FunnelRow(v, FALSE), ch)
  <2>1. v \in 1..5
    OBVIOUS
  <2>2. FunnelLog(n)[i] = IF i % 2 = 0 THEN even ELSE odd
    BY DEF FunnelLog
  <2>3. ch \in SUBSET FieldChange /\ \A c \in ch : c[1] # "intent"
    <3>1. v # 1 => authoringStages[v - 1] \in SpecStage
      BY <2>1, StageFacts
    <3> QED BY <3>1 DEF FieldChange, Fields
  <2>4. FunnelRow(v, TRUE) \in Row /\ FunnelRow(v, FALSE) \in Row
    BY <2>1, FunnelFields
  <2>5. {} \in SUBSET FieldChange
    OBVIOUS
  <2> HIDE DEF v, ch
  <2>6. even \in Entry /\ even.changes = {}
    BY <2>4, <2>5, EntryFacts
  <2>7. odd \in Entry /\ odd.changes = ch
    BY <2>3, <2>4, EntryFacts
  <2> HIDE DEF even, odd
  <2> QED BY <2>2, <2>3, <2>6, <2>7 DEF IntentChange
<1>2. len \in Nat
  OBVIOUS
<1>3. FunnelLog(n) = [i \in 1..len |-> FunnelLog(n)[i]]
  BY DEF FunnelLog
<1> HIDE DEF len
<1>4. FunnelLog(n) \in Seq(Entry) /\ Len(FunnelLog(n)) = len
  BY <1>1, <1>2, <1>3
<1> QED BY <1>1, <1>4 DEF NoIntent

\* The initial states satisfy the invariant.
LEMMA InitFull == Init => FullInv
<1> SUFFICES ASSUME Init PROVE FullInv
  OBVIOUS
<1>1. PICK reached \in [Slugs -> {stageIndex(st) : st \in InitStages}] :
        /\ specs = [s \in Slugs |-> IF reached[s] = 0 THEN NoRow
                                    ELSE FunnelRow(reached[s], TRUE)]
        /\ log = [s \in Slugs |-> FunnelLog(reached[s])]
        /\ past = [s \in Slugs |-> [v \in 1..reached[s] |-> FunnelRow(v, TRUE)]]
        /\ limit = [s \in Slugs |-> reached[s] + MaxGrowth]
  BY DEF Init
<1>2. \A s \in Slugs : reached[s] \in 0..5
  BY StageIndexType
<1>3. ASSUME NEW s \in Slugs
      PROVE  /\ specs[s] \in Row /\ specs[s].version = reached[s]
             /\ specs[s].intent = AnyIntent /\ Filled(specs[s])
             /\ specs[s].supersedes = None /\ specs[s].supersededBy = None
             /\ reached[s] = 0 => specs[s] = NoRow
             /\ reached[s] > 0 => specs[s] = FunnelRow(reached[s], TRUE)
  <2>1. CASE reached[s] = 0
    <3>1. specs[s] = NoRow
      BY <1>1, <2>1
    <3>2. NoRow.intent = AnyIntent
      BY DEF NoRow, NewRow
    <3>3. Filled(NoRow)
      BY BlankFields, StageIndexValues DEF Filled, OutputNames
    <3> QED BY <2>1, <3>1, <3>2, <3>3, BlankFields
  <2>2. CASE reached[s] # 0
    <3>1. specs[s] = FunnelRow(reached[s], TRUE) /\ reached[s] \in 1..5
      BY <1>1, <1>2, <2>2
    <3> QED BY <2>2, <3>1, FunnelFields
  <2> QED BY <2>1, <2>2
<1>4. ASSUME NEW s \in Slugs
      PROVE  /\ log[s] = FunnelLog(reached[s]) /\ NoIntent(log[s])
             /\ past[s] \in Seq(Row) /\ Len(past[s]) = reached[s]
             /\ \A v \in 1..reached[s] : past[s][v] = FunnelRow(v, TRUE)
  <2>1. log[s] = FunnelLog(reached[s]) /\ NoIntent(log[s])
    BY <1>1, <1>2, FunnelEntries
  <2> DEFINE n == reached[s]
  <2>2. past[s] = [v \in 1..n |-> FunnelRow(v, TRUE)]
    BY <1>1
  <2>3. n \in Nat /\ n \in 0..5
    BY <1>2
  <2> HIDE DEF n
  <2>4. \A v \in 1..n : v \in 1..5
    BY <2>3
  <2>5. \A v \in 1..n : FunnelRow(v, TRUE) \in Row
    BY <2>4, FunnelFields
  <2>6. past[s] \in Seq(Row) /\ Len(past[s]) = n
    <3>1. past[s] \in [1..n -> Row]
      BY <2>2, <2>5
    <3>2. past[s] \in Seq(Row)
      BY <2>3, <3>1, SeqDef
    <3>3. DOMAIN past[s] = 1..n
      BY <2>2
    <3> QED BY <2>3, <3>2, <3>3, LenProperties
  <2>7. \A v \in 1..n : past[s][v] = FunnelRow(v, TRUE)
    BY <2>2
  <2> QED BY <2>1, <2>6, <2>7 DEF n
<1>5. TypeOK
  <2>1. log \in [Slugs -> Seq(Entry)] /\ past \in [Slugs -> Seq(Row)]
    BY <1>1, <1>4 DEF NoIntent
  <2>2. /\ edges \subseteq Slugs \X Slugs /\ byHand \subseteq Slugs \X Slugs
        /\ lock \in [Slugs -> Requests \cup {None}]
    BY DEF Init
  <2>4. limit \in [Slugs -> Nat]
    <3>1. \A s \in Slugs : reached[s] + MaxGrowth \in Nat
      BY <1>2, GrowthAssumption
    <3> QED BY <1>1, <3>1
  <2>3. specs \in [Slugs -> Row] /\ req \in [Requests -> Request]
    BY InitIInv DEF IInv, Typed
  <2> QED BY <2>1, <2>2, <2>3, <2>4 DEF TypeOK
<1>6. TargetsOK
  <2>1. \A r \in Requests : req[r].to = "spark" /\ req[r].op = "none"
    BY DEF Init, Idle
  <2> QED BY <2>1 DEF TargetsOK
<1>7. AllFilled /\ FreeIsBlank
  BY <1>3 DEF AllFilled, FreeIsBlank
<1>8. SupersessionLinked
  <2>1. Linked = {}
    BY DEF Init, Linked
  <2>2. \A s \in Slugs : s # None
    BY SlugsAssumption DEF None
  <2> QED BY <1>3, <2>1, <2>2 DEF SupersessionLinked
<1>9. PastOK
  <2> SUFFICES ASSUME NEW s \in Slugs
               PROVE  /\ Len(past[s]) = specs[s].version
                      /\ specs[s].version > 0 => past[s][specs[s].version] = specs[s]
    BY DEF PastOK
  <2> DEFINE n == reached[s]
  <2>1. n \in 0..5
    BY <1>2
  <2>2. /\ specs[s].version = n /\ Len(past[s]) = n
        /\ \A v \in 1..n : past[s][v] = FunnelRow(v, TRUE)
        /\ n > 0 => specs[s] = FunnelRow(n, TRUE)
    BY <1>3, <1>4
  <2> HIDE DEF n
  <2>3. n > 0 => n \in 1..n
    BY <2>1
  <2>4. n > 0 => past[s][n] = FunnelRow(n, TRUE)
    BY <2>2, <2>3
  <2> QED BY <2>2, <2>4
<1>10. IntentNumbered
  BY <1>4 DEF IntentNumbered, NoIntent
<1>11. IntentReconstructed
  <2> SUFFICES ASSUME NEW s \in Slugs, NEW v \in 1..(specs[s].version - 1)
               PROVE  Undone(s, v, "intent") = {past[s][v].intent}
    BY DEF IntentReconstructed, Earlier
  <2> DEFINE n == reached[s]
  <2>0. n \in 0..5 /\ specs[s].version = n /\ v \in 1..(specs[s].version - 1)
        /\ \A w \in 1..n : past[s][w] = FunnelRow(w, TRUE)
    BY <1>2, <1>3, <1>4
  <2> HIDE DEF n
  <2>1. v \in 1..n /\ v \in 1..5
    <3>1. v \in 1..(n - 1)
      BY <2>0
    <3> QED BY <2>0, <3>1
  <2>2. past[s][v].intent = AnyIntent
    <3>1. past[s][v] = FunnelRow(v, TRUE)
      BY <2>0, <2>1
    <3> QED BY <2>1, <3>1, FunnelFields
  <2>3. IntentsAbove(Entries(s), v) = {}
    BY <1>4 DEF IntentsAbove, Entries, NoIntent
  <2>4. UndoneOf(Entries(s), specs[s].intent, v) = {specs[s].intent}
    BY <2>3 DEF UndoneOf
  <2> QED BY <1>3, <2>2, <2>4, UndoneIntent
<1> QED BY <1>5, <1>6, <1>7, <1>8, <1>9, <1>10, <1>11, InitIInv DEF FullInv

\* Every step keeps it.
LEMMA NextFull == FullInv /\ [Next]_vars => FullInv'
<1> SUFFICES ASSUME FullInv, [Next]_vars PROVE FullInv'
  OBVIOUS
<1>1. IInv'
  BY NextIInv DEF FullInv
<1> QED BY <1>1, NextTypeOK, NextTargets, NextRows, NextLinks, NextNumbered,
           NextReconstructed DEF FullInv
-----------------------------------------------------------------------------
(***************************************************************************)
(* The theorems that rest on it.                                           *)
(***************************************************************************)

\* In every reachable state rows, changelogs, history, edges, row locks and
\* requests have their types: no request carries a stage or a row that the
\* tables cannot hold.
THEOREM RowsTyped == Spec => []TypeOK
<1>1. FullInv => TypeOK
  BY DEF FullInv
<1> QED BY <1>1, InitFull, NextFull, PTL DEF Spec

\* In every reachable state, a spec at a stage of the funnel has the outputs
\* of that stage and of the ones before it back to shape, although an amend
\* sends specs back and keeps what was stored.
THEOREM FunnelOutputsKept == Spec => []FunnelOutputsPresent
<1>1. FullInv => FunnelOutputsPresent
  BY DEF FullInv, AllFilled, Filled, FunnelOutputsPresent
<1> QED BY <1>1, InitFull, NextFull, PTL DEF Spec

\* In every reachable state, superseded_by, supersedes and the SUPERSEDES
\* edges tell one story, whatever supersedes, updates and stage changes run
\* at the same time, and whatever edges clients add and remove by AddEdge and
\* RemoveEdge: but for what such calls themselves added and removed.
THEOREM SupersessionsLinked == Spec => []SupersessionLinked
<1>1. FullInv => SupersessionLinked
  BY DEF FullInv
<1> QED BY <1>1, InitFull, NextFull, PTL DEF Spec

\* In every reachable state, GetSpecAtVersion gives back the intent of every
\* earlier version of a spec, although entries are written only when the hash
\* changed and a completion can number its own entry wrongly.
THEOREM IntentsReconstructed == Spec => []IntentReconstructed
<1>1. FullInv => IntentReconstructed
  BY DEF FullInv
<1> QED BY <1>1, InitFull, NextFull, PTL DEF Spec

\* No step takes a superseded or abandoned spec elsewhere, but for the
\* completion that sets it to done: amend, abandon, update and the authoring
\* commands find their guards false when they come late.
THEOREM ClosedStayClosed == Spec => ClosedButForCompletion
<1> DEFINE Kept == \A s \in Slugs :
                     specs[s].stage \in FullyTerminalStages
                         => specs'[s].stage \in {specs[s].stage, "done"}
<1>1. FullInv /\ [Next]_vars => [Kept]_vars
  <2> SUFFICES ASSUME FullInv, [Next]_vars PROVE Kept
    OBVIOUS
  <2>1. \A s \in Slugs : SlugStep(s)
    BY NextSteps
  <2> QED BY <2>1 DEF SlugStep, Grown
<1> QED BY <1>1, InitFull, NextFull, PTL DEF Spec, ClosedButForCompletion
=============================================================================
