----------------------------- MODULE MCExchange -----------------------------
(***************************************************************************)
(* What compares the project with a copy of it: drift checks with the      *)
(* hashes on its edges, synchronisation with an external tracker, export   *)
(* and import with a document.  The components share no variable, so a     *)
(* behaviour is one of the component in focus and the others stay as they  *)
(* are.                                                                    *)
(***************************************************************************)
EXTENDS DependencyDrift, ExternalSync, ExportImport, TLC

CONSTANTS
    down, up, choice,  \* a spec, and the spec and the decision it depends on
    deep, flat         \* the specs of an exported project

VARIABLE focus

MCLinks == {<<down, up>>, <<down, choice>>}
\* One spec of the project is decomposed, the other still a spark.
MCCeiling == (deep :> 4) @@ (flat :> 0)

MCVars == <<focus, driftVars, syncVars, xVars>>

MCInit ==
    /\ focus \in {"drift", "sync", "export"}
    /\ DriftInit /\ SyncInit /\ XInit

MCNext ==
    \/ focus = "drift" /\ DriftNext /\ UNCHANGED <<focus, syncVars, xVars>>
    \/ focus = "sync" /\ SyncNext /\ UNCHANGED <<focus, driftVars, xVars>>
    \/ focus = "export" /\ XNext /\ UNCHANGED <<focus, driftVars, syncVars>>

MCSpec == MCInit /\ [][MCNext]_MCVars

\* Every copy and every record of it has its type, whatever runs beside.
ExchangeTypeOK == DriftTypeOK /\ SyncTypeOK /\ XTypeOK

Sym == Permutations(Requests) \cup Permutations(Contents) \cup Permutations(Items \ Strangers)
=============================================================================
