------------------------------ MODULE MCRecords ------------------------------
(***************************************************************************)
(* What the authoring funnel writes beside the spec rows: slices, decisions *)
(* and the log of conversations and findings.  Each of the components has  *)
(* tables of its own and takes what it needs of the spec rows into its own *)
(* variables, so a behaviour is one of the component in focus and the      *)
(* others stay as they are.                                                *)
(***************************************************************************)
EXTENDS Slices, Decisions, Conversations, TLC

CONSTANTS sliceA, sliceB, other   \* two slices, and a node of another spec

VARIABLE focus

\* A dependency between two slices, and an edge from another spec to a slice.
MCClientEdges == {<<sliceA, sliceB, "DEPENDS_ON">>, <<other, sliceB, "DEPENDS_ON">>}

\* Clients relink the decisions of one of the specs.
MCClientLinks == {CHOOSE s \in CitingSpecs : TRUE} \X DecSlugs

MCVars == <<focus, vars, decVars, convVars>>

MCInit ==
    /\ focus \in {"slices", "decisions", "log"}
    /\ Init /\ DecInit /\ ConvInit

MCNext ==
    \/ focus = "slices" /\ Next /\ UNCHANGED <<focus, decVars, convVars>>
    \/ focus = "decisions" /\ DecNext /\ UNCHANGED <<focus, vars, convVars>>
    \/ focus = "log" /\ ConvNext /\ UNCHANGED <<focus, vars, decVars>>

MCSpec == MCInit /\ [][MCNext]_MCVars

\* Every record has its type, whatever runs beside its writer.
RecordsTypeOK == TypeOK /\ DecTypeOK /\ ConvTypeOK

Sym == Permutations(Requests) \cup Permutations(Agents)
=============================================================================
