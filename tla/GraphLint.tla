------------------------------ MODULE GraphLint ------------------------------
(***************************************************************************)
(* The linter's walk of the dependency graph (internal/linter/linter.go)   *)
(* and the specs that are ready to be worked on (GetReady of               *)
(* internal/storage/postgres/graph.go).                                    *)
(*                                                                         *)
(* `specgraph lint` walks from every spec, depth first, over what          *)
(* GetDependencies answers, and flags a spec that it meets while it is     *)
(* still walking from it.  AddEdge refuses no cycle, so every graph is     *)
(* possible.  Messages and the schema rules are left out.                  *)
(***************************************************************************)
EXTENDS Naturals, Sequences, FiniteSets, SequencesExt

CONSTANTS
    LintSpecs,      \* the specs of the project, numbered
    MaxCycleDepth,  \* maxCycleDepth
    MaxSpecsPerLint \* maxSpecsPerLint: a run lists no more specs

\* The project is one that a run lists in full: of a larger one, some specs start
\* no walk.
ASSUME LintAssumption ==
    /\ LintSpecs \subseteq Nat /\ MaxCycleDepth \in Nat /\ MaxSpecsPerLint \in Nat
    /\ IsFiniteSet(LintSpecs) /\ Cardinality(LintSpecs) <= MaxSpecsPerLint

VARIABLES
    gDepends,   \* DEPENDS_ON edges
    gBlocks,    \* BLOCKS edges
    gWalk       \* where the linter is

gVars == <<gDepends, gBlocks, gWalk>>

Pairs == {p \in LintSpecs \X LintSpecs : p[1] # p[2]}
Frame(n, todo) == [node |-> n, todo |-> todo]

GTypeOK ==
    /\ gDepends \subseteq Pairs /\ gBlocks \subseteq Pairs
    /\ gWalk.pending \subseteq LintSpecs /\ gWalk.visited \subseteq LintSpecs /\ gWalk.found \subseteq LintSpecs
    /\ \A i \in DOMAIN gWalk.stack :
         gWalk.stack[i].node \in LintSpecs /\ gWalk.stack[i].todo \subseteq LintSpecs

GInit ==
    /\ gDepends \in SUBSET Pairs
    /\ gBlocks \in SUBSET Pairs
    /\ gWalk = [pending |-> LintSpecs, stack |-> <<>>, visited |-> {}, found |-> {}]

----------------------------------------------------------------------------
\* Mutant: what blocks a spec is not among its dependencies.
GetDependenciesOfDepends(n) == {m \in LintSpecs : <<n, m>> \in gDepends}

\* What a spec depends on, and what blocks it.
GetDependencies(n) == {m \in LintSpecs : <<n, m>> \in gDepends \/ <<m, n>> \in gBlocks}

InStack(n) == \E i \in DOMAIN gWalk.stack : gWalk.stack[i].node = n

\* lint: one walk for each spec that ListSpecs returns, in its order, with nothing
\* visited.
lintSpec(n) ==
    /\ gWalk.stack = <<>>
    /\ n \in gWalk.pending /\ \A m \in gWalk.pending : n <= m
    /\ gWalk' = [gWalk EXCEPT !.pending = @ \ {n}, !.visited = {n},
                              !.stack = <<Frame(n, GetDependencies(n))>>]
    /\ UNCHANGED <<gDepends, gBlocks>>

\* dfs of one dependency of the spec on top of the stack.
dfs(m) ==
    LET top == Last(gWalk.stack)
        rest == Front(gWalk.stack) \o <<Frame(top.node, top.todo \ {m})>>
    IN  /\ gWalk.stack # <<>> /\ m \in top.todo
        /\ gWalk' =
             CASE InStack(m) -> [gWalk EXCEPT !.stack = rest, !.found = @ \cup {m}]
               [] ~InStack(m) /\ m \in gWalk.visited -> [gWalk EXCEPT !.stack = rest]
               [] ~InStack(m) /\ m \notin gWalk.visited /\ Len(gWalk.stack) > MaxCycleDepth ->
                    [gWalk EXCEPT !.stack = rest, !.visited = @ \cup {m}, !.found = @ \cup {m}]
               [] OTHER -> [gWalk EXCEPT !.stack = Append(rest, Frame(m, GetDependencies(m))),
                                         !.visited = @ \cup {m}]
        /\ UNCHANGED <<gDepends, gBlocks>>

\* Everything below the top is walked.
dfsReturn ==
    /\ gWalk.stack # <<>> /\ Last(gWalk.stack).todo = {}
    /\ gWalk' = [gWalk EXCEPT !.stack = Front(@)]
    /\ UNCHANGED <<gDepends, gBlocks>>

GNext == (\E n \in LintSpecs : lintSpec(n) \/ dfs(n)) \/ dfsReturn

GSpec == GInit /\ [][GNext]_gVars

----------------------------------------------------------------------------
\* An approved spec whose dependencies are done and that nothing unfinished
\* blocks; here nobody holds a claim, and every spec is authored (the query
\* leaves out specs of any other provenance, which do not reach approved).
GetReady(stage) ==
    {s \in LintSpecs :
        /\ stage[s] = "approved"
        /\ \A d \in LintSpecs : <<s, d>> \in gDepends => stage[d] = "done"
        /\ \A b \in LintSpecs : <<b, s>> \in gBlocks => stage[b] = "done"}

\* If the linter flags no cycle, work never comes to a standstill: however many
\* of the approved specs are done, one of the others is ready.  The linter and
\* GetReady agree on what waits for what.
LintCleanMeansReady ==
    gWalk.pending = {} /\ gWalk.stack = <<>> /\ gWalk.found = {} =>
        \A finished \in (SUBSET LintSpecs) \ {LintSpecs} :
            GetReady([s \in LintSpecs |-> IF s \in finished THEN "done" ELSE "approved"]) # {}
=============================================================================
