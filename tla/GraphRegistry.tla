--------------------------- MODULE GraphRegistry ---------------------------
(***************************************************************************)
(* The persistent logical graph as its callers are promised to see it: one *)
(* interned DAG of node identities, an active/sleeping status per node,    *)
(* the registered execution contexts, and two revision counters.  Every    *)
(* operation takes effect at one instant, on the state it read.            *)
(*                                                                         *)
(* GraphLifecycle is the program itself: it reads a snapshot, computes on  *)
(* it and saves behind a compare-and-set, and implements this module.      *)
(***************************************************************************)
EXTENDS Naturals

CONSTANTS
    Nodes,         \* every node identity a caller may ever author
    Parents,       \* node |-> the nodes it reads (inputs and panel parameters)
    Contexts,      \* execution context names
    Definitions,   \* what a context may be registered as
    MaxChanges     \* bound on the committed changes of one behaviour

ASSUME ParentsAssumption == Parents \in [Nodes -> SUBSET Nodes]
ASSUME MaxChangesAssumption == MaxChanges \in Nat

VARIABLE graph     \* the graphs, graph_nodes and contexts rows of one graph

Statuses == {"active", "sleeping"}

-----------------------------------------------------------------------------
(* The DAG. *)

ParentClosed(S) == \A n \in S : Parents[n] \subseteq S

\* A node and everything it depends on: the least parent-closed set with it.
Upstream ==
    [node \in Nodes |->
        {n \in Nodes : \A S \in SUBSET Nodes :
                           node \in S /\ ParentClosed(S) => n \in S}]

\* The definitions a local graph with these outputs carries: all they read.
Ancestry(outputs) == UNION {Upstream[node] : node \in outputs}

\* Mutant: the selection stops at the immediate consumers.
DownstreamConsumers(node, spec) ==
    {n \in spec : n = node \/ node \in Parents[n]}

\* A node of spec and everything of spec that depends on it.
Downstream(node, spec) == {n \in spec : node \in Upstream[n]}

-----------------------------------------------------------------------------
(* The state of one graph, and what each operation makes of it. *)

StatusMaps == UNION {[S -> Statuses] : S \in SUBSET Nodes}
ContextMaps == UNION {[S -> Definitions] : S \in SUBSET Contexts}

GraphStates ==
    [spec : SUBSET Nodes, outputs : SUBSET Nodes, statuses : StatusMaps,
     contexts : ContextMaps, revision : Nat, stateRevision : Nat]

IsGraph(g) ==
    /\ g \in GraphStates
    /\ g.outputs \subseteq g.spec
    /\ DOMAIN g.statuses = g.spec

EmptyGraph ==
    [spec |-> {}, outputs |-> {}, statuses |-> [n \in {} |-> n],
     contexts |-> [c \in {} |-> c], revision |-> 0, stateRevision |-> 0]

Revisions(g) == <<g.revision, g.stateRevision>>

\* Growth is refused from a node that is asleep.
MayGrow(g, outputs) ==
    \A n \in Ancestry(outputs) \cap g.spec : g.statuses[n] = "active"

\* The interned union; nodes not seen before start active.
Grown(g, outputs) ==
    LET spec == g.spec \cup Ancestry(outputs) IN
    [g EXCEPT !.spec = spec,
              !.outputs = @ \cup outputs,
              !.statuses = [n \in spec |->
                               IF n \in g.spec THEN g.statuses[n] ELSE "active"]]

WithStatus(g, selected, status) ==
    [g EXCEPT !.statuses = [n \in g.spec |->
                               IF n \in selected THEN status ELSE @[n]]]

\* Mutant: a node may wake over sleeping parents.
MayWakeOverSleepers(g, selected) == selected \subseteq g.spec

\* The topological pass of wake: a parent is active already or woken first.
MayWake(g, selected) ==
    /\ selected \subseteq g.spec
    /\ \A n \in selected : \A p \in Parents[n] :
            p \in selected \/ g.statuses[p] = "active"

WithContext(g, context, definition) ==
    [g EXCEPT !.contexts = [c \in DOMAIN @ \cup {context} |->
                               IF c = context THEN definition ELSE @[c]]]

DefinitionChange(g) == [g EXCEPT !.revision = @ + 1]
StateChange(g) == [g EXCEPT !.stateRevision = @ + 1]

\* The model's bound, not the program's: no change once it is spent.
WithinBound(g) == g.revision + g.stateRevision < MaxChanges

-----------------------------------------------------------------------------
(* One atomic action per operation.  A call that would change nothing      *)
(* commits nothing and is a stuttering step.                               *)

Merge(outputs) ==
    /\ WithinBound(graph)
    /\ MayGrow(graph, outputs)
    /\ Grown(graph, outputs) # graph
    /\ graph' = DefinitionChange(Grown(graph, outputs))

Sleep(node) ==
    /\ WithinBound(graph)
    /\ node \in graph.spec
    /\ LET selected == Downstream(node, graph.spec) IN
       /\ WithStatus(graph, selected, "sleeping") # graph
       /\ graph' = StateChange(WithStatus(graph, selected, "sleeping"))

Wake(selected) ==
    /\ WithinBound(graph)
    /\ MayWake(graph, selected)
    /\ WithStatus(graph, selected, "active") # graph
    /\ graph' = StateChange(WithStatus(graph, selected, "active"))

\* Mutant: registration leaves the revision alone.
RegisterUnversioned(context, definition) ==
    /\ WithinBound(graph)
    /\ WithContext(graph, context, definition) # graph
    /\ graph' = WithContext(graph, context, definition)

RegisterContext(context, definition) ==
    /\ WithinBound(graph)
    /\ WithContext(graph, context, definition) # graph
    /\ graph' = DefinitionChange(WithContext(graph, context, definition))

RegistryInit == graph = EmptyGraph

RegistryNext ==
    \/ \E outputs \in SUBSET Nodes : Merge(outputs)
    \/ \E node \in Nodes : Sleep(node)
    \/ \E selected \in SUBSET Nodes : Wake(selected)
    \/ \E context \in Contexts, definition \in Definitions :
            RegisterContext(context, definition)

RegistrySpec == RegistryInit /\ [][RegistryNext]_graph

-----------------------------------------------------------------------------
(* Correctness. *)

\* The stored rows are well formed: statuses for exactly the known nodes,
\* outputs among them.
GraphTypeOK == IsGraph(graph)

\* The definition is closed under dependencies, and nothing runs on top of a
\* sleeping node: every parent of an active node is known and active.  This
\* is what lets a plan take "the active nodes" as an executable graph.
ActiveAncestry ==
    /\ ParentClosed(graph.spec)
    /\ \A n \in graph.spec : graph.statuses[n] = "active" =>
            \A p \in Parents[n] : graph.statuses[p] = "active"

=============================================================================
