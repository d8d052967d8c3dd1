------------------------- MODULE GraphRegistryProofs -------------------------
(***************************************************************************)
(* The persistent graph as its callers see it, for every DAG and any       *)
(* number of changes: what an operation makes of well-formed rows, and why *)
(* an active node always stands on active ancestors.                       *)
(***************************************************************************)
EXTENDS GraphRegistry, TLAPS

-----------------------------------------------------------------------------
(* The DAG. *)

\* What a node reads, directly or not, is closed under dependencies.
LEMMA UpstreamClosed ==
    ASSUME NEW node \in Nodes
    PROVE  /\ Upstream[node] \subseteq Nodes
           /\ node \in Upstream[node]
           /\ ParentClosed(Upstream[node])
  <1>1. Upstream[node] = {n \in Nodes : \A S \in SUBSET Nodes :
                            node \in S /\ ParentClosed(S) => n \in S}
    BY DEF Upstream
  <1>2. ASSUME NEW n \in Upstream[node], NEW p \in Parents[n]
        PROVE  p \in Upstream[node]
    <2>1. p \in Nodes
      BY <1>1, <1>2, ParentsAssumption
    <2>2. ASSUME NEW S \in SUBSET Nodes, node \in S, ParentClosed(S)
          PROVE  p \in S
      BY <1>1, <1>2, <2>2 DEF ParentClosed
    <2> QED
      BY <1>1, <2>1, <2>2
  <1> QED
    BY <1>1, <1>2 DEF ParentClosed

\* A local graph with the requested outputs is closed under dependencies.
LEMMA AncestryClosed ==
    ASSUME NEW outputs \in SUBSET Nodes
    PROVE  /\ Ancestry(outputs) \subseteq Nodes
           /\ outputs \subseteq Ancestry(outputs)
           /\ ParentClosed(Ancestry(outputs))
  BY UpstreamClosed DEF Ancestry, ParentClosed

\* The downstream selection of a node is closed under consumers.
LEMMA DownstreamClosed ==
    ASSUME NEW node \in Nodes, NEW spec \in SUBSET Nodes,
           NEW n \in spec, NEW p \in Parents[n], p \in Downstream(node, spec)
    PROVE  n \in Downstream(node, spec)
  <1>1. p \in Nodes /\ node \in Upstream[p]
    BY ParentsAssumption DEF Downstream
  <1>2. p \in Upstream[n]
    BY UpstreamClosed DEF ParentClosed
  <1>3. ParentClosed(Upstream[n]) /\ Upstream[n] \in SUBSET Nodes
    BY UpstreamClosed
  <1>4. node \in Upstream[n]
    BY <1>1, <1>2, <1>3 DEF Upstream
  <1> QED
    BY <1>4 DEF Downstream

-----------------------------------------------------------------------------
(* The abstract registry. *)

\* What the union is, field by field.
LEMMA GrownFields ==
    ASSUME NEW g, IsGraph(g), NEW outputs \in SUBSET Nodes
    PROVE  /\ IsGraph(Grown(g, outputs))
           /\ Grown(g, outputs).spec = g.spec \cup Ancestry(outputs)
           /\ Grown(g, outputs).contexts = g.contexts
           /\ Revisions(Grown(g, outputs)) = Revisions(g)
  <1> DEFINE spec == g.spec \cup Ancestry(outputs)
             statuses == [n \in spec |->
                             IF n \in g.spec THEN g.statuses[n] ELSE "active"]
  <1>1. spec \in SUBSET Nodes /\ g.outputs \cup outputs \subseteq spec
    BY AncestryClosed DEF IsGraph, GraphStates
  <1>2. g.statuses \in [g.spec -> Statuses]
    BY DEF IsGraph, GraphStates, StatusMaps
  <1>3. statuses \in [spec -> Statuses]
    BY <1>2 DEF Statuses
  <1>4. statuses \in StatusMaps
    BY <1>1, <1>3 DEF StatusMaps
  <1> HIDE DEF spec, statuses
  <1>5. /\ Grown(g, outputs) = [g EXCEPT !.spec = spec, !.outputs = @ \cup outputs,
                                         !.statuses = statuses]
    BY DEF Grown, spec, statuses
  <1>6. /\ Grown(g, outputs) \in GraphStates
        /\ Grown(g, outputs).spec = spec
        /\ Grown(g, outputs).outputs = g.outputs \cup outputs
        /\ Grown(g, outputs).statuses = statuses
        /\ Grown(g, outputs).contexts = g.contexts
        /\ Revisions(Grown(g, outputs)) = Revisions(g)
    BY <1>1, <1>4, <1>5 DEF IsGraph, GraphStates, Revisions
  <1> QED
    BY <1>1, <1>3, <1>6 DEF IsGraph, spec

LEMMA GrownStatuses ==
    ASSUME NEW g, IsGraph(g), NEW outputs
    PROVE  Grown(g, outputs).statuses =
              [n \in g.spec \cup Ancestry(outputs) |->
                  IF n \in g.spec THEN g.statuses[n] ELSE "active"]
  BY DEF Grown, IsGraph, GraphStates

\* Changing statuses changes nothing else.
LEMMA WithStatusFields ==
    ASSUME NEW g, IsGraph(g), NEW selected, NEW status \in Statuses
    PROVE  /\ IsGraph(WithStatus(g, selected, status))
           /\ WithStatus(g, selected, status).spec = g.spec
           /\ WithStatus(g, selected, status).contexts = g.contexts
           /\ Revisions(WithStatus(g, selected, status)) = Revisions(g)
  <1> DEFINE statuses == [n \in g.spec |->
                             IF n \in selected THEN status ELSE g.statuses[n]]
  <1>1. g.statuses \in [g.spec -> Statuses]
    BY DEF IsGraph, GraphStates, StatusMaps
  <1>2. statuses \in [g.spec -> Statuses] /\ g.spec \in SUBSET Nodes
    BY <1>1 DEF IsGraph, GraphStates
  <1>3. statuses \in StatusMaps /\ DOMAIN statuses = g.spec
    BY <1>2 DEF StatusMaps
  <1>4. WithStatus(g, selected, status) = [g EXCEPT !.statuses = statuses]
    BY DEF WithStatus
  <1> HIDE DEF statuses
  <1> QED
    BY <1>3, <1>4 DEF IsGraph, GraphStates, Revisions

LEMMA WithStatusStatuses ==
    ASSUME NEW g, IsGraph(g), NEW selected, NEW status
    PROVE  WithStatus(g, selected, status).statuses =
              [n \in g.spec |-> IF n \in selected THEN status ELSE g.statuses[n]]
  BY DEF WithStatus, IsGraph, GraphStates

LEMMA WithContextFields ==
    ASSUME NEW g, IsGraph(g), NEW context \in Contexts, NEW definition \in Definitions
    PROVE  /\ IsGraph(WithContext(g, context, definition))
           /\ WithContext(g, context, definition).spec = g.spec
           /\ WithContext(g, context, definition).outputs = g.outputs
           /\ WithContext(g, context, definition).statuses = g.statuses
           /\ Revisions(WithContext(g, context, definition)) = Revisions(g)
  <1> DEFINE contexts == [c \in DOMAIN g.contexts \cup {context} |->
                             IF c = context THEN definition ELSE g.contexts[c]]
  <1>1. PICK S \in SUBSET Contexts : g.contexts \in [S -> Definitions]
    BY DEF IsGraph, GraphStates, ContextMaps
  <1>2. contexts \in [S \cup {context} -> Definitions]
    BY <1>1
  <1>3. contexts \in ContextMaps
    BY <1>2 DEF ContextMaps
  <1>4. WithContext(g, context, definition) = [g EXCEPT !.contexts = contexts]
    BY DEF WithContext
  <1> HIDE DEF contexts
  <1> QED
    BY <1>3, <1>4 DEF IsGraph, GraphStates, Revisions

\* Moving a counter keeps the shape and every other field.
LEMMA ChangeFields ==
    ASSUME NEW g, IsGraph(g)
    PROVE  /\ IsGraph(DefinitionChange(g)) /\ IsGraph(StateChange(g))
           /\ DefinitionChange(g).spec = g.spec /\ StateChange(g).spec = g.spec
           /\ DefinitionChange(g).outputs = g.outputs
           /\ StateChange(g).outputs = g.outputs
           /\ DefinitionChange(g).statuses = g.statuses
           /\ StateChange(g).statuses = g.statuses
           /\ DefinitionChange(g).contexts = g.contexts
           /\ StateChange(g).contexts = g.contexts
           /\ DefinitionChange(g).revision = g.revision + 1
           /\ DefinitionChange(g).stateRevision = g.stateRevision
           /\ StateChange(g).revision = g.revision
           /\ StateChange(g).stateRevision = g.stateRevision + 1
  BY DEF IsGraph, GraphStates, DefinitionChange, StateChange

LEMMA EmptyGraphIsGraph == IsGraph(EmptyGraph)
  <1>1. EmptyGraph.contexts \in [{} -> Definitions]
    BY DEF EmptyGraph
  <1>2. EmptyGraph.contexts \in ContextMaps
    BY <1>1 DEF ContextMaps
  <1>3. EmptyGraph.statuses \in [{} -> Statuses]
    BY DEF EmptyGraph
  <1>4. EmptyGraph.statuses \in StatusMaps
    BY <1>3 DEF StatusMaps
  <1> QED
    BY <1>2, <1>4 DEF EmptyGraph, IsGraph, GraphStates

\* Every operation keeps the stored rows well formed and moves exactly one
\* of the two counters.
LEMMA RegistryStep ==
    ASSUME GraphTypeOK, RegistryNext
    PROVE  /\ GraphTypeOK'
           /\ \/ /\ graph'.revision = graph.revision + 1
                 /\ graph'.stateRevision = graph.stateRevision
              \/ /\ graph'.revision = graph.revision
                 /\ graph'.stateRevision = graph.stateRevision + 1
  <1> DEFINE Goal == /\ IsGraph(graph')
                     /\ \/ /\ graph'.revision = graph.revision + 1
                           /\ graph'.stateRevision = graph.stateRevision
                        \/ /\ graph'.revision = graph.revision
                           /\ graph'.stateRevision = graph.stateRevision + 1
  <1>0. IsGraph(graph)
    BY DEF GraphTypeOK
  <1>1. ASSUME NEW g, IsGraph(g), Revisions(g) = Revisions(graph),
               graph' = DefinitionChange(g) \/ graph' = StateChange(g)
        PROVE  Goal
    BY <1>1, ChangeFields DEF Revisions
  <1> HIDE DEF Goal
  <1>2. ASSUME NEW outputs \in SUBSET Nodes, Merge(outputs) PROVE Goal
    <2>1. /\ IsGraph(Grown(graph, outputs))
          /\ Revisions(Grown(graph, outputs)) = Revisions(graph)
      BY <1>0, GrownFields
    <2> QED
      BY <1>1, <1>2, <2>1 DEF Merge
  <1>3. ASSUME NEW selected, NEW status \in Statuses,
               graph' = StateChange(WithStatus(graph, selected, status))
        PROVE  Goal
    <2>1. /\ IsGraph(WithStatus(graph, selected, status))
          /\ Revisions(WithStatus(graph, selected, status)) = Revisions(graph)
      BY <1>0, WithStatusFields
    <2> QED
      BY <1>1, <1>3, <2>1
  <1>4. ASSUME NEW context \in Contexts, NEW definition \in Definitions,
               RegisterContext(context, definition)
        PROVE  Goal
    <2>1. /\ IsGraph(WithContext(graph, context, definition))
          /\ Revisions(WithContext(graph, context, definition)) = Revisions(graph)
      BY <1>0, WithContextFields
    <2> QED
      BY <1>1, <1>4, <2>1 DEF RegisterContext
  <1>5. "active" \in Statuses /\ "sleeping" \in Statuses
    BY DEF Statuses
  <1>6. Goal
    BY <1>2, <1>3, <1>4, <1>5 DEF RegistryNext, Sleep, Wake
  <1> QED
    BY <1>6 DEF Goal, GraphTypeOK

\* The stored rows keep their shape.
THEOREM RegistryTypeCorrect == RegistrySpec => []GraphTypeOK
  <1>1. RegistryInit => GraphTypeOK
    BY EmptyGraphIsGraph DEF RegistryInit, GraphTypeOK
  <1>2. GraphTypeOK /\ [RegistryNext]_graph => GraphTypeOK'
    BY RegistryStep DEF GraphTypeOK
  <1> QED
    BY <1>1, <1>2, PTL DEF RegistrySpec

\* Operations keep it on well-formed rows.
LEMMA ActiveAncestryStep ==
    GraphTypeOK /\ ActiveAncestry /\ [RegistryNext]_graph => ActiveAncestry'
  <1> SUFFICES ASSUME GraphTypeOK, ActiveAncestry, [RegistryNext]_graph
               PROVE  ActiveAncestry'
    OBVIOUS
  <1> USE DEF GraphTypeOK
  <1>0. graph.spec \in SUBSET Nodes
    BY DEF IsGraph, GraphStates
  <1>1. ASSUME NEW outputs \in SUBSET Nodes, Merge(outputs)
        PROVE  ActiveAncestry'
    <2> DEFINE incoming == Ancestry(outputs)
    <2>1. /\ graph'.spec = graph.spec \cup incoming
          /\ graph'.statuses = [n \in graph.spec \cup incoming |->
                 IF n \in graph.spec THEN graph.statuses[n] ELSE "active"]
      <3>1. graph' = DefinitionChange(Grown(graph, outputs))
        BY <1>1 DEF Merge
      <3>2. /\ IsGraph(Grown(graph, outputs))
            /\ Grown(graph, outputs).spec = graph.spec \cup incoming
            /\ Grown(graph, outputs).statuses =
                  [n \in graph.spec \cup incoming |->
                      IF n \in graph.spec THEN graph.statuses[n] ELSE "active"]
        BY GrownFields, GrownStatuses
      <3> QED
        BY <3>1, <3>2, ChangeFields
    <2>2. ParentClosed(incoming)
      BY AncestryClosed
    <2>3. \A n \in incoming \cap graph.spec : graph.statuses[n] = "active"
      BY <1>1 DEF Merge, MayGrow
    <2> HIDE DEF incoming
    <2>4. ParentClosed(graph'.spec)
      BY <2>1, <2>2 DEF ActiveAncestry, ParentClosed
    <2>5. ASSUME NEW n \in graph'.spec, graph'.statuses[n] = "active",
                 NEW p \in Parents[n]
          PROVE  graph'.statuses[p] = "active"
      <3>1. CASE n \in graph.spec
        <4>1. p \in graph.spec /\ graph.statuses[p] = "active"
          BY <2>1, <2>5, <3>1 DEF ActiveAncestry, ParentClosed
        <4> QED
          BY <2>1, <4>1
      <3>2. CASE n \notin graph.spec
        <4>1. p \in incoming
          BY <2>1, <2>2, <2>5, <3>2 DEF ParentClosed
        <4> QED
          BY <2>1, <2>3, <4>1
      <3> QED
        BY <3>1, <3>2
    <2> QED
      BY <2>4, <2>5 DEF ActiveAncestry
  <1>2. ASSUME NEW node \in Nodes, Sleep(node)
        PROVE  ActiveAncestry'
    <2> DEFINE selected == Downstream(node, graph.spec)
    <2>1. /\ graph'.spec = graph.spec
          /\ graph'.statuses = [n \in graph.spec |->
                 IF n \in selected THEN "sleeping" ELSE graph.statuses[n]]
      <3>1. graph' = StateChange(WithStatus(graph, selected, "sleeping"))
        BY <1>2 DEF Sleep
      <3>2. "sleeping" \in Statuses
        BY DEF Statuses
      <3> HIDE DEF selected
      <3>3. IsGraph(WithStatus(graph, selected, "sleeping"))
        BY <3>2, WithStatusFields
      <3> QED
        BY <3>1, <3>2, <3>3, WithStatusFields, WithStatusStatuses, ChangeFields
    <2>2. ASSUME NEW n \in graph.spec, graph'.statuses[n] = "active",
                 NEW p \in Parents[n]
          PROVE  graph'.statuses[p] = "active"
      <3>1. n \notin selected /\ graph.statuses[n] = "active"
        BY <2>1, <2>2
      <3>2. p \notin selected
        BY <1>0, <3>1, DownstreamClosed
      <3>3. p \in graph.spec /\ graph.statuses[p] = "active"
        BY <3>1 DEF ActiveAncestry, ParentClosed
      <3> HIDE DEF selected
      <3> QED
        BY <2>1, <3>2, <3>3
    <2> QED
      BY <2>1, <2>2 DEF ActiveAncestry, ParentClosed
  <1>3. ASSUME NEW selected \in SUBSET Nodes, Wake(selected)
        PROVE  ActiveAncestry'
    <2>1. /\ graph'.spec = graph.spec
          /\ graph'.statuses = [n \in graph.spec |->
                 IF n \in selected THEN "active" ELSE graph.statuses[n]]
      <3>1. graph' = StateChange(WithStatus(graph, selected, "active"))
        BY <1>3 DEF Wake
      <3>2. "active" \in Statuses
        BY DEF Statuses
      <3>3. IsGraph(WithStatus(graph, selected, "active"))
        BY <3>2, WithStatusFields
      <3> QED
        BY <3>1, <3>2, <3>3, WithStatusFields, WithStatusStatuses, ChangeFields
    <2>2. MayWake(graph, selected)
      BY <1>3 DEF Wake
    <2> QED
      BY <2>1, <2>2 DEF ActiveAncestry, ParentClosed, MayWake
  <1>4. ASSUME NEW context \in Contexts, NEW definition \in Definitions,
               RegisterContext(context, definition)
        PROVE  ActiveAncestry'
    BY <1>4, WithContextFields, ChangeFields
    DEF RegisterContext, ActiveAncestry, ParentClosed
  <1>5. CASE UNCHANGED graph
    BY <1>5 DEF ActiveAncestry, ParentClosed
  <1> QED
    BY <1>1, <1>2, <1>3, <1>4, <1>5 DEF RegistryNext

\* In every reachable state of the registry an active node stands on active
\* nodes only.
THEOREM RegistryActiveAncestry == RegistrySpec => []ActiveAncestry
  <1>1. RegistryInit => ActiveAncestry
    BY DEF RegistryInit, EmptyGraph, ActiveAncestry, ParentClosed
  <1> QED
    BY <1>1, ActiveAncestryStep, RegistryTypeCorrect, PTL DEF RegistrySpec

\* No operation of the registry drops a node, an output or a context.
LEMMA OperationKeeps ==
    ASSUME GraphTypeOK, RegistryNext
    PROVE  /\ graph.spec \subseteq graph'.spec
           /\ graph.outputs \subseteq graph'.outputs
           /\ DOMAIN graph.contexts \subseteq DOMAIN graph'.contexts
  <1>1. IsGraph(graph)
    BY DEF GraphTypeOK
  <1>2. ASSUME NEW outputs \in SUBSET Nodes, Merge(outputs)
        PROVE  /\ graph.spec \subseteq graph'.spec
               /\ graph.outputs \subseteq graph'.outputs
               /\ graph'.contexts = graph.contexts
    <2>1. Grown(graph, outputs).outputs = graph.outputs \cup outputs
      BY <1>1 DEF Grown, IsGraph, GraphStates
    <2> QED
      BY <1>1, <1>2, <2>1, GrownFields, ChangeFields DEF Merge
  <1>3. ASSUME NEW selected, NEW status \in Statuses,
               graph' = StateChange(WithStatus(graph, selected, status))
        PROVE  /\ graph'.spec = graph.spec
               /\ graph'.outputs = graph.outputs
               /\ graph'.contexts = graph.contexts
    <2>1. WithStatus(graph, selected, status).outputs = graph.outputs
      BY <1>1 DEF WithStatus, IsGraph, GraphStates
    <2> QED
      BY <1>1, <1>3, <2>1, WithStatusFields, ChangeFields
  <1>4. ASSUME NEW context \in Contexts, NEW definition \in Definitions,
               RegisterContext(context, definition)
        PROVE  /\ graph'.spec = graph.spec
               /\ graph'.outputs = graph.outputs
               /\ DOMAIN graph.contexts \subseteq DOMAIN graph'.contexts
    <2>1. WithContext(graph, context, definition).contexts =
            [c \in DOMAIN graph.contexts \cup {context} |->
                IF c = context THEN definition ELSE graph.contexts[c]]
      BY <1>1 DEF WithContext, IsGraph, GraphStates
    <2> QED
      BY <1>1, <1>4, <2>1, WithContextFields, ChangeFields DEF RegisterContext
  <1>5. "active" \in Statuses /\ "sleeping" \in Statuses
    BY DEF Statuses
  <1> QED
    BY <1>2, <1>3, <1>4, <1>5 DEF RegistryNext, Sleep, Wake
=============================================================================
