------------------------ MODULE GraphLifecycleProofs ------------------------
(***************************************************************************)
(* What the graph promises its callers, for every DAG, any number of       *)
(* callers and any number of changes.                                      *)
(*                                                                         *)
(* The compare-and-set is shown to be enough: a call that passes the fence *)
(* computed its replacement from the current graph, so its save is one of  *)
(* the registry's operations, and what holds of the registry carries over. *)
(***************************************************************************)
EXTENDS GraphLifecycle, GraphRegistryProofs

-----------------------------------------------------------------------------
(* The program. *)

\* The replacement a call will save is the one an operation of the registry
\* computes on the call's snapshot.
Replaces(call, g) ==
    call.spec = g.spec /\ call.outputs = g.outputs /\ call.statuses = g.statuses

Proposed(call) ==
    \/ \E outputs \in SUBSET Nodes :
          /\ call.counter = "revision"
          /\ MayGrow(call.state, outputs)
          /\ Grown(call.state, outputs) # call.state
          /\ Replaces(call, Grown(call.state, outputs))
    \/ \E node \in call.state.spec :
          LET asleep == WithStatus(call.state, Downstream(node, call.state.spec),
                                   "sleeping")
          IN  call.counter = "stateRevision" /\ asleep # call.state /\ Replaces(call, asleep)
    \/ \E selected \in SUBSET Nodes :
          LET awake == WithStatus(call.state, selected, "active")
          IN  /\ call.counter = "stateRevision"
              /\ MayWake(call.state, selected)
              /\ awake # call.state
              /\ Replaces(call, awake)

\* The inductive invariant: what passes the fence is an operation on the
\* current graph.
Inv ==
    /\ TypeOK
    /\ FencedSnapshotIsCurrent
    /\ \A c \in Clients :
          calls[c].step = "save" /\ Fenced(calls[c]) => Proposed(calls[c])

\* Two graphs with equal fields are equal.
LEMMA SameFields ==
    ASSUME NEW g \in GraphStates, NEW h \in GraphStates,
           g.spec = h.spec, g.outputs = h.outputs, g.statuses = h.statuses,
           g.contexts = h.contexts, g.revision = h.revision,
           g.stateRevision = h.stateRevision
    PROVE  g = h
  BY DEF GraphStates

\* Storing a replacement of the current graph yields that replacement with
\* one counter moved.
LEMMA StoredReplacement ==
    ASSUME GraphTypeOK, NEW call, NEW g, IsGraph(g),
           Replaces(call, g), graph.spec \subseteq g.spec,
           g.contexts = graph.contexts, Revisions(g) = Revisions(graph),
           call.counter \in Counters
    PROVE  Stored(call) =
              IF call.counter = "revision" THEN DefinitionChange(g) ELSE StateChange(g)
  <1> DEFINE statuses == [n \in DOMAIN graph.statuses \cup call.spec |->
                             IF n \in call.spec THEN call.statuses[n]
                                               ELSE graph.statuses[n]]
             revision == IF call.counter = "revision"
                           THEN graph.revision + 1 ELSE graph.revision
             stateRevision == IF call.counter = "stateRevision"
                                THEN graph.stateRevision + 1 ELSE graph.stateRevision
             moved == IF call.counter = "revision"
                        THEN DefinitionChange(g) ELSE StateChange(g)
  <1>1. DOMAIN graph.statuses = graph.spec /\ DOMAIN g.statuses = g.spec
    BY DEF GraphTypeOK, IsGraph
  <1>2. g.statuses \in [g.spec -> Statuses]
    BY DEF IsGraph, GraphStates, StatusMaps
  <1>3. statuses = g.statuses
    BY <1>1, <1>2 DEF Replaces
  <1>4. /\ graph \in GraphStates /\ g \in GraphStates
        /\ revision \in Nat /\ stateRevision \in Nat
    BY DEF GraphTypeOK, IsGraph, GraphStates
  <1>5. Stored(call) = [graph EXCEPT
            !.spec = g.spec, !.outputs = g.outputs, !.statuses = g.statuses,
            !.revision = revision, !.stateRevision = stateRevision]
    BY <1>3 DEF Stored, Replaces
  <1>6. /\ moved \in GraphStates
        /\ moved.spec = g.spec
        /\ moved.outputs = g.outputs
        /\ moved.statuses = g.statuses
        /\ moved.contexts = graph.contexts
        /\ moved.revision = revision
        /\ moved.stateRevision = stateRevision
    BY ChangeFields DEF Revisions, IsGraph, Counters
  <1> HIDE DEF statuses, revision, stateRevision, moved
  <1>7. /\ Stored(call) \in GraphStates
        /\ Stored(call).spec = g.spec
        /\ Stored(call).outputs = g.outputs
        /\ Stored(call).statuses = g.statuses
        /\ Stored(call).contexts = graph.contexts
        /\ Stored(call).revision = revision
        /\ Stored(call).stateRevision = stateRevision
    BY <1>4, <1>5 DEF GraphStates
  <1>8. Stored(call) = moved
    BY <1>6, <1>7, SameFields
  <1> QED
    BY <1>8 DEF moved

\* A save that passes the fence is an operation of the registry.
LEMMA SaveIsOperation ==
    ASSUME Inv, NEW c \in Clients, Save(c)
    PROVE  RegistryNext
  <1> DEFINE call == calls[c]
  <1>1. /\ call.step = "save" /\ Fenced(call) /\ WithinBound(graph)
        /\ graph' = Stored(call)
    BY DEF Save
  <1>2. call.state = graph
    BY <1>1 DEF Inv, FencedSnapshotIsCurrent, NoCall
  <1>3. Proposed(call)
    BY <1>1 DEF Inv
  <1>4. GraphTypeOK /\ IsGraph(graph)
    BY DEF Inv, TypeOK, GraphTypeOK
  <1>5. call.counter \in Counters
    BY <1>3 DEF Proposed, Counters
  <1> HIDE DEF call
  <1>6. ASSUME NEW outputs \in SUBSET Nodes, call.counter = "revision",
               MayGrow(graph, outputs), Grown(graph, outputs) # graph,
               Replaces(call, Grown(graph, outputs))
        PROVE  Merge(outputs)
    <2>1. graph' = DefinitionChange(Grown(graph, outputs))
      <3>1. /\ IsGraph(Grown(graph, outputs))
            /\ Grown(graph, outputs).spec = graph.spec \cup Ancestry(outputs)
            /\ Grown(graph, outputs).contexts = graph.contexts
            /\ Revisions(Grown(graph, outputs)) = Revisions(graph)
        BY <1>4, GrownFields
      <3> QED
        BY <1>1, <1>4, <1>5, <1>6, <3>1, StoredReplacement
    <2> QED
      BY <1>1, <1>6, <2>1 DEF Merge
  <1>7. ASSUME NEW selected, NEW status \in Statuses, call.counter = "stateRevision",
               Replaces(call, WithStatus(graph, selected, status))
        PROVE  graph' = StateChange(WithStatus(graph, selected, status))
    <2>1. /\ IsGraph(WithStatus(graph, selected, status))
          /\ WithStatus(graph, selected, status).spec = graph.spec
          /\ WithStatus(graph, selected, status).contexts = graph.contexts
          /\ Revisions(WithStatus(graph, selected, status)) = Revisions(graph)
      BY <1>4, WithStatusFields
    <2> QED
      BY <1>1, <1>4, <1>5, <1>7, <2>1, StoredReplacement
  <1>8. "active" \in Statuses /\ "sleeping" \in Statuses
    BY DEF Statuses
  <1>9. graph.spec \subseteq Nodes
    BY <1>4 DEF IsGraph, GraphStates
  <1> QED
    BY <1>1, <1>2, <1>3, <1>6, <1>7, <1>8, <1>9
    DEF Proposed, RegistryNext, Sleep, Wake

\* A snapshot read, a computation on it, or the end of a call: the invariant
\* only asks what the acting client holds afterwards.
LEMMA CallStep ==
    ASSUME Inv, NEW c \in Clients, NEW call \in Calls, UNCHANGED graph,
           calls' = [calls EXCEPT ![c] = call],
           call # NoCall =>
              /\ IsGraph(call.state)
              /\ \/ call.state = graph
                 \/ calls[c] # NoCall /\ call.state = calls[c].state,
           call.step = "save" /\ Fenced(call) => Proposed(call)
    PROVE  Inv'
  <1>1. GraphTypeOK'
    BY DEF Inv, TypeOK, GraphTypeOK
  <1>2. calls \in [Clients -> Calls]
    BY DEF Inv, TypeOK
  <1>3. calls'[c] = call /\ \A e \in Clients : e # c => calls'[e] = calls[e]
    BY <1>2
  <1>4. calls' \in [Clients -> Calls]
    BY <1>2
  <1>5. \A e \in Clients : calls'[e] # NoCall => IsGraph(calls'[e].state)
    BY <1>3 DEF Inv, TypeOK
  <1>6. graph.revision \in Nat /\ graph.stateRevision \in Nat
    BY DEF Inv, TypeOK, GraphTypeOK, IsGraph, GraphStates
  <1>7. FencedSnapshotIsCurrent'
    <2> SUFFICES ASSUME NEW e \in Clients, calls'[e] # NoCall
                 PROVE  /\ calls'[e].state.revision <= graph.revision
                        /\ calls'[e].state.stateRevision <= graph.stateRevision
                        /\ Fenced(calls'[e]) => calls'[e].state = graph
      BY DEF FencedSnapshotIsCurrent, Fenced, Revisions
    <2>1. CASE calls'[e].state = graph
      BY <1>6, <2>1
    <2>2. ASSUME NEW d \in Clients, calls[d] # NoCall,
                 calls'[e].state = calls[d].state
          PROVE  /\ calls'[e].state.revision <= graph.revision
                 /\ calls'[e].state.stateRevision <= graph.stateRevision
                 /\ Fenced(calls'[e]) => calls'[e].state = graph
      BY <2>2 DEF Inv, FencedSnapshotIsCurrent, Fenced
    <2> QED
      BY <1>3, <2>1, <2>2
  <1>8. \A e \in Clients :
          calls'[e].step = "save" /\ Fenced(calls'[e]) => Proposed(calls'[e])
    BY <1>3 DEF Inv
  <1> QED
    BY <1>1, <1>4, <1>5, <1>7, <1>8 DEF Inv, TypeOK, Fenced, Revisions

\* The graph moves: a counter moves with it, so no call in progress can pass
\* the fence any more.
LEMMA GraphStep ==
    ASSUME Inv, RegistryNext, calls' \in [Clients -> Calls],
           \A c \in Clients : calls'[c] = calls[c] \/ calls'[c] = NoCall
    PROVE  Inv'
  <1>1. /\ GraphTypeOK /\ GraphTypeOK'
        /\ graph.revision \in Nat /\ graph.stateRevision \in Nat
        /\ \/ /\ graph'.revision = graph.revision + 1
              /\ graph'.stateRevision = graph.stateRevision
           \/ /\ graph'.revision = graph.revision
              /\ graph'.stateRevision = graph.stateRevision + 1
    BY RegistryStep DEF Inv, TypeOK, GraphTypeOK, IsGraph, GraphStates
  <1>2. \A c \in Clients : calls'[c] # NoCall => IsGraph(calls'[c].state)
    BY DEF Inv, TypeOK
  <1>3. ASSUME NEW c \in Clients, calls'[c] # NoCall
        PROVE  /\ calls'[c].state.revision <= graph'.revision
               /\ calls'[c].state.stateRevision <= graph'.stateRevision
               /\ Revisions(calls'[c].state) # Revisions(graph')
    <2>1. /\ calls[c].state.revision \in Nat
          /\ calls[c].state.stateRevision \in Nat
      BY <1>3 DEF Inv, TypeOK, IsGraph, GraphStates
    <2>2. /\ calls[c].state.revision <= graph.revision
          /\ calls[c].state.stateRevision <= graph.stateRevision
      BY <1>3 DEF Inv, FencedSnapshotIsCurrent
    <2> QED
      BY <1>1, <1>3, <2>1, <2>2 DEF Revisions
  <1>4. FencedSnapshotIsCurrent'
    BY <1>3 DEF FencedSnapshotIsCurrent, Fenced
  <1>5. \A c \in Clients : ~ (/\ calls'[c].step = "save"
                              /\ Revisions(calls'[c].state) = Revisions(graph'))
    BY <1>3 DEF NoCall
  <1>6. (\A c \in Clients :
            calls[c].step = "save" /\ Fenced(calls[c]) => Proposed(calls[c]))'
    BY <1>5 DEF Fenced, Revisions
  <1> QED
    BY <1>1, <1>2, <1>4, <1>6 DEF Inv, TypeOK

LEMMA InvInit == Init => Inv
  BY EmptyGraphIsGraph
  DEF Init, RegistryInit, Inv, TypeOK, GraphTypeOK, FencedSnapshotIsCurrent,
      Calls, NoCall

\* What each reading step leaves its client with.
LEMMA SavingCall ==
    ASSUME NEW state, IsGraph(state), NEW g, IsGraph(g), NEW counter \in Counters
    PROVE  /\ Saving(state, g, counter) \in Calls
           /\ Saving(state, g, counter) # NoCall
           /\ Saving(state, g, counter).state = state
           /\ Saving(state, g, counter).counter = counter
           /\ Replaces(Saving(state, g, counter), g)
  BY DEF Saving, Calls, SaveCalls, NoCall, Replaces, IsGraph, GraphStates

LEMMA InvStep == Inv /\ [Next]_vars => Inv'
  <1> SUFFICES ASSUME Inv, [Next]_vars PROVE Inv'
    OBVIOUS
  <1>1. IsGraph(graph) /\ calls \in [Clients -> Calls] /\ NoCall \in Calls
    BY DEF Inv, TypeOK, GraphTypeOK, Calls
  <1>2. "active" \in Statuses /\ "sleeping" \in Statuses
    BY DEF Statuses
  <1>3. "revision" \in Counters /\ "stateRevision" \in Counters
    BY DEF Counters
  <1>4. graph.spec \in SUBSET Nodes
    BY <1>1 DEF IsGraph, GraphStates
  <1>5. ASSUME NEW c \in Clients, NEW outputs \in SUBSET Nodes,
               BeginMerge(c, outputs)
        PROVE  Inv'
    <2> DEFINE call == Saving(graph, Grown(graph, outputs), "revision")
    <2>1. /\ call \in Calls /\ call # NoCall /\ call.state = graph
          /\ call.counter = "revision" /\ Replaces(call, Grown(graph, outputs))
      <3>1. IsGraph(Grown(graph, outputs))
        BY <1>1, GrownFields
      <3> QED
        BY <1>1, <1>3, <3>1, SavingCall
    <2>2. /\ MayGrow(graph, outputs) /\ Grown(graph, outputs) # graph
          /\ calls' = [calls EXCEPT ![c] = call] /\ UNCHANGED graph
      BY <1>5 DEF BeginMerge
    <2> HIDE DEF call
    <2>3. Proposed(call)
      BY <2>1, <2>2 DEF Proposed
    <2> QED
      BY <1>1, <2>1, <2>2, <2>3, CallStep
  <1>6. ASSUME NEW c \in Clients, NEW node \in Nodes, BeginSleep(c, node)
        PROVE  Inv'
    <2> DEFINE call == Selecting(node)
    <2>1. /\ call \in Calls /\ call # NoCall /\ call.state = graph
          /\ call.step # "save"
      BY <1>1 DEF Selecting, Calls, SelectCalls, NoCall, IsGraph
    <2>2. calls' = [calls EXCEPT ![c] = call] /\ UNCHANGED graph
      BY <1>6 DEF BeginSleep
    <2> HIDE DEF call
    <2> QED
      BY <1>1, <2>1, <2>2, CallStep
  <1>7. ASSUME NEW c \in Clients, SelectSleep(c)
        PROVE  Inv'
    <2> DEFINE held == calls[c]
               call == Saving(held.state, SleepProposal(held), "stateRevision")
    <2>1. /\ held.step = "select" /\ held # NoCall /\ held.node \in Nodes
          /\ IsGraph(held.state)
      BY <1>1, <1>7 DEF SelectSleep, Inv, TypeOK, Calls, SelectCalls, SaveCalls, NoCall
    <2>2. Fenced(held) => held.state = graph
      BY <2>1 DEF Inv, FencedSnapshotIsCurrent
    <2>3. /\ call \in Calls /\ call # NoCall /\ call.state = held.state
          /\ call.counter = "stateRevision" /\ Replaces(call, SleepProposal(held))
      <3>1. IsGraph(SleepProposal(held))
        BY <1>2, <2>1, WithStatusFields DEF SleepProposal
      <3> QED
        BY <1>3, <2>1, <3>1, SavingCall
    <2>4. UNCHANGED graph
      BY <1>7 DEF SelectSleep
    <2>5. CASE calls' = [calls EXCEPT ![c] = NoCall]
      BY <1>1, <2>4, <2>5, CallStep DEF NoCall
    <2>6. CASE /\ calls' = [calls EXCEPT ![c] = call]
               /\ held.node \in graph.spec
               /\ \E n \in Downstream(held.node, graph.spec) :
                     n \notin held.state.spec \/ held.state.statuses[n] # "sleeping"
      <3>1. ASSUME Fenced(call) PROVE Proposed(call)
        <4>1. held.state = graph
          BY <2>2, <2>3, <3>1 DEF Fenced
        <4> DEFINE asleep == WithStatus(graph, Downstream(held.node, graph.spec), "sleeping")
        <4>2. Replaces(call, asleep)
          BY <2>3, <4>1 DEF SleepProposal
        <4>3. PICK n \in Downstream(held.node, graph.spec) :
                n \in graph.spec /\ graph.statuses[n] # "sleeping"
          BY <2>6, <4>1 DEF Downstream
        <4>4. asleep.statuses[n] = "sleeping"
          <5>1. asleep.statuses =
                  [m \in graph.spec |-> IF m \in Downstream(held.node, graph.spec)
                                          THEN "sleeping" ELSE graph.statuses[m]]
            BY <1>1, WithStatusStatuses
          <5> HIDE DEF asleep
          <5> QED
            BY <4>3, <5>1
        <4>5. asleep # graph
          BY <4>3, <4>4
        <4> HIDE DEF call, asleep, held
        <4> QED
          BY <2>3, <2>6, <4>1, <4>2, <4>5 DEF Proposed, asleep
      <3> HIDE DEF call
      <3> QED
        BY <1>1, <2>1, <2>3, <2>4, <2>6, <3>1, CallStep
    <2>7. calls' = [calls EXCEPT ![c] = NoCall] \/
            /\ calls' = [calls EXCEPT ![c] = call]
            /\ held.node \in graph.spec
            /\ \E n \in Downstream(held.node, graph.spec) :
                  n \notin held.state.spec \/ held.state.statuses[n] # "sleeping"
      BY <1>7 DEF SelectSleep
    <2> QED
      BY <2>5, <2>6, <2>7
  <1>8. ASSUME NEW c \in Clients, NEW selected \in SUBSET Nodes,
               BeginWake(c, selected)
        PROVE  Inv'
    <2> DEFINE call == Saving(graph, WithStatus(graph, selected, "active"),
                              "stateRevision")
    <2>1. /\ call \in Calls /\ call # NoCall /\ call.state = graph
          /\ call.counter = "stateRevision"
          /\ Replaces(call, WithStatus(graph, selected, "active"))
      <3>1. IsGraph(WithStatus(graph, selected, "active"))
        BY <1>1, <1>2, WithStatusFields
      <3> QED
        BY <1>1, <1>3, <3>1, SavingCall
    <2>2. /\ MayWake(graph, selected)
          /\ WithStatus(graph, selected, "active") # graph
          /\ calls' = [calls EXCEPT ![c] = call] /\ UNCHANGED graph
      BY <1>8 DEF BeginWake
    <2> HIDE DEF call
    <2>3. Proposed(call)
      BY <2>1, <2>2 DEF Proposed
    <2> QED
      BY <1>1, <2>1, <2>2, <2>3, CallStep
  <1>9. ASSUME NEW c \in Clients, Save(c)
        PROVE  Inv'
    <2>1. RegistryNext
      BY <1>9, SaveIsOperation
    <2>2. calls' = [calls EXCEPT ![c] = NoCall]
      BY <1>9 DEF Save
    <2> QED
      BY <1>1, <2>1, <2>2, GraphStep
  <1>10. ASSUME NEW c \in Clients, Conflict(c)
         PROVE  Inv'
    BY <1>1, <1>10, CallStep DEF Conflict, NoCall
  <1>11. ASSUME NEW c \in Clients, NEW context \in Contexts,
                NEW definition \in Definitions,
                RegisterDirectly(c, context, definition)
         PROVE  Inv'
    <2>1. RegistryNext /\ UNCHANGED calls
      BY <1>11 DEF RegisterDirectly, RegistryNext
    <2> QED
      BY <1>1, <2>1, GraphStep
  <1>12. CASE UNCHANGED vars
    BY <1>12
    DEF vars, Inv, TypeOK, GraphTypeOK, FencedSnapshotIsCurrent, Fenced, Revisions
  <1> QED
    BY <1>5, <1>6, <1>7, <1>8, <1>9, <1>10, <1>11, <1>12 DEF Next, Step

\* Shapes are kept, and a call that can still pass the revision fence holds
\* the current graph.
THEOREM LifecycleInvariant == Spec => [](TypeOK /\ FencedSnapshotIsCurrent)
  <1>1. Inv => TypeOK /\ FencedSnapshotIsCurrent
    BY DEF Inv
  <1> QED
    BY <1>1, InvInit, InvStep, PTL DEF Spec

\* Rows and calls in progress keep their shapes, and a snapshot that is held is a graph.
THEOREM LifecycleTypeCorrect == Spec => []TypeOK
  BY LifecycleInvariant, PTL

\* Every step of the program is one operation of the registry, or none.
LEMMA StepIsOperation == Inv /\ [Next]_vars => [RegistryNext]_graph
  <1> SUFFICES ASSUME Inv, [Next]_vars, graph' # graph PROVE RegistryNext
    OBVIOUS
  <1>1. PICK c \in Clients : Step(c)
    BY DEF Next, vars
  <1>2. CASE Save(c)
    BY <1>2, SaveIsOperation
  <1>3. ASSUME NEW context \in Contexts, NEW definition \in Definitions,
               RegisterDirectly(c, context, definition)
        PROVE  RegistryNext
    BY <1>3 DEF RegisterDirectly, RegistryNext
  <1> QED
    BY <1>1, <1>2, <1>3
    DEF Step, BeginMerge, BeginSleep, SelectSleep, BeginWake, Conflict

\* Snapshot, compute, compare-and-set: every behaviour of the program is one
\* in which each operation took effect atomically.
THEOREM LifecycleImplementsRegistry == Spec => RegistrySpec
  <1>1. Init => RegistryInit
    BY DEF Init
  <1> QED
    BY <1>1, StepIsOperation, InvInit, InvStep, PTL DEF Spec, RegistrySpec

\* No interleaving of mutations leaves an active node on a sleeping or
\* missing parent.
THEOREM LifecycleActiveAncestry == Spec => []ActiveAncestry
  BY LifecycleImplementsRegistry, RegistryActiveAncestry, PTL

-----------------------------------------------------------------------------
(* What a step may never do. *)

\* Committed growth and registration survive every interleaving of stale
\* snapshots.
THEOREM LifecycleForgetsNothing == Spec => NothingForgotten
  <1>1. Inv => GraphTypeOK
    BY DEF Inv, TypeOK
  <1>2. Inv /\ [Next]_vars =>
          [/\ graph.spec \subseteq graph'.spec
           /\ graph.outputs \subseteq graph'.outputs
           /\ DOMAIN graph.contexts \subseteq DOMAIN graph'.contexts]_vars
    BY <1>1, StepIsOperation, OperationKeeps
  <1> QED
    BY <1>2, InvInit, InvStep, PTL DEF Spec, NothingForgotten

\* A node leaves sleep only by the save of a call that saw it asleep and
\* proposed it active.
LEMMA SaveWakes ==
    ASSUME Inv, NEW c \in Clients, Save(c), NEW n \in graph.spec,
           graph.statuses[n] = "sleeping", graph'.statuses[n] = "active"
    PROVE  /\ n \in calls[c].state.spec
           /\ calls[c].state.statuses[n] = "sleeping"
           /\ calls[c].statuses[n] = "active"
  <1>1. calls[c].state = graph
    BY DEF Save, Inv, FencedSnapshotIsCurrent, NoCall
  <1>2. /\ graph \in GraphStates /\ DOMAIN graph.statuses = graph.spec
    BY DEF Inv, TypeOK, GraphTypeOK, IsGraph
  <1>3. graph'.statuses = [m \in graph.spec \cup calls[c].spec |->
                             IF m \in calls[c].spec THEN calls[c].statuses[m]
                                                    ELSE graph.statuses[m]]
    BY <1>2 DEF Save, Stored, GraphStates
  <1>4. graph'.statuses[n] = IF n \in calls[c].spec THEN calls[c].statuses[n]
                                                     ELSE graph.statuses[n]
    BY <1>3
  <1> QED
    BY <1>1, <1>4

\* No stale snapshot undoes a committed sleep.
THEOREM LifecycleSleepLasts == Spec => AsleepUntilWoken
  <1> DEFINE Woken(n) ==
        \E c \in Clients : /\ calls[c].step = "save"
                           /\ n \in calls[c].state.spec
                           /\ calls[c].state.statuses[n] = "sleeping"
                           /\ calls[c].statuses[n] = "active"
  <1>1. ASSUME Inv, [Next]_vars, NEW n \in graph.spec,
               graph.statuses[n] = "sleeping", graph'.statuses[n] = "active"
        PROVE  Woken(n)
    <2>1. graph' # graph
      BY <1>1
    <2>2. PICK c \in Clients : Step(c)
      BY <1>1, <2>1 DEF Next, vars
    <2>3. CASE Save(c)
      BY <1>1, <2>3, SaveWakes DEF Save
    <2>4. ASSUME NEW context \in Contexts, NEW definition \in Definitions,
                 RegisterDirectly(c, context, definition)
          PROVE  FALSE
      <3>1. graph'.statuses = graph.statuses
        BY <1>1, <2>4, WithContextFields, ChangeFields
        DEF RegisterDirectly, RegisterContext, Inv, TypeOK, GraphTypeOK
      <3> QED
        BY <1>1, <3>1
    <2> QED
      BY <2>1, <2>2, <2>3, <2>4
      DEF Step, BeginMerge, BeginSleep, SelectSleep, BeginWake, Conflict
  <1>2. Inv /\ [Next]_vars =>
          [\A n \in graph.spec :
              graph.statuses[n] = "sleeping" /\ graph'.statuses[n] = "active" =>
                  Woken(n)]_vars
    BY <1>1
  <1> QED
    BY <1>2, InvInit, InvStep, PTL DEF Spec, AsleepUntilWoken

=============================================================================
