--------------------------- MODULE GraphLifecycle ---------------------------
(***************************************************************************)
(* Graph mutation as the program performs it, by several Graph objects (or *)
(* processes) over one store.  merge, sleep and wake read a snapshot in    *)
(* one transaction, compute a whole replacement of the definition and of   *)
(* the statuses from it, and save that replacement in a second transaction *)
(* behind a compare-and-set on both revision counters.  sleep reads twice: *)
(* it selects the downstream nodes from a later snapshot than the one it   *)
(* saves against.  Nothing is locked in between.                           *)
(***************************************************************************)
EXTENDS GraphRegistry

CONSTANT Clients   \* concurrent callers, each running one operation at a time

VARIABLE calls     \* client |-> its operation in progress

vars == <<graph, calls>>

NoCall == [step |-> "none"]

\* A sleep that has read its first snapshot and not yet selected its nodes.
Selecting(node) == [step |-> "select", node |-> node, state |-> graph]

\* The counter a save moves: state_change chooses it.
Counters == {"revision", "stateRevision"}

\* A replacement computed on a snapshot, ready to be saved.
Saving(state, proposal, counter) ==
    [step |-> "save", state |-> state, spec |-> proposal.spec,
     outputs |-> proposal.outputs, statuses |-> proposal.statuses,
     counter |-> counter]

SelectCalls == [step : {"select"}, node : Nodes, state : GraphStates]

SaveCalls ==
    [step : {"save"}, state : GraphStates, spec : SUBSET Nodes,
     outputs : SUBSET Nodes, statuses : StatusMaps, counter : Counters]

Calls == {NoCall} \cup SelectCalls \cup SaveCalls

-----------------------------------------------------------------------------

Idle(c) == calls[c] = NoCall

\* merge: read once, refuse growth from sleeping nodes, form the union.  An
\* unchanged union is not saved.
BeginMerge(c, outputs) ==
    /\ Idle(c)
    /\ WithinBound(graph)
    /\ MayGrow(graph, outputs)
    /\ Grown(graph, outputs) # graph
    /\ calls' = [calls EXCEPT ![c] = Saving(graph, Grown(graph, outputs), "revision")]
    /\ UNCHANGED graph

\* sleep: the first read is the state it will save against.
BeginSleep(c, node) ==
    /\ Idle(c)
    /\ WithinBound(graph)
    /\ calls' = [calls EXCEPT ![c] = Selecting(node)]
    /\ UNCHANGED graph

\* The second read selects the node and its downstream from the state of that
\* instant.  The statuses saved are the first snapshot's, with the selected
\* rows asleep; nodes the first snapshot lacks have no row to save.
SleepProposal(call) ==
    WithStatus(call.state, Downstream(call.node, graph.spec), "sleeping")

SelectSleep(c) ==
    /\ calls[c].step = "select"
    /\ LET call == calls[c]
           known == call.node \in graph.spec
           selected == Downstream(call.node, graph.spec)
           changed == \E n \in selected :
                         n \notin call.state.spec \/ call.state.statuses[n] # "sleeping"
       IN  calls' = [calls EXCEPT ![c] =
                        IF known /\ changed
                          THEN Saving(call.state, SleepProposal(call), "stateRevision")
                          ELSE NoCall]
    /\ UNCHANGED graph

BeginWake(c, selected) ==
    /\ Idle(c)
    /\ WithinBound(graph)
    /\ MayWake(graph, selected)
    /\ WithStatus(graph, selected, "active") # graph
    /\ calls' = [calls EXCEPT ![c] =
                    Saving(graph, WithStatus(graph, selected, "active"), "stateRevision")]
    /\ UNCHANGED graph

\* save_graph, one writer transaction.  The specification is replaced, one
\* counter moves, and a status row is upserted for every node saved; rows of
\* other nodes, and the contexts, are not touched.
\* Mutants: the compare-and-set checks one counter of the two.
FencedByDefinition(call) == call.state.revision = graph.revision
FencedByState(call) == call.state.stateRevision = graph.stateRevision

Fenced(call) == Revisions(call.state) = Revisions(graph)

Stored(call) ==
    [graph EXCEPT
        !.spec = call.spec,
        !.outputs = call.outputs,
        !.statuses = [n \in DOMAIN @ \cup call.spec |->
                         IF n \in call.spec THEN call.statuses[n] ELSE @[n]],
        !.revision = IF call.counter = "revision" THEN @ + 1 ELSE @,
        !.stateRevision = IF call.counter = "stateRevision" THEN @ + 1 ELSE @]

Save(c) ==
    /\ calls[c].step = "save"
    /\ Fenced(calls[c])
    /\ WithinBound(graph)
    /\ graph' = Stored(calls[c])
    /\ calls' = [calls EXCEPT ![c] = NoCall]

\* RevisionConflict: the transaction rolls back and the caller sees the error.
Conflict(c) ==
    /\ calls[c].step = "save"
    /\ ~ Fenced(calls[c])
    /\ calls' = [calls EXCEPT ![c] = NoCall]
    /\ UNCHANGED graph

\* register_context reads and writes in one transaction, with no fence.
RegisterDirectly(c, context, definition) ==
    /\ Idle(c)
    /\ RegisterContext(context, definition)
    /\ UNCHANGED calls

Init ==
    /\ RegistryInit
    /\ calls = [c \in Clients |-> NoCall]

Step(c) ==
    \/ \E outputs \in SUBSET Nodes : BeginMerge(c, outputs)
    \/ \E node \in Nodes : BeginSleep(c, node)
    \/ SelectSleep(c)
    \/ \E selected \in SUBSET Nodes : BeginWake(c, selected)
    \/ Save(c)
    \/ Conflict(c)
    \/ \E context \in Contexts, definition \in Definitions :
            RegisterDirectly(c, context, definition)

Next == \E c \in Clients : Step(c)

Spec == Init /\ [][Next]_vars

-----------------------------------------------------------------------------
(* Correctness. *)

\* Shapes of the stored rows and of the calls in progress.
TypeOK ==
    /\ GraphTypeOK
    /\ calls \in [Clients -> Calls]
    /\ \A c \in Clients : calls[c] # NoCall => IsGraph(calls[c].state)

\* The revision fence is a content fence: counters only grow, and a call
\* whose snapshot still carries the current pair of counters holds the
\* current graph, contexts included, although the pair is all that
\* save_graph and assert_revision compare.
FencedSnapshotIsCurrent ==
    \A c \in Clients : calls[c] # NoCall =>
        /\ calls[c].state.revision <= graph.revision
        /\ calls[c].state.stateRevision <= graph.stateRevision
        /\ Fenced(calls[c]) => calls[c].state = graph

\* A sleeping node becomes active only where a caller's wake named it: no
\* stale snapshot saved by another operation undoes a committed sleep.
AsleepUntilWoken ==
    [][\A n \in graph.spec :
          graph.statuses[n] = "sleeping" /\ graph'.statuses[n] = "active" =>
              \E c \in Clients : /\ calls[c].step = "save"
                                 /\ n \in calls[c].state.spec
                                 /\ calls[c].state.statuses[n] = "sleeping"
                                 /\ calls[c].statuses[n] = "active"]_vars

\* Committed growth and registration survive every other operation.
NothingForgotten ==
    [][/\ graph.spec \subseteq graph'.spec
       /\ graph.outputs \subseteq graph'.outputs
       /\ DOMAIN graph.contexts \subseteq DOMAIN graph'.contexts]_vars

=============================================================================
