-------------------------- MODULE UpdatePlansProofs --------------------------
(***************************************************************************)
(* Frozen updates, for any graph, contexts, versions and number of plans.  *)
(*                                                                         *)
(* A plan keeps the mode and the predecessor it froze, so what the global  *)
(* receipts say can only change where commit_update moves the pointer, and *)
(* there the pointer still holds the frozen predecessor or this very plan. *)
(***************************************************************************)
EXTENDS UpdatePlans, GraphRegistryProofs, FiniteSetTheorems

Fields == {"step", "mode", "state", "previous", "data", "contexts", "nodes",
           "unread", "results", "values", "flight", "failures"}

\* Frozen plans are records; nothing but Unplanned is not frozen.
Shaped ==
    /\ DOMAIN plans = Plans
    /\ \A p \in Plans : Started(p) => DOMAIN plans[p] = Fields

\* Plan p is still the plan it was frozen as.
Keeps(p) ==
    /\ Started(p)'
    /\ plans'[p].mode = plans[p].mode
    /\ plans'[p].previous = plans[p].previous

\* What one step may do to the plans: it moves some on and freezes others,
\* over the version current at that instant.
PlansMove ==
    /\ Shaped'
    /\ \A p \in Plans : Started(p) => Keeps(p)
    /\ \A p \in Plans : ~ Started(p) /\ Started(p)' => plans'[p].previous = current

\* A step of one frozen plan.
LEMMA Moved ==
    ASSUME Shaped, NEW p \in Plans, Started(p), NEW plan, Update(p, plan),
           DOMAIN plan = Fields, plan.step # "unplanned",
           plan.mode = plans[p].mode, plan.previous = plans[p].previous
    PROVE  PlansMove
  BY DEF Update, Shaped, Started, PlansMove, Keeps

\* A step of no plan.
LEMMA Unmoving == Shaped /\ UNCHANGED plans => PlansMove
  BY DEF Shaped, PlansMove, Keeps, Started

\* Planning freezes a record, and the rest of planning leaves it frozen.
LEMMA PlanMoves == ASSUME Shaped, NEW p \in Plans, Plan(p) PROVE PlansMove
  <1>1. ASSUME NEW mode \in Modes, NEW contexts \in SUBSET Contexts,
               NEW roots \in SUBSET Nodes, NEW v \in Versions,
               Freeze(p, mode, contexts, roots, v)
        PROVE  PlansMove
    <2>1. PICK plan : /\ Update(p, plan) /\ DOMAIN plan = Fields
                      /\ plan.step = "adopting" /\ plan.previous = current
      BY <1>1 DEF Freeze, Fields
    <2>2. ~ Started(p)
      BY <1>1 DEF Freeze
    <2> QED
      BY <2>1, <2>2 DEF Update, Shaped, Started, PlansMove, Keeps
  <1>2. ASSUME NEW context \in Contexts, Adopt(p, context) PROVE PlansMove
    <2> DEFINE plan == [plans[p] EXCEPT
                          !.unread = @ \ {context},
                          !.results = @ \cup {at \in {context} \X plans[p].nodes :
                                                UpToDate(plans[p], at)}]
    <2>1. Started(p) /\ Update(p, plan)
      BY <1>2 DEF Adopt
    <2>2. DOMAIN plan = Fields /\ plan.step = plans[p].step
          /\ plan.mode = plans[p].mode /\ plan.previous = plans[p].previous
      BY <2>1 DEF Shaped, Fields
    <2> HIDE DEF plan
    <2> QED
      BY <2>1, <2>2, Moved DEF Started
  <1>3. CASE FinishPlanning(p)
    <2> DEFINE step == IF Fenced(plans[p]) THEN "open" ELSE "closed"
    <2> DEFINE plan == [plans[p] EXCEPT !.step = step]
    <2>1. Started(p) /\ Update(p, plan)
      BY <1>3 DEF FinishPlanning
    <2>2. DOMAIN plan = Fields /\ plan.step # "unplanned"
          /\ plan.mode = plans[p].mode /\ plan.previous = plans[p].previous
      BY <2>1 DEF Shaped, Fields
    <2> HIDE DEF plan
    <2> QED
      BY <2>1, <2>2, Moved
  <1> QED
    BY <1>1, <1>2, <1>3 DEF Plan

\* What staging and landing a node keep of a plan.
LEMMA StagedKeeps ==
    ASSUME NEW plan, DOMAIN plan = Fields, NEW at, NEW stage
    PROVE  /\ DOMAIN Staged(plan, at, stage) = Fields
           /\ \A field \in Fields \ {"flight"} : Staged(plan, at, stage)[field] = plan[field]
  BY DEF Staged, Fields

LEMMA LandedKeeps ==
    ASSUME NEW plan, DOMAIN plan = Fields, NEW at
    PROVE  /\ DOMAIN Landed(plan, at) = Fields
           /\ \A field \in Fields \ {"flight"} : Landed(plan, at)[field] = plan[field]
  BY DEF Landed, Fields

\* Executing nodes moves their plan on, whatever becomes of them.
LEMMA ExecutionMoves ==
    ASSUME Shaped, NEW p \in Plans, NEW at \in Places, Execute(p, at)
    PROVE  PlansMove
  <1> DEFINE plan == plans[p]
  <1>1. Started(p) /\ plan.step # "unplanned"
    BY DEF Execute, Advance, Admit, Inspect, Lookup, LoadParents, Publish, Complete,
           Refuse, Interrupt, InFlight, Open, Started
  <1>2. DOMAIN plan = Fields
    BY <1>1 DEF Shaped
  <1>3. ASSUME NEW next, Update(p, next), DOMAIN next = Fields,
               \A field \in {"step", "mode", "previous"} : next[field] = plan[field]
        PROVE  PlansMove
    <2>1. /\ next.step = plans[p].step /\ next.mode = plans[p].mode
          /\ next.previous = plans[p].previous
      BY <1>3
    <2> QED
      BY <1>1, <1>3, <2>1, Moved
  <1>4. ASSUME NEW stage, Update(p, Staged(plan, at, stage)) PROVE PlansMove
    BY <1>2, <1>3, <1>4, StagedKeeps DEF Fields
  <1>5. ASSUME Update(p, Landed(plan, at)) PROVE PlansMove
    BY <1>2, <1>3, <1>5, LandedKeeps DEF Fields
  <1>6. CASE Admit(p, at)
    BY <1>4, <1>6 DEF Admit
  <1>7. CASE Inspect(p, at)
    BY <1>4, <1>7 DEF Inspect
  <1>8. CASE Lookup(p, at)
    BY <1>4, <1>8 DEF Lookup
  <1>9. CASE LoadParents(p, at)
    <2> DEFINE staged == Staged(plan, at, "computing")
               next == [staged EXCEPT !.values = @ \cup ParentsAt(at)]
    <2>1. Update(p, next)
      BY <1>9 DEF LoadParents
    <2>2. DOMAIN staged = Fields /\ \A field \in {"step", "mode", "previous"} :
              staged[field] = plan[field]
      BY <1>2, StagedKeeps DEF Fields
    <2> HIDE DEF staged
    <2>3. DOMAIN next = Fields /\ \A field \in {"step", "mode", "previous"} :
              next[field] = plan[field]
      BY <2>2 DEF Fields
    <2> QED
      BY <1>3, <2>1, <2>3
  <1>10. CASE Publish(p, at)
    BY <1>4, <1>10 DEF Publish
  <1>11. CASE Complete(p, at)
    <2> DEFINE landed == Landed(plan, at)
               next == [landed EXCEPT !.results = @ \cup {at}, !.values = @ \cup {at}]
    <2>1. Update(p, next) \/ Update(p, landed)
      BY <1>11 DEF Complete
    <2>2. DOMAIN landed = Fields /\ \A field \in {"step", "mode", "previous"} :
              landed[field] = plan[field]
      BY <1>2, LandedKeeps DEF Fields
    <2> HIDE DEF landed
    <2>3. DOMAIN next = Fields /\ \A field \in {"step", "mode", "previous"} :
              next[field] = plan[field]
      BY <2>2 DEF Fields
    <2> QED
      BY <1>3, <2>1, <2>2, <2>3
  <1>12. CASE Refuse(p, at)
    BY <1>5, <1>12 DEF Refuse
  <1>13. CASE Interrupt(p, at)
    <2> DEFINE landed == Landed(plan, at)
               next == [landed EXCEPT !.failures = @ + 1]
    <2>1. Update(p, next)
      BY <1>13 DEF Interrupt
    <2>2. DOMAIN landed = Fields /\ \A field \in {"step", "mode", "previous"} :
              landed[field] = plan[field]
      BY <1>2, LandedKeeps DEF Fields
    <2> HIDE DEF landed
    <2>3. DOMAIN next = Fields /\ \A field \in {"step", "mode", "previous"} :
              next[field] = plan[field]
      BY <2>2 DEF Fields
    <2> QED
      BY <1>3, <2>1, <2>3
  <1> HIDE DEF plan
  <1> QED
    BY <1>6, <1>7, <1>8, <1>9, <1>10, <1>11, <1>12, <1>13 DEF Execute, Advance

\* Publication and abandonment close a plan and keep what it froze.
LEMMA EndMoves ==
    ASSUME Shaped, NEW p \in Plans, PublishUpdate(p) \/ Abandon(p)
    PROVE  PlansMove
  <1>1. CASE PublishUpdate(p)
    <2> DEFINE plan == [plans[p] EXCEPT !.step = "published"]
    <2>1. Started(p) /\ Update(p, plan)
      BY <1>1 DEF PublishUpdate
    <2>2. DOMAIN plan = Fields /\ plan.step # "unplanned"
          /\ plan.mode = plans[p].mode /\ plan.previous = plans[p].previous
      BY <2>1 DEF Shaped, Fields
    <2> QED
      BY <2>1, <2>2, Moved
  <1>2. CASE Abandon(p)
    <2> DEFINE plan == [plans[p] EXCEPT !.step = "closed", !.unread = {}, !.values = {},
                                        !.flight = [at \in {} |-> None]]
    <2>1. Started(p) /\ Update(p, plan)
      BY <1>2 DEF Abandon, Unfinished
    <2>2. DOMAIN plan = Fields /\ plan.step # "unplanned"
          /\ plan.mode = plans[p].mode /\ plan.previous = plans[p].previous
      BY <2>1 DEF Shaped, Fields
    <2> QED
      BY <2>1, <2>2, Moved
  <1> QED
    BY <1>1, <1>2

LEMMA StepMoves == Shaped /\ [Next]_vars => PlansMove
  <1> SUFFICES ASSUME Shaped, [Next]_vars PROVE PlansMove
    OBVIOUS
  <1>1. CASE UNCHANGED vars
    BY <1>1, Unmoving DEF vars
  <1>2. CASE ChangeGraph
    BY <1>2, Unmoving DEF ChangeGraph
  <1>3. CASE Release
    BY <1>3, Unmoving DEF Release, PreviewRelease, ApplyRelease
  <1>4. ASSUME NEW p \in Plans,
               \/ Plan(p) \/ \E at \in Places : Execute(p, at)
               \/ PublishUpdate(p) \/ Abandon(p)
        PROVE  PlansMove
    BY <1>4, PlanMoves, ExecutionMoves, EndMoves
  <1> QED
    BY <1>1, <1>2, <1>3, <1>4 DEF Next

-----------------------------------------------------------------------------
(* The history of global versions. *)

\* What the receipts and the pointer say of the plans that wrote them: no
\* plan was frozen over a version that is not published, and no published
\* one over the current version.
Chain ==
    /\ receipts \subseteq {p \in Plans : Started(p)}
    /\ current \in GlobalReceipts \cup {None}
    /\ \A p \in Plans : Started(p) => plans[p].previous \in GlobalReceipts \cup {None}
    /\ \A p \in GlobalReceipts : plans[p].previous # current

HInv == Shaped /\ Chain

before == [p \in GlobalReceipts |-> plans[p].previous]

\* While the receipts and the pointer stand, so does the history.
LEMMA ChainStands ==
    ASSUME HInv, PlansMove, UNCHANGED <<receipts, current>>
    PROVE  Chain' /\ UNCHANGED <<GlobalReceipts, before, current>>
  <1>1. \A p \in receipts : p \in Plans /\ Keeps(p)
    BY DEF HInv, Chain, PlansMove
  <1>2. GlobalReceipts' = GlobalReceipts
    BY <1>1 DEF GlobalReceipts, Keeps
  <1>3. \A p \in GlobalReceipts : plans'[p].previous = plans[p].previous
    BY <1>1 DEF GlobalReceipts, Keeps
  <1>4. before' = before
    BY <1>2, <1>3 DEF before
  <1>5. \A p \in Plans : Started(p)' => plans'[p].previous \in GlobalReceipts \cup {None}
    BY DEF HInv, Chain, PlansMove, Keeps
  <1>6. receipts \subseteq {p \in Plans : Started(p)'}
    BY <1>1 DEF Keeps
  <1> QED
    BY <1>2, <1>3, <1>4, <1>5, <1>6 DEF HInv, Chain

\* commit_update publishes the plan over the version it froze, or repeats
\* what took effect before.
LEMMA ChainExtends ==
    ASSUME HInv, PlansMove, NEW p \in Plans, PublishUpdate(p)
    PROVE  /\ Chain'
           /\ \/ History!Publish(p)
              \/ UNCHANGED <<GlobalReceipts, before, current>>
  <1>1. /\ Started(p) /\ Unmoved(p) /\ receipts' = receipts \cup {p}
        /\ current' = IF plans[p].mode = "global" THEN p ELSE current
    BY DEF PublishUpdate
  <1>2. \A q \in receipts \cup {p} : q \in Plans /\ Keeps(q)
    BY <1>1 DEF HInv, Chain, PlansMove
  <1>3. \A q \in Plans : Started(q)' => Started(q) /\ Keeps(q)
    <2>1. \A q \in Plans : q # p => plans'[q] = plans[q]
      BY DEF PublishUpdate, Update, HInv, Shaped
    <2> QED
      BY <1>1, <2>1 DEF PlansMove, Started
  <1>4. p # None
    BY NoneAssumption
  <1>5. CASE plans[p].mode # "global"
    <2>1. GlobalReceipts' = GlobalReceipts /\ current' = current
      BY <1>1, <1>2, <1>5 DEF GlobalReceipts, Keeps
    <2>2. \A q \in GlobalReceipts : plans'[q].previous = plans[q].previous
      BY <1>2 DEF GlobalReceipts, Keeps
    <2>3. before' = before
      BY <2>1, <2>2 DEF before
    <2> QED
      BY <1>1, <1>2, <1>3, <2>1, <2>2, <2>3 DEF HInv, Chain, Keeps
  <1>6. CASE plans[p].mode = "global" /\ p \in receipts
    <2>1. p \in GlobalReceipts /\ current = p
      BY <1>1, <1>6 DEF GlobalReceipts, HInv, Chain, Unmoved
    <2>2. UNCHANGED <<receipts, current>>
      BY <1>1, <1>6, <2>1
    <2> QED
      BY <2>2, ChainStands
  <1>7. CASE plans[p].mode = "global" /\ p \notin receipts
    <2>1. current = plans[p].previous /\ current' = p
      BY <1>1, <1>4, <1>7 DEF GlobalReceipts, HInv, Chain, Unmoved
    <2>2. p \notin GlobalReceipts /\ GlobalReceipts' = GlobalReceipts \cup {p}
      BY <1>1, <1>2, <1>7 DEF GlobalReceipts, Keeps
    <2>3. \A q \in GlobalReceipts' : plans'[q].previous = plans[q].previous
      BY <1>1, <1>2 DEF GlobalReceipts, Keeps
    <2>4. before' = [q \in GlobalReceipts' |-> IF q = p THEN current ELSE before[q]]
      BY <2>1, <2>2, <2>3 DEF before
    <2>5. \A q \in GlobalReceipts' : plans'[q].previous # current'
      BY <1>4, <2>1, <2>2, <2>3, <1>1 DEF HInv, Chain, GlobalReceipts
    <2>6. Chain'
      BY <1>1, <1>2, <1>3, <2>1, <2>2, <2>3, <2>5 DEF HInv, Chain, Keeps
    <2> QED
      BY <2>1, <2>2, <2>4, <2>6 DEF History!Publish, before
  <1> QED
    BY <1>5, <1>6, <1>7

\* Receipts and the pointer are written by commit_update alone.
LEMMA OnlyPublicationMoves ==
    ASSUME [Next]_vars
    PROVE  UNCHANGED <<receipts, current>> \/ \E p \in Plans : PublishUpdate(p)
  <1>1. CASE UNCHANGED vars
    BY <1>1 DEF vars, store
  <1>2. CASE ChangeGraph
    BY <1>2 DEF ChangeGraph, store
  <1>3. CASE Release
    BY <1>3 DEF Release, PreviewRelease, ApplyRelease, store
  <1>4. ASSUME NEW p \in Plans, Plan(p) PROVE UNCHANGED <<receipts, current>>
    BY <1>4 DEF Plan, Freeze, Adopt, FinishPlanning, store
  <1>5. ASSUME NEW p \in Plans, NEW at \in Places, Execute(p, at)
        PROVE  UNCHANGED <<receipts, current>>
    BY <1>5 DEF Execute, Admit, Advance, Inspect, Lookup, LoadParents, Publish,
                Complete, Refuse, Interrupt, store
  <1>6. ASSUME NEW p \in Plans, Abandon(p) PROVE UNCHANGED <<receipts, current>>
    BY <1>6 DEF Abandon, store
  <1> QED
    BY <1>1, <1>2, <1>3, <1>4, <1>5, <1>6 DEF Next

\* Every step keeps the invariant and is a step of the history, or none.
LEMMA HistoryStep ==
    HInv /\ [Next]_vars => HInv' /\ [History!Next]_<<GlobalReceipts, before, current>>
  <1> SUFFICES ASSUME HInv, [Next]_vars
               PROVE  HInv' /\ [History!Next]_<<GlobalReceipts, before, current>>
    OBVIOUS
  <1>1. PlansMove
    BY StepMoves DEF HInv
  <1>2. ASSUME NEW p \in Plans, PublishUpdate(p)
        PROVE  HInv' /\ [History!Next]_<<GlobalReceipts, before, current>>
    <2>1. p \in Plans \ {None}
      BY NoneAssumption
    <2> QED
      BY <1>1, <1>2, <2>1, ChainExtends DEF HInv, PlansMove, History!Next
  <1>3. CASE UNCHANGED <<receipts, current>>
    BY <1>1, <1>3, ChainStands DEF HInv, PlansMove
  <1>4. UNCHANGED <<receipts, current>> \/ \E p \in Plans : PublishUpdate(p)
    BY OnlyPublicationMoves
  <1> QED
    BY <1>2, <1>3, <1>4

LEMMA HistoryInit == Init => HInv /\ History!Init
  <1> SUFFICES ASSUME Init PROVE HInv /\ History!Init
    OBVIOUS
  <1>1. \A p \in Plans : ~ Started(p)
    BY DEF Init, Started, Unplanned
  <1>2. GlobalReceipts = {}
    BY DEF Init, GlobalReceipts
  <1> QED
    BY <1>1, <1>2 DEF Init, HInv, Shaped, Chain, GlobalReceipts, History!Init

\* commit_update implements one history of global versions, for every number
\* of planners, whatever else happens to the graph and to the results.
THEOREM UpdatesImplementHistory == Spec => HistorySpec
  <1>1. HInv /\ [Next]_vars => [History!Next]_(History!vars)
    BY HistoryStep DEF History!vars, before
  <1>2. HInv /\ [Next]_vars => HInv'
    BY HistoryStep
  <1> QED
    BY <1>1, <1>2, HistoryInit, PTL DEF Spec, HistorySpec, History!Spec

\* Versions that are published one at a time over the current one form one
\* history, in any behaviour of the abstract specification.
THEOREM OneHistoryHolds == HistorySpec => []History!OneHistory
  <1>1. History!Init => History!Linear
    BY DEF History!Init, History!Linear, History!OneHistory
  <1>2. History!Linear /\ [History!Next]_(History!vars) => History!Linear'
    <2> SUFFICES ASSUME History!Linear, [History!Next]_(History!vars) PROVE History!Linear'
      OBVIOUS
    <2>1. CASE UNCHANGED History!vars
      BY <2>1 DEF History!vars, History!Linear, History!OneHistory
    <2>2. ASSUME NEW p \in Plans \ {None}, History!Publish(p) PROVE History!Linear'
      <3>1. p # None /\ p \notin GlobalReceipts
        BY <2>2 DEF History!Publish
      <3>2. before'[p] = current /\ \A q \in GlobalReceipts : before'[q] = before[q]
        BY <2>2, <3>1 DEF History!Publish, before
      <3>3. GlobalReceipts' = GlobalReceipts \cup {p} /\ current' = p
        BY <2>2 DEF History!Publish
      <3>4. \A q \in GlobalReceipts' : before'[q] \in (GlobalReceipts' \cup {None}) \ {current'}
        BY <3>1, <3>2, <3>3 DEF History!Linear, before
      <3>5. \A q, r \in GlobalReceipts' : before'[q] = before'[r] => q = r
        BY <3>1, <3>2, <3>3 DEF History!Linear, History!OneHistory, before
      <3>6. \A q \in GlobalReceipts' \ {current'} : \E r \in GlobalReceipts' : before'[r] = q
        BY <3>1, <3>2, <3>3 DEF History!Linear, History!OneHistory, before
      <3> QED
        BY <3>1, <3>3, <3>4, <3>5, <3>6 DEF History!Linear, History!OneHistory, before
    <2> QED
      BY <2>1, <2>2 DEF History!Next
  <1>3. History!Linear => History!OneHistory
    BY DEF History!Linear
  <1> QED
    BY <1>1, <1>2, <1>3, PTL DEF HistorySpec, History!Spec

\* So no global version was replaced twice, and only the current one never.
THEOREM UpdatesHaveOneHistory == Spec => []History!OneHistory
  BY UpdatesImplementHistory, OneHistoryHolds, PTL

-----------------------------------------------------------------------------
(* What a frozen plan knows, and what its caller has admitted. *)

\* A plan that passes the fence was frozen from the graph as it is; what it
\* holds, or is about to flag, is published; what it computes has all its
\* computed inputs done.
Sound(plan) ==
    /\ IsPlan(plan)
    /\ plan.state.revision <= graph.revision
    /\ plan.state.stateRevision <= graph.stateRevision
    /\ Fenced(plan) => plan.state = graph
    /\ \A n \in plan.nodes : OperatorParents(n) \subseteq plan.nodes
    /\ \A at \in plan.results : Key(plan, at) \in registered
    /\ \A at \in DOMAIN plan.flight :
          /\ plan.flight[at] \in {"described", "held", "lost"} => Key(plan, at) \in registered
          /\ plan.flight[at] = "computing" => ParentsAt(at) \subseteq plan.results

FlagsOK ==
    /\ DOMAIN completions = Places
    /\ \A at \in Places : completions[at] # None => IsFlag(completions[at])

\* The inductive invariant.
UInv ==
    /\ scope \in Scopes
    /\ IsGraph(graph) /\ ActiveAncestry
    /\ DOMAIN plans = Plans
    /\ \A p \in Plans : Started(p) => Sound(plans[p])
    /\ registered \subseteq Identities /\ AncestorsRegistered
    /\ FlagsOK
    /\ current \in Plans \cup {None}

\* A step that moves one plan on, publishes at most new results, and leaves
\* the graph alone.
LEMMA SoundStep ==
    ASSUME UInv, NEW p \in Plans, NEW plan, Update(p, plan), Sound(plan)',
           UNCHANGED <<scope, graph>>, registered \subseteq registered'
    PROVE  /\ DOMAIN plans' = Plans
           /\ \A q \in Plans : Started(q)' => Sound(plans[q])'
  <1>1. plans' = [plans EXCEPT ![p] = plan] /\ DOMAIN plans = Plans
    BY DEF Update, UInv
  <1>2. ASSUME NEW q \in Plans, Started(q)' PROVE Sound(plans[q])'
    <2>1. CASE q = p
      BY <1>1, <2>1
    <2>2. CASE q # p
      <3>1. plans'[q] = plans[q] /\ Started(q)
        BY <1>1, <1>2, <2>2 DEF Started
      <3>2. Sound(plans[q])
        BY <3>1 DEF UInv
      <3> QED
        BY <3>1, <3>2 DEF Sound, Fenced, IsPlan
    <2> QED
      BY <2>1, <2>2
  <1> QED
    BY <1>1, <1>2

\* The rest of the invariant, when a plan moves and nothing else does.
LEMMA PlanStep ==
    ASSUME UInv, NEW p \in Plans, NEW plan, Update(p, plan), Sound(plan),
           UNCHANGED <<scope, graph, store>>
    PROVE  UInv'
  <1>1. Sound(plan)'
    BY DEF Sound, Fenced, store, IsPlan
  <1>2. registered' = registered
    BY DEF store
  <1>3. AncestorsRegistered' /\ FlagsOK' /\ ActiveAncestry'
    BY DEF UInv, AncestorsRegistered, FlagsOK, IsFlag, store, ActiveAncestry, ParentClosed
  <1> QED
    BY <1>1, <1>2, <1>3, SoundStep DEF UInv, store

\* A snapshot is a sound plan: the nodes it may run are closed under computed
\* dependencies, whichever way they were chosen.
LEMMA FreezeSound ==
    ASSUME UInv, NEW p \in Plans, NEW mode \in Modes, NEW contexts \in SUBSET Contexts,
           NEW roots \in SUBSET Nodes, NEW v \in Versions,
           Freeze(p, mode, contexts, roots, v)
    PROVE  UInv'
  <1> DEFINE nodes == IF mode = "global" THEN ActiveNodes ELSE Ancestry(roots)
             plan == [step |-> "adopting", mode |-> mode, state |-> graph,
                      previous |-> current, data |-> v, contexts |-> contexts,
                      nodes |-> nodes \cap Operators, unread |-> contexts,
                      results |-> {}, values |-> {}, flight |-> [at \in {} |-> None],
                      failures |-> 0]
  <1>1. Update(p, plan) /\ UNCHANGED <<scope, graph, store, preview>>
    BY DEF Freeze
  <1>2. contexts \subseteq DOMAIN graph.contexts
    BY DEF Freeze
  <1>3. IsGraph(graph) /\ graph.revision \in Nat /\ graph.stateRevision \in Nat
    BY DEF UInv, IsGraph, GraphStates
  <1>4. nodes \subseteq graph.spec /\ ParentClosed(nodes)
    <2>1. CASE mode = "global"
      BY <2>1, ParentsAssumption DEF UInv, ActiveAncestry, ActiveNodes, ParentClosed
    <2>2. CASE mode # "global"
      <3>1. Ancestry(roots) \subseteq ActiveNodes
        BY <2>2 DEF Freeze, Modes
      <3> QED
        BY <2>2, <3>1, AncestryClosed DEF ActiveNodes
    <2> QED
      BY <2>1, <2>2
  <1> HIDE DEF nodes
  <1>5. IsPlan(plan)
    <2>1. 0 \in 0 .. MaxFailures
      BY BoundsAssumption
    <2>2. plan.flight = [at \in {} |-> None] /\ DOMAIN plan.flight = {}
      OBVIOUS
    <2>3. current \in Plans \cup {None}
      BY DEF UInv
    <2> QED
      BY <1>2, <1>3, <1>4, <2>1, <2>2, <2>3 DEF IsPlan, Steps
  <1>6. \A n \in plan.nodes : OperatorParents(n) \subseteq plan.nodes
    BY <1>4 DEF ParentClosed, OperatorParents
  <1>7. plan.state = graph /\ plan.results = {} /\ DOMAIN plan.flight = {}
    OBVIOUS
  <1>8. Sound(plan)
    BY <1>3, <1>5, <1>6, <1>7 DEF Sound
  <1> HIDE DEF plan
  <1> QED
    BY <1>1, <1>8, PlanStep

\* Adopted flags name this plan's keys, which are published.
LEMMA AdoptSound ==
    ASSUME UInv, NEW p \in Plans, NEW context \in Contexts, Adopt(p, context)
    PROVE  UInv'
  <1> DEFINE old == plans[p]
             adopted == {at \in {context} \X old.nodes : UpToDate(old, at)}
             plan == [old EXCEPT !.unread = @ \ {context}, !.results = @ \cup adopted]
  <1>1. Update(p, plan) /\ Started(p) /\ context \in old.unread
        /\ UNCHANGED <<scope, graph, store, preview>>
    BY DEF Adopt
  <1>2. Sound(old)
    BY <1>1 DEF UInv
  <1>3. adopted \subseteq old.contexts \X old.nodes
    BY <1>1, <1>2 DEF Sound, IsPlan
  <1>4. ASSUME NEW at \in adopted PROVE Key(old, at) \in registered
    <2>1. at \in Places
      BY <1>2, <1>4 DEF Sound, IsPlan, Places
    <2>2. completions[at] # None /\ completions[at].identity = Key(old, at)
      BY <1>4 DEF UpToDate
    <2> QED
      BY <2>1, <2>2 DEF UInv, FlagsOK, IsFlag
  <1> HIDE DEF adopted
  <1>5. DOMAIN plan = DOMAIN old /\ \A field \in DOMAIN old \ {"unread", "results"} :
            plan[field] = old[field]
    OBVIOUS
  <1>6. plan.unread = old.unread \ {context} /\ plan.results = old.results \cup adopted
    BY <1>2 DEF Sound, IsPlan
  <1> HIDE DEF plan
  <1>7. IsPlan(plan)
    BY <1>2, <1>3, <1>5, <1>6 DEF Sound, IsPlan
  <1>8. \A at : Key(plan, at) = Key(old, at)
    BY <1>2, <1>5 DEF Key, Sound, IsPlan
  <1>9. Sound(plan)
    BY <1>2, <1>4, <1>5, <1>6, <1>7, <1>8 DEF Sound, IsPlan, Fenced
  <1> QED
    BY <1>1, <1>9, PlanStep

\* Ending a plan, or opening it, changes its step and forgets at most work.
LEMMA SettleSound ==
    ASSUME UInv, NEW p \in Plans, Started(p), NEW plan, Update(p, plan),
           UNCHANGED <<scope, graph, store>>,
           DOMAIN plan = DOMAIN plans[p], plan.step \in Steps,
           plan.unread \subseteq plans[p].unread, plan.values \subseteq plans[p].values,
           plan.flight = plans[p].flight \/ DOMAIN plan.flight = {},
           \A field \in DOMAIN plan \ {"step", "unread", "values", "flight"} :
               plan[field] = plans[p][field]
    PROVE  UInv'
  <1>1. Sound(plans[p])
    BY DEF UInv
  <1>2. IsPlan(plan)
    BY <1>1 DEF Sound, IsPlan
  <1>3. \A at : Key(plan, at) = Key(plans[p], at)
    BY <1>1 DEF Key, Sound, IsPlan
  <1>4. Sound(plan)
    BY <1>1, <1>2, <1>3 DEF Sound, IsPlan, Fenced
  <1> QED
    BY <1>4, PlanStep

\* Moving a node to another stage, or out of flight with what it brought.
LEMMA WorkSound ==
    ASSUME UInv, NEW p \in Plans, Started(p), NEW plan,
           DOMAIN plan = DOMAIN plans[p],
           \A field \in DOMAIN plan \ {"results", "values", "flight", "failures"} :
               plan[field] = plans[p][field],
           NEW at \in plan.contexts \X plan.nodes,
           plans[p].results \subseteq plan.results,
           plan.results \subseteq plans[p].results \cup {at},
           plan.values \subseteq plan.results, plan.failures \in 0 .. MaxFailures,
           at \in plan.results \ plans[p].results => Key(plan, at) \in registered',
           DOMAIN plan.flight \subseteq DOMAIN plans[p].flight \cup {at},
           \A b \in DOMAIN plan.flight \ {at} : plan.flight[b] = plans[p].flight[b],
           at \in DOMAIN plan.flight =>
              /\ plan.flight[at] \in Stages
              /\ plan.flight[at] \in {"described", "held", "lost"} =>
                    Key(plan, at) \in registered'
              /\ plan.flight[at] = "computing" => ParentsAt(at) \subseteq plan.results,
           UNCHANGED <<scope, graph>>, registered \subseteq registered'
    PROVE  Sound(plan)'
  <1>1. Sound(plans[p])
    BY DEF UInv
  <1>2. IsPlan(plan)
    BY <1>1 DEF Sound, IsPlan
  <1>3. \A b : Key(plan, b) = Key(plans[p], b)
    BY <1>1 DEF Key, Sound, IsPlan
  <1>4. \A b \in plan.results : Key(plan, b) \in registered'
    BY <1>1, <1>3 DEF Sound
  <1>5. ASSUME NEW b \in DOMAIN plan.flight
        PROVE  /\ plan.flight[b] \in {"described", "held", "lost"} =>
                      Key(plan, b) \in registered'
               /\ plan.flight[b] = "computing" => ParentsAt(b) \subseteq plan.results
    <2>1. CASE b = at
      BY <2>1
    <2>2. CASE b # at
      BY <1>1, <1>3, <2>2 DEF Sound
    <2> QED
      BY <2>1, <2>2
  <1>6. /\ plan.state.revision <= graph'.revision
        /\ plan.state.stateRevision <= graph'.stateRevision
        /\ Fenced(plan)' => plan.state = graph'
        /\ \A n \in plan.nodes : OperatorParents(n) \subseteq plan.nodes
    BY <1>1 DEF Sound, IsPlan, Fenced
  <1>7. IsPlan(plan)'
    BY <1>2
  <1>8. \A b : Key(plan, b)' = Key(plan, b)
    BY DEF Key
  <1> QED
    BY <1>4, <1>5, <1>6, <1>7, <1>8 DEF Sound

\* The node in flight belongs to the plan.
LEMMA FlightPlace ==
    ASSUME UInv, NEW p \in Plans, NEW at, NEW stages, InFlight(p, at, stages)
    PROVE  /\ Started(p) /\ Sound(plans[p])
           /\ at \in plans[p].contexts \X plans[p].nodes
           /\ at \in DOMAIN plans[p].flight /\ plans[p].flight[at] \in stages
  BY DEF InFlight, Open, UInv, Sound, IsPlan, Started

\* A stage that carries its evidence keeps the plan sound.
LEMMA StageSound ==
    ASSUME UInv, NEW p \in Plans, Started(p), NEW at \in plans[p].contexts \X plans[p].nodes,
           NEW stage \in Stages, stage # "computing",
           stage \in {"described", "held", "lost"} => Key(plans[p], at) \in registered',
           NEW plan, plan = Staged(plans[p], at, stage),
           UNCHANGED <<scope, graph>>, registered \subseteq registered'
    PROVE  Sound(plan)'
  <1> DEFINE old == plans[p]
  <1>1. Sound(old)
    BY DEF UInv
  <1>2. DOMAIN old = Fields
    BY <1>1 DEF Sound, IsPlan, Fields
  <1>3. plan.flight = [b \in DOMAIN old.flight \cup {at} |-> IF b = at THEN stage ELSE old.flight[b]]
    BY <1>2 DEF Staged, Fields
  <1>4. DOMAIN plan = Fields /\ \A field \in Fields \ {"flight"} : plan[field] = old[field]
    BY <1>2, StagedKeeps
  <1>5. Key(plan, at) = Key(old, at)
    BY <1>4 DEF Key, Fields
  <1>6. /\ plan.results = old.results /\ plan.values = old.values
        /\ plan.failures = old.failures /\ plan.contexts = old.contexts
        /\ plan.nodes = old.nodes
    BY <1>4 DEF Fields
  <1>7. plan.values \subseteq plan.results /\ plan.failures \in 0 .. MaxFailures
    BY <1>1, <1>6 DEF Sound, IsPlan
  <1> QED
    BY <1>2, <1>3, <1>4, <1>5, <1>6, <1>7, WorkSound

\* So does a node that leaves flight, done or not.
LEMMA LandSound ==
    ASSUME UInv, NEW p \in Plans, Started(p), NEW at \in plans[p].contexts \X plans[p].nodes,
           NEW done \in SUBSET {at},
           done # {} => Key(plans[p], at) \in registered',
           NEW plan, DOMAIN plan = Fields,
           plan.results = plans[p].results \cup done,
           plan.values = plans[p].values \cup done, plan.failures \in 0 .. MaxFailures,
           plan.flight = [b \in DOMAIN plans[p].flight \ {at} |-> plans[p].flight[b]],
           \A field \in Fields \ {"results", "values", "failures", "flight"} :
               plan[field] = plans[p][field],
           UNCHANGED <<scope, graph>>, registered \subseteq registered'
    PROVE  Sound(plan)'
  <1>1. Sound(plans[p])
    BY DEF UInv
  <1>2. DOMAIN plans[p] = Fields
    BY <1>1 DEF Sound, IsPlan, Fields
  <1>3. Key(plan, at) = Key(plans[p], at)
    BY DEF Key, Fields
  <1>4. plan.contexts = plans[p].contexts /\ plan.nodes = plans[p].nodes
    BY DEF Fields
  <1>5. plan.values \subseteq plan.results
    BY <1>1 DEF Sound, IsPlan
  <1>6. plans[p].results \subseteq plan.results /\ plan.results \subseteq plans[p].results \cup {at}
    OBVIOUS
  <1>7. at \in plan.results \ plans[p].results => Key(plan, at) \in registered'
    BY <1>3
  <1>8. /\ DOMAIN plan.flight \subseteq DOMAIN plans[p].flight
        /\ at \notin DOMAIN plan.flight
        /\ \A b \in DOMAIN plan.flight : plan.flight[b] = plans[p].flight[b]
    OBVIOUS
  <1>9. DOMAIN plan = DOMAIN plans[p]
        /\ \A field \in DOMAIN plan \ {"results", "values", "flight", "failures"} :
               plan[field] = plans[p][field]
    BY <1>2
  <1>10. at \in plan.contexts \X plan.nodes
    BY <1>4
  <1> QED
    BY <1>5, <1>6, <1>7, <1>8, <1>9, <1>10, WorkSound

\* The key of a planned node, and the keys of its computed inputs.
LEMMA KeyFacts ==
    ASSUME NEW plan, IsPlan(plan), NEW at \in plan.contexts \X plan.nodes
    PROVE  /\ Key(plan, at) \in Identities
           /\ at \in Places
           /\ Sources(Key(plan, at)) = {Key(plan, b) : b \in ParentsAt(at)}
  <1>1. at[1] \in Contexts /\ at[2] \in Operators /\ plan.data \in Versions
        /\ at[1] \in DOMAIN plan.state.contexts
        /\ plan.state.contexts[at[1]] \in Definitions
    <2>1. plan.state.contexts \in ContextMaps
      BY DEF IsPlan, IsGraph, GraphStates
    <2>2. PICK S \in SUBSET Contexts : plan.state.contexts \in [S -> Definitions]
      BY <2>1 DEF ContextMaps
    <2> QED
      BY <2>2 DEF IsPlan
  <1>2. Key(plan, at) \in Identities
    BY <1>1 DEF Key, Identities
  <1>3. \A n : [Key(plan, at) EXCEPT !.node = n] = Key(plan, <<at[1], n>>)
    BY DEF Key
  <1>4. Sources(Key(plan, at)) = {Key(plan, <<at[1], n>>) : n \in OperatorParents(at[2])}
    <2>1. Key(plan, at).node = at[2]
      BY DEF Key
    <2>2. PICK i : i = Key(plan, at)
      OBVIOUS
    <2>3. Sources(i) = {[i EXCEPT !.node = n] : n \in OperatorParents(at[2])}
      BY <2>1, <2>2 DEF Sources, OperatorParents
    <2>4. \A n : [i EXCEPT !.node = n] = Key(plan, <<at[1], n>>)
      BY <1>3, <2>2
    <2>5. Sources(i) = {Key(plan, <<at[1], n>>) : n \in OperatorParents(at[2])}
      <3>1. \A x : x \in Sources(i) <=> \E n \in OperatorParents(at[2]) : x = Key(plan, <<at[1], n>>)
        BY <2>3, <2>4
      <3> QED
        BY <3>1
    <2> QED
      BY <2>2, <2>5
  <1>5. Sources(Key(plan, at)) = {Key(plan, b) : b \in ParentsAt(at)}
    BY <1>4 DEF ParentsAt
  <1>6. at \in Places
    BY <1>1 DEF Places
  <1> QED
    BY <1>2, <1>5, <1>6

\* A published result has its computed inputs published.
LEMMA PublishSound ==
    ASSUME UInv, NEW p \in Plans, NEW at \in Places, Publish(p, at)
    PROVE  UInv'
  <1>1. /\ Started(p) /\ Sound(plans[p]) /\ at \in plans[p].contexts \X plans[p].nodes
        /\ at \in DOMAIN plans[p].flight /\ plans[p].flight[at] = "computing"
    BY FlightPlace DEF Publish
  <1>2. PICK plan : plan = Staged(plans[p], at, "held") /\ Update(p, plan)
    BY DEF Publish
  <1>3. /\ registered' = registered \cup {Key(plans[p], at)}
        /\ UNCHANGED <<scope, graph, completions, current>>
    BY DEF Publish
  <1>4. Sound(plan)'
    BY <1>1, <1>2, <1>3, StageSound DEF Stages
  <1>5. Key(plans[p], at) \in Identities
        /\ Sources(Key(plans[p], at)) = {Key(plans[p], b) : b \in ParentsAt(at)}
    BY <1>1, KeyFacts DEF Sound
  <1>6. Sources(Key(plans[p], at)) \subseteq registered
    BY <1>1, <1>5 DEF Sound
  <1>7. registered' \subseteq Identities /\ AncestorsRegistered'
    BY <1>3, <1>5, <1>6 DEF UInv, AncestorsRegistered
  <1>8. FlagsOK'
    BY <1>3 DEF UInv, FlagsOK, IsFlag
  <1> QED
    BY <1>2, <1>3, <1>4, <1>7, <1>8, SoundStep DEF UInv, ActiveAncestry, ParentClosed

\* A flag is a well-formed row about a published result.
LEMMA FlagIsFlag ==
    ASSUME NEW plan, IsPlan(plan), NEW at \in plan.contexts \X plan.nodes,
           Key(plan, at) \in registered
    PROVE  IsFlag(Flag(plan, at))
  <1>1. Key(plan, at) \in Identities
    BY KeyFacts
  <1>2. Key(plan, at).definition \in Definitions
        /\ Key(plan, at).definition = plan.state.contexts[at[1]]
    BY <1>1 DEF Identities, Key
  <1>3. Cutoff[plan.state.contexts[at[1]]] \in Nat /\ Through[plan.data] \in Nat \ {NoCutoff}
    BY <1>2, CalendarAssumption DEF IsPlan
  <1> QED
    BY <1>3 DEF Flag, IsFlag

LEMMA CompleteSound ==
    ASSUME UInv, NEW p \in Plans, NEW at \in Places, Complete(p, at)
    PROVE  UInv'
  <1>1. /\ Started(p) /\ Sound(plans[p]) /\ at \in plans[p].contexts \X plans[p].nodes
    BY FlightPlace DEF Complete
  <1>2. PICK plan : /\ Update(p, plan)
                    /\ plan = IF plans[p].flight[at] = "held"
                              THEN [Landed(plans[p], at) EXCEPT !.results = @ \cup {at},
                                                                !.values = @ \cup {at}]
                              ELSE Landed(plans[p], at)
    BY DEF Complete
  <1>3. /\ Key(plans[p], at) \in registered
        /\ completions' = [completions EXCEPT ![at] =
                              IF Advances(Flag(plans[p], at), @) THEN Flag(plans[p], at) ELSE @]
        /\ UNCHANGED <<scope, graph, registered, current>>
    BY DEF Complete
  <1>4. DOMAIN plans[p] = Fields
    BY <1>1 DEF Sound, IsPlan, Fields
  <1>5. Sound(plan)'
    <2> DEFINE done == IF plans[p].flight[at] = "held" THEN {at} ELSE {}
    <2>0. PICK landed : landed = Landed(plans[p], at)
      OBVIOUS
    <2>4. landed.flight = [b \in DOMAIN plans[p].flight \ {at} |-> plans[p].flight[b]]
      BY <1>4, <2>0 DEF Landed, Fields
    <2>5. DOMAIN landed = Fields
          /\ \A field \in Fields \ {"flight"} : landed[field] = plans[p][field]
      BY <1>4, <2>0, LandedKeeps
    <2>6. plan = IF plans[p].flight[at] = "held"
                 THEN [landed EXCEPT !.results = @ \cup {at}, !.values = @ \cup {at}]
                 ELSE landed
      BY <1>2, <2>0
    <2>1. DOMAIN plan = Fields /\ plan.results = plans[p].results \cup done
          /\ plan.values = plans[p].values \cup done
          /\ plan.failures = plans[p].failures
          /\ \A field \in Fields \ {"results", "values", "failures", "flight"} :
                 plan[field] = plans[p][field]
      <3>1. CASE plans[p].flight[at] = "held"
        BY <2>5, <2>6, <3>1 DEF Fields
      <3>2. CASE plans[p].flight[at] # "held"
        BY <2>5, <2>6, <3>2 DEF Fields
      <3> QED
        BY <3>1, <3>2
    <2>2. plan.flight = [b \in DOMAIN plans[p].flight \ {at} |-> plans[p].flight[b]]
      BY <2>4, <2>5, <2>6 DEF Fields
    <2>3. plans[p].failures \in 0 .. MaxFailures
      BY <1>1 DEF Sound, IsPlan
    <2>7. done \in SUBSET {at} /\ (done # {} => Key(plans[p], at) \in registered')
      BY <1>3
    <2>8. UNCHANGED <<scope, graph>> /\ registered \subseteq registered'
      BY <1>3
    <2> HIDE DEF done
    <2> QED
      BY <1>1, <2>1, <2>2, <2>3, <2>7, <2>8, LandSound, SMTT(60)
  <1>6. FlagsOK'
    <2>1. IsFlag(Flag(plans[p], at))
      BY <1>1, <1>3, FlagIsFlag DEF Sound
    <2> QED
      BY <1>3, <2>1 DEF UInv, FlagsOK, IsFlag
  <1> QED
    BY <1>2, <1>3, <1>5, <1>6, SoundStep DEF UInv, ActiveAncestry, ParentClosed, AncestorsRegistered

\* Looking a result up tells what is published at that instant.
LEMMA LookSound ==
    ASSUME UInv, NEW p \in Plans, NEW at \in Places, Inspect(p, at) \/ Lookup(p, at)
    PROVE  UInv'
  <1>1. /\ Started(p) /\ Sound(plans[p]) /\ at \in plans[p].contexts \X plans[p].nodes
        /\ UNCHANGED <<scope, graph, store>>
    BY FlightPlace DEF Inspect, Lookup
  <1>2. PICK stage \in {"described", "missing", "held", "lost"} :
            /\ Update(p, Staged(plans[p], at, stage))
            /\ stage \in {"described", "held", "lost"} => Key(plans[p], at) \in registered
    <2>1. CASE Inspect(p, at)
      BY <2>1 DEF Inspect, Available
    <2>2. CASE Lookup(p, at)
      <3>1. plans[p].flight[at] = "described" /\ at \in DOMAIN plans[p].flight
        BY <2>2 DEF Lookup, InFlight
      <3>2. Key(plans[p], at) \in registered
        BY <1>1, <3>1 DEF Sound
      <3> QED
        BY <2>2, <3>2 DEF Lookup
    <2> QED
      BY <2>1, <2>2
  <1>3. PICK plan : plan = Staged(plans[p], at, stage)
    OBVIOUS
  <1>4. registered' = registered /\ UNCHANGED <<scope, graph>>
    BY <1>1 DEF store
  <1>5. Sound(plan)'
    BY <1>1, <1>2, <1>3, <1>4, StageSound DEF Stages
  <1>6. FlagsOK' /\ AncestorsRegistered' /\ ActiveAncestry' /\ current' = current
    BY <1>1 DEF UInv, store, FlagsOK, IsFlag, AncestorsRegistered, ActiveAncestry, ParentClosed
  <1> QED
    BY <1>2, <1>3, <1>4, <1>5, <1>6, SoundStep DEF UInv

\* A worker computes on results its plan is done with.
LEMMA LoadSound ==
    ASSUME UInv, NEW p \in Plans, NEW at \in Places, LoadParents(p, at)
    PROVE  UInv'
  <1>1. /\ Started(p) /\ Sound(plans[p]) /\ at \in plans[p].contexts \X plans[p].nodes
        /\ ParentsAt(at) \subseteq plans[p].results
        /\ UNCHANGED <<scope, graph, store>>
    BY FlightPlace DEF LoadParents, Loadable
  <1>2. PICK staged : staged = Staged(plans[p], at, "computing")
    OBVIOUS
  <1>3. PICK plan : /\ plan = [staged EXCEPT !.values = @ \cup ParentsAt(at)]
                    /\ Update(p, plan)
    BY <1>2 DEF LoadParents
  <1>4. DOMAIN plans[p] = Fields
    BY <1>1 DEF Sound, IsPlan, Fields
  <1>5. DOMAIN staged = Fields
        /\ \A field \in Fields \ {"flight"} : staged[field] = plans[p][field]
    BY <1>2, <1>4, StagedKeeps
  <1>6. staged.flight = [b \in DOMAIN plans[p].flight \cup {at} |->
                            IF b = at THEN "computing" ELSE plans[p].flight[b]]
    BY <1>2, <1>4 DEF Staged, Fields
  <1>7. DOMAIN plan = Fields
        /\ \A field \in Fields \ {"flight", "values"} : plan[field] = plans[p][field]
    BY <1>3, <1>5 DEF Fields
  <1>8. plan.flight = staged.flight /\ plan.values = plans[p].values \cup ParentsAt(at)
    BY <1>3, <1>5 DEF Fields
  <1>9. /\ plan.results = plans[p].results /\ plan.failures = plans[p].failures
        /\ plan.contexts = plans[p].contexts /\ plan.nodes = plans[p].nodes
    BY <1>7 DEF Fields
  <1>10. plan.values \subseteq plan.results /\ plan.failures \in 0 .. MaxFailures
    BY <1>1, <1>8, <1>9 DEF Sound, IsPlan
  <1>11. DOMAIN plan = DOMAIN plans[p]
         /\ \A field \in DOMAIN plan \ {"results", "values", "flight", "failures"} :
                plan[field] = plans[p][field]
    BY <1>4, <1>7
  <1>12. /\ DOMAIN plan.flight \subseteq DOMAIN plans[p].flight \cup {at}
         /\ \A b \in DOMAIN plan.flight \ {at} : plan.flight[b] = plans[p].flight[b]
         /\ plan.flight[at] = "computing"
    BY <1>6, <1>8
  <1>13. registered' = registered /\ UNCHANGED <<scope, graph>>
    BY <1>1 DEF store
  <1>14. Sound(plan)'
    BY <1>1, <1>9, <1>10, <1>11, <1>12, <1>13, WorkSound DEF Stages
  <1>15. FlagsOK' /\ AncestorsRegistered' /\ ActiveAncestry' /\ current' = current
    BY <1>1 DEF UInv, store, FlagsOK, IsFlag, AncestorsRegistered, ActiveAncestry, ParentClosed
  <1> QED
    BY <1>3, <1>13, <1>14, <1>15, SoundStep DEF UInv

\* Admission, refusal and failure put a node in flight or take it out.
LEMMA GiveUpSound ==
    ASSUME UInv, NEW p \in Plans, NEW at \in Places,
           Admit(p, at) \/ Refuse(p, at) \/ Interrupt(p, at)
    PROVE  UInv'
  <1>1. /\ Started(p) /\ Sound(plans[p]) /\ at \in plans[p].contexts \X plans[p].nodes
        /\ UNCHANGED <<scope, graph, store>>
    <2>1. CASE Admit(p, at)
      BY <2>1 DEF Admit, Open, Started, Ready, UInv
    <2>2. CASE Refuse(p, at) \/ Interrupt(p, at)
      BY <2>2, FlightPlace DEF Refuse, Interrupt
    <2> QED
      BY <2>1, <2>2
  <1>2. registered' = registered /\ UNCHANGED <<scope, graph>>
    BY <1>1 DEF store
  <1>3. DOMAIN plans[p] = Fields /\ plans[p].failures \in 0 .. MaxFailures
    BY <1>1 DEF Sound, IsPlan, Fields
  <1>4. PICK landed : landed = Landed(plans[p], at)
    OBVIOUS
  <1>5. DOMAIN landed = Fields
        /\ \A field \in Fields \ {"flight"} : landed[field] = plans[p][field]
    BY <1>3, <1>4, LandedKeeps
  <1>6. landed.flight = [b \in DOMAIN plans[p].flight \ {at} |-> plans[p].flight[b]]
    BY <1>3, <1>4 DEF Landed, Fields
  <1>9. PICK none \in SUBSET {at} : none = {}
    OBVIOUS
  <1>7. PICK plan : Update(p, plan) /\ Sound(plan)'
    <2>1. CASE Admit(p, at)
      <3>1. PICK plan : plan = Staged(plans[p], at, "admitted") /\ Update(p, plan)
        BY <2>1 DEF Admit
      <3> QED
        BY <1>1, <1>2, <3>1, StageSound DEF Stages
    <2>2. CASE Refuse(p, at)
      <3>1. Update(p, landed)
        BY <1>4, <2>2 DEF Refuse
      <3>2. landed.failures \in 0 .. MaxFailures
        BY <1>3, <1>5 DEF Fields
      <3>3. landed.results = plans[p].results \cup none /\ landed.values = plans[p].values \cup none
        BY <1>5, <1>9 DEF Fields
      <3>5. \A field \in Fields \ {"results", "values", "failures", "flight"} :
                landed[field] = plans[p][field]
        BY <1>5
      <3>4. Sound(landed)'
        BY <1>1, <1>2, <1>5, <1>6, <1>9, <3>2, <3>3, <3>5, LandSound, SMTT(60)
      <3> QED
        BY <3>1, <3>4
    <2>3. CASE Interrupt(p, at)
      <3>1. PICK plan : plan = [landed EXCEPT !.failures = @ + 1] /\ Update(p, plan)
        BY <1>4, <2>3 DEF Interrupt
      <3>2. DOMAIN plan = Fields /\ plan.failures = plans[p].failures + 1
            /\ \A field \in Fields \ {"flight", "failures"} : plan[field] = plans[p][field]
        BY <1>5, <3>1 DEF Fields
      <3>3. plans[p].failures < MaxFailures /\ MaxFailures \in Nat
        BY <2>3, BoundsAssumption DEF Interrupt
      <3>4. plan.failures \in 0 .. MaxFailures
        BY <1>3, <3>2, <3>3
      <3>5. plan.results = plans[p].results \cup none /\ plan.values = plans[p].values \cup none
        BY <1>9, <3>2 DEF Fields
      <3>8. \A field \in Fields \ {"results", "values", "failures", "flight"} :
                plan[field] = plans[p][field]
        BY <3>2
      <3>6. plan.flight = [b \in DOMAIN plans[p].flight \ {at} |-> plans[p].flight[b]]
        BY <1>5, <1>6, <3>1 DEF Fields
      <3>9. DOMAIN plan = Fields
        BY <3>2
      <3>7. Sound(plan)'
        BY <1>1, <1>2, <1>9, <3>4, <3>5, <3>6, <3>8, <3>9, LandSound, SMTT(60)
      <3> QED
        BY <3>1, <3>7
    <2> QED
      BY <2>1, <2>2, <2>3
  <1>8. FlagsOK' /\ AncestorsRegistered' /\ ActiveAncestry' /\ current' = current
    BY <1>1 DEF UInv, store, FlagsOK, IsFlag, AncestorsRegistered, ActiveAncestry, ParentClosed
  <1> QED
    BY <1>2, <1>7, <1>8, SoundStep DEF UInv

\* Opening, publishing and abandoning settle a plan.
LEMMA EndSound ==
    ASSUME UInv, NEW p \in Plans, FinishPlanning(p) \/ PublishUpdate(p) \/ Abandon(p)
    PROVE  UInv'
  <1>1. Started(p) /\ Sound(plans[p])
    BY DEF FinishPlanning, PublishUpdate, Abandon, Unfinished, UInv
  <1>2. DOMAIN plans[p] = Fields
    BY <1>1 DEF Sound, IsPlan, Fields
  <1>3. CASE FinishPlanning(p)
    <2> DEFINE step == IF Fenced(plans[p]) THEN "open" ELSE "closed"
    <2>1. PICK plan : plan = [plans[p] EXCEPT !.step = step] /\ Update(p, plan)
      BY <1>3 DEF FinishPlanning
    <2>2. step \in Steps
      BY DEF Steps
    <2> HIDE DEF step
    <2>3. /\ DOMAIN plan = DOMAIN plans[p] /\ plan.step = step
          /\ \A field \in Fields \ {"step"} : plan[field] = plans[p][field]
      BY <1>2, <2>1 DEF Fields
    <2>4. plan.unread = plans[p].unread /\ plan.values = plans[p].values
          /\ plan.flight = plans[p].flight
      BY <2>3 DEF Fields
    <2>5. UNCHANGED <<scope, graph, store>>
      BY <1>3 DEF FinishPlanning
    <2> QED
      BY <1>1, <1>2, <2>1, <2>2, <2>3, <2>4, <2>5, SettleSound
  <1>4. CASE PublishUpdate(p)
    <2>1. PICK plan : plan = [plans[p] EXCEPT !.step = "published"] /\ Update(p, plan)
      BY <1>4 DEF PublishUpdate
    <2>2. /\ DOMAIN plan = DOMAIN plans[p] /\ plan.step = "published"
          /\ \A field \in Fields \ {"step"} : plan[field] = plans[p][field]
      BY <1>2, <2>1 DEF Fields
    <2>3. UNCHANGED <<scope, graph, registered, completions>>
      BY <1>4 DEF PublishUpdate
    <2>4. IsPlan(plan)
      BY <1>1, <1>2, <2>2 DEF Sound, IsPlan, Steps, Fields
    <2>5. \A at : Key(plan, at) = Key(plans[p], at)
      BY <2>2 DEF Key, Fields
    <2>6. Sound(plan)
      BY <1>1, <1>2, <2>2, <2>4, <2>5 DEF Sound, Fenced, Fields
    <2>7. Sound(plan)'
      BY <2>3, <2>6 DEF Sound, Fenced, IsPlan
    <2>8. FlagsOK' /\ AncestorsRegistered' /\ ActiveAncestry'
      BY <2>3 DEF UInv, FlagsOK, IsFlag, AncestorsRegistered, ActiveAncestry, ParentClosed
    <2>9. current' \in Plans \cup {None}
      BY <1>4 DEF PublishUpdate, UInv
    <2> QED
      BY <2>1, <2>3, <2>7, <2>8, <2>9, SoundStep DEF UInv
  <1>5. CASE Abandon(p)
    <2>1. PICK plan : /\ Update(p, plan)
                      /\ plan = [plans[p] EXCEPT !.step = "closed", !.unread = {}, !.values = {},
                                                 !.flight = [at \in {} |-> None]]
      BY <1>5 DEF Abandon
    <2>2. /\ DOMAIN plan = DOMAIN plans[p] /\ plan.step \in Steps
          /\ plan.unread = {} /\ plan.values = {} /\ DOMAIN plan.flight = {}
          /\ \A field \in Fields \ {"step", "unread", "values", "flight"} :
                 plan[field] = plans[p][field]
      BY <1>2, <2>1 DEF Fields, Steps
    <2>3. UNCHANGED <<scope, graph, store>>
      BY <1>5 DEF Abandon
    <2> QED
      BY <1>1, <1>2, <2>1, <2>2, <2>3, SettleSound
  <1> QED
    BY <1>3, <1>4, <1>5

\* A change of the graph outdates every plan frozen before it.
LEMMA GraphSound == UInv /\ ChangeGraph => UInv'
  <1> SUFFICES ASSUME UInv, ChangeGraph PROVE UInv'
    OBVIOUS
  <1>1. UNCHANGED <<scope, store, plans, preview>> /\ RegistryNext
    BY DEF ChangeGraph
  <1>2. /\ IsGraph(graph')
        /\ \/ /\ graph'.revision = graph.revision + 1
              /\ graph'.stateRevision = graph.stateRevision
           \/ /\ graph'.revision = graph.revision
              /\ graph'.stateRevision = graph.stateRevision + 1
    BY <1>1, RegistryStep DEF UInv, GraphTypeOK
  <1>3. ActiveAncestry'
    BY <1>1, ActiveAncestryStep DEF UInv, GraphTypeOK
  <1>4. ASSUME NEW p \in Plans, Started(p)' PROVE Sound(plans[p])'
    <2>1. Started(p) /\ Sound(plans[p])
      BY <1>1, <1>4 DEF Started, UInv
    <2>2. /\ plans[p].state.revision \in Nat /\ plans[p].state.stateRevision \in Nat
          /\ graph.revision \in Nat /\ graph.stateRevision \in Nat
      BY <2>1 DEF Sound, IsPlan, IsGraph, GraphStates, UInv
    <2>3. /\ plans[p].state.revision <= graph'.revision
          /\ plans[p].state.stateRevision <= graph'.stateRevision
          /\ Revisions(plans[p].state) # Revisions(graph')
      BY <1>2, <2>1, <2>2 DEF Sound, Revisions
    <2> QED
      BY <1>1, <2>1, <2>3 DEF Sound, Fenced, IsPlan, store
  <1>5. FlagsOK' /\ AncestorsRegistered'
    BY <1>1 DEF UInv, store, FlagsOK, IsFlag, AncestorsRegistered
  <1> QED
    BY <1>1, <1>2, <1>3, <1>4, <1>5 DEF UInv, store

\* Retirement takes flags away and leaves rows.
LEMMA ReleaseSound == UInv /\ (Release \/ UNCHANGED vars) => UInv'
  <1> SUFFICES ASSUME UInv, Release \/ UNCHANGED vars PROVE UInv'
    OBVIOUS
  <1>1. UNCHANGED <<scope, graph, registered, current, plans>>
    BY DEF Release, PreviewRelease, ApplyRelease, vars, store
  <1>2. \/ completions' = completions
        \/ completions' = [at \in Places |->
                              IF completions[at] # None
                                 /\ completions[at].identity \in preview.selected
                              THEN None ELSE completions[at]]
    BY DEF Release, PreviewRelease, ApplyRelease, vars, store
  <1>3. FlagsOK'
    BY <1>1, <1>2 DEF UInv, FlagsOK, IsFlag
  <1>4. ASSUME NEW p \in Plans, Started(p)' PROVE Sound(plans[p])'
    <2>1. Started(p) /\ Sound(plans[p])
      BY <1>1, <1>4 DEF Started, UInv
    <2> QED
      BY <1>1, <2>1 DEF Sound, Fenced, IsPlan
  <1>5. AncestorsRegistered' /\ ActiveAncestry'
    BY <1>1 DEF UInv, AncestorsRegistered, ActiveAncestry, ParentClosed
  <1> QED
    BY <1>1, <1>3, <1>4, <1>5 DEF UInv

LEMMA UInvStep == UInv /\ [Next]_vars => UInv'
  <1> SUFFICES ASSUME UInv, [Next]_vars PROVE UInv'
    OBVIOUS
  <1>1. ASSUME NEW p \in Plans, Plan(p) PROVE UInv'
    BY <1>1, FreezeSound, AdoptSound, EndSound DEF Plan
  <1>2. ASSUME NEW p \in Plans, NEW at \in Places, Execute(p, at) PROVE UInv'
    BY <1>2, GiveUpSound, LookSound, LoadSound, PublishSound, CompleteSound
    DEF Execute, Advance
  <1>3. ASSUME NEW p \in Plans, PublishUpdate(p) \/ Abandon(p) PROVE UInv'
    BY <1>3, EndSound
  <1> QED
    BY <1>1, <1>2, <1>3, GraphSound, ReleaseSound DEF Next

LEMMA UInvInit == Init => UInv
  <1> SUFFICES ASSUME Init PROVE UInv
    OBVIOUS
  <1> DEFINE g == Grown(EmptyGraph, StartOutputs)
  <1>1. IsGraph(g) /\ g.spec = Ancestry(StartOutputs)
    <2>1. EmptyGraph.spec = {}
      BY DEF EmptyGraph
    <2>2. StartOutputs \in SUBSET Nodes
      BY StartAssumption
    <2>3. /\ IsGraph(Grown(EmptyGraph, StartOutputs))
          /\ Grown(EmptyGraph, StartOutputs).spec = EmptyGraph.spec \cup Ancestry(StartOutputs)
      BY <2>2, EmptyGraphIsGraph, GrownFields
    <2> QED
      BY <2>1, <2>3
  <1>2. g.statuses = [n \in Ancestry(StartOutputs) |-> "active"]
    <2>1. EmptyGraph.spec = {}
      BY DEF EmptyGraph
    <2> QED
      BY <2>1, EmptyGraphIsGraph, GrownStatuses
  <1>3. ParentClosed(Ancestry(StartOutputs))
    BY StartAssumption, AncestryClosed
  <1>4. Cardinality(DOMAIN StartContexts) \in Nat
    BY StartAssumption, FS_CardinalityType
  <1> HIDE DEF g
  <1>5. graph = [g EXCEPT !.contexts = StartContexts,
                          !.revision = 1 + Cardinality(DOMAIN StartContexts)]
    BY DEF Init, StartGraph, g
  <1>7. /\ graph.spec = g.spec /\ graph.statuses = g.statuses
        /\ graph.outputs = g.outputs /\ graph.stateRevision = g.stateRevision
        /\ graph.contexts = StartContexts
        /\ graph.revision = 1 + Cardinality(DOMAIN StartContexts)
        /\ graph \in [{"spec", "outputs", "statuses", "contexts", "revision",
                       "stateRevision"} -> {graph[f] : f \in DOMAIN graph}]
    BY <1>1, <1>5 DEF IsGraph, GraphStates
  <1>6. IsGraph(graph)
    <2>1. graph.revision \in Nat
      BY <1>4, <1>7
    <2>2. graph \in GraphStates
      BY <1>1, <1>7, <2>1, StartAssumption DEF IsGraph, GraphStates
    <2> QED
      BY <1>1, <1>7, <2>2 DEF IsGraph
  <1>8. ActiveAncestry
    BY <1>1, <1>2, <1>3, <1>7 DEF ActiveAncestry, ParentClosed
  <1>9. \A p \in Plans : ~ Started(p)
    BY DEF Init, Started, Unplanned
  <1> QED
    BY <1>6, <1>8, <1>9 DEF Init, UInv, FlagsOK, AncestorsRegistered

-----------------------------------------------------------------------------
(* What follows. *)

\* No result exists without the results it was computed from.
THEOREM UpdatesAncestorsRegistered == Spec => []AncestorsRegistered
  <1>1. UInv => AncestorsRegistered
    BY DEF UInv
  <1> QED
    BY <1>1, UInvInit, UInvStep, PTL DEF Spec

\* Only a commit adds a receipt, and it adds its own.
LEMMA NewReceipt ==
    ASSUME [Next]_vars, NEW p \in receipts' \ receipts
    PROVE  p \in Plans /\ PublishUpdate(p)
  <1>1. PICK q \in Plans : PublishUpdate(q)
    BY OnlyPublicationMoves
  <1>2. receipts' = receipts \cup {q}
    BY <1>1 DEF PublishUpdate
  <1> QED
    BY <1>1, <1>2

\* An update becomes visible only while it is exactly what the graph asks for.
THEOREM UpdatesMatchTheirGraph == Spec => UpdatesMatchGraph
  <1> DEFINE Matches ==
        \A p \in receipts' \ receipts :
         LET plan == plans[p] IN
         /\ \A at \in plan.results :
                /\ at[2] \in ActiveNodes
                /\ Key(plan, at) \in Available
                /\ Key(plan, at).definition = graph.contexts[at[1]]
                /\ \A n \in Parents[at[2]] \cap Operators : <<at[1], n>> \in plan.results
         /\ plan.mode = "global" =>
                plan.results = (DOMAIN graph.contexts) \X (ActiveNodes \cap Operators)
  <1>1. UInv /\ [Next]_vars => [Matches]_vars
    <2> SUFFICES ASSUME UInv, [Next]_vars, NEW p \in receipts' \ receipts
                 PROVE  /\ \A at \in plans[p].results :
                              /\ at[2] \in ActiveNodes
                              /\ Key(plans[p], at) \in Available
                              /\ Key(plans[p], at).definition = graph.contexts[at[1]]
                              /\ \A n \in Parents[at[2]] \cap Operators :
                                    <<at[1], n>> \in plans[p].results
                        /\ plans[p].mode = "global" =>
                              plans[p].results =
                                 (DOMAIN graph.contexts) \X (ActiveNodes \cap Operators)
      OBVIOUS
    <2>1. p \in Plans /\ PublishUpdate(p)
      BY NewReceipt
    <2>2. Started(p) /\ Finished(plans[p]) /\ Fenced(plans[p]) /\ Covers(plans[p])
      BY <2>1 DEF PublishUpdate
    <2>3. \A at \in plans[p].results : at[2] \in ActiveNodes /\ Key(plans[p], at) \in Available
      BY <2>1 DEF PublishUpdate
    <2>4. Sound(plans[p]) /\ plans[p].state = graph
      BY <2>1, <2>2 DEF UInv, Sound
    <2>5. \A at : Key(plans[p], at).definition = graph.contexts[at[1]]
      BY <2>4 DEF Key
    <2>6. plans[p].results = plans[p].contexts \X plans[p].nodes
      BY <2>2 DEF Finished
    <2>7. ASSUME NEW at \in plans[p].results, NEW n \in Parents[at[2]] \cap Operators
          PROVE  <<at[1], n>> \in plans[p].results
      BY <2>4, <2>6 DEF Sound, OperatorParents
    <2>8. plans[p].mode = "global" =>
              plans[p].results = (DOMAIN graph.contexts) \X (ActiveNodes \cap Operators)
      BY <2>2, <2>6 DEF Covers
    <2> QED
      BY <2>3, <2>5, <2>7, <2>8
  <1> QED
    BY <1>1, UInvInit, UInvStep, PTL DEF Spec, UpdatesMatchGraph

\* Only a completion writes a flag, where the stored one is no further.
LEMMA NewFlag ==
    ASSUME UInv, [Next]_vars, NEW at \in Places, completions'[at] \notin {completions[at], None}
    PROVE  \E p \in Plans : /\ Complete(p, at)
                             /\ completions'[at] = Flag(plans[p], at)
                             /\ Advances(Flag(plans[p], at), completions[at])
  <1>1. completions' # completions
    OBVIOUS
  <1>2. ~ Release
    BY DEF Release, PreviewRelease, ApplyRelease, store
  <1>3. PICK p \in Plans, b \in Places : Complete(p, b)
    <2>1. ~ UNCHANGED vars /\ ~ ChangeGraph
      BY <1>1 DEF vars, store, ChangeGraph
    <2>2. ASSUME NEW p \in Plans, Plan(p) PROVE FALSE
      BY <1>1, <2>2 DEF Plan, Freeze, Adopt, FinishPlanning, store
    <2>3. ASSUME NEW p \in Plans, PublishUpdate(p) \/ Abandon(p) PROVE FALSE
      BY <1>1, <2>3 DEF PublishUpdate, Abandon, store
    <2>4. ASSUME NEW p \in Plans, NEW b \in Places, Execute(p, b) PROVE Complete(p, b)
      BY <1>1, <2>4 DEF Execute, Admit, Advance, Inspect, Lookup, LoadParents, Publish,
                        Refuse, Interrupt, store
    <2> QED
      BY <1>2, <2>1, <2>2, <2>3, <2>4 DEF Next
  <1>4. completions' = [completions EXCEPT ![b] =
                           IF Advances(Flag(plans[p], b), @) THEN Flag(plans[p], b) ELSE @]
    BY <1>3 DEF Complete
  <1>5. b = at
    BY <1>4
  <1> QED
    BY <1>3, <1>4, <1>5 DEF UInv, FlagsOK

\* No late worker of an outdated plan marks work as done.
THEOREM FlagsMatchTheirGraph == Spec => FlagsMatchGraph
  <1>1. ASSUME UInv, [Next]_vars, NEW at \in Places,
               completions'[at] \notin {completions[at], None}
        PROVE  /\ at[2] \in ActiveNodes
               /\ completions'[at].identity.definition = graph.contexts[at[1]]
    <2>1. PICK p \in Plans : Complete(p, at) /\ completions'[at] = Flag(plans[p], at)
      BY <1>1, NewFlag
    <2>2. Started(p) /\ Fenced(plans[p]) /\ at[2] \in ActiveNodes
      BY <1>1, <2>1, FlightPlace DEF Complete
    <2>3. plans[p].state = graph
      BY <1>1, <2>2 DEF UInv, Sound
    <2> QED
      BY <2>1, <2>2, <2>3 DEF Flag, Key
  <1>2. UInv /\ [Next]_vars =>
          [\A at \in Places :
             completions'[at] \notin {completions[at], None} =>
                /\ at[2] \in ActiveNodes
                /\ completions'[at].identity.definition = graph.contexts[at[1]]]_vars
    BY <1>1
  <1> QED
    BY <1>2, UInvInit, UInvStep, PTL DEF Spec, FlagsMatchGraph

\* Flags never go back behind the boundary they stand at.
THEOREM FlagsOnlyAdvance == Spec => FlagsAdvance
  <1>1. ASSUME UInv, [Next]_vars, NEW at \in Places,
               None \notin {completions[at], completions'[at]}
        PROVE  /\ completions'[at].through >= completions[at].through
               /\ completions'[at].checked >= completions[at].checked
    <2>1. CASE completions'[at] = completions[at]
      <3>1. completions[at].through \in Nat /\ completions[at].checked \in Nat
        BY <1>1 DEF UInv, FlagsOK, IsFlag
      <3> QED
        BY <2>1, <3>1
    <2>2. CASE completions'[at] # completions[at]
      <3>1. PICK p \in Plans : /\ completions'[at] = Flag(plans[p], at)
                               /\ Advances(Flag(plans[p], at), completions[at])
        BY <1>1, <2>2, NewFlag
      <3> QED
        BY <1>1, <3>1 DEF Advances
    <2> QED
      BY <2>1, <2>2
  <1>2. UInv /\ [Next]_vars =>
          [\A at \in Places :
             None \notin {completions[at], completions'[at]} =>
                /\ completions'[at].through >= completions[at].through
                /\ completions'[at].checked >= completions[at].checked]_vars
    BY <1>1
  <1> QED
    BY <1>2, UInvInit, UInvStep, PTL DEF Spec, FlagsAdvance


-----------------------------------------------------------------------------
(* Retirement, and the type invariant. *)

\* closure() adds available rows to what it starts from, and its result names
\* every available source of what it contains.
LEMMA ReachClosed ==
    ASSUME NEW S
    PROVE  /\ S \subseteq Reach(S)
           /\ Reach(S) \subseteq S \cup Available
           /\ \A i \in Reach(S) : Sources(i) \cap Available \subseteq Reach(S)
  BY DEF Reach

\* What a release takes is available, and nothing that stays is made from it.
LEMMA SelectedIsClosed ==
    ASSUME NEW roots \in SUBSET Available, NEW retained \in SUBSET Available
    PROVE  /\ Selected(roots, retained) \subseteq Available
           /\ \A i \in Available \ Selected(roots, retained) :
                 Sources(i) \cap Available \cap Selected(roots, retained) = {}
  <1> DEFINE taken == Reach(roots)
             kept == Reach((Available \ taken) \cup retained)
  <1>1. Selected(roots, retained) = taken \ kept
    BY DEF Selected
  <1>2. taken \subseteq Available
    BY ReachClosed
  <1>3. /\ Available \ taken \subseteq kept
        /\ \A i \in kept : Sources(i) \cap Available \subseteq kept
    <2>1. PICK rest : rest = (Available \ taken) \cup retained
      OBVIOUS
    <2> QED
      BY <2>1, ReachClosed
  <1> HIDE DEF taken, kept
  <1> QED
    BY <1>1, <1>2, <1>3

\* A reviewed release is closed within the inventory it was reviewed over, and
\* was reviewed before the bound on releases.
Reviewed ==
    preview # None =>
        /\ preview.selected \subseteq preview.active
        /\ \A i \in preview.active \ preview.selected :
              Sources(i) \cap preview.active \cap preview.selected = {}
        /\ preview.epoch < scope.releases

\* Receipts name published plans, and the pointer a receipt.
Received ==
    /\ receipts \subseteq {p \in Plans : Started(p) /\ plans[p].step = "published"}
    /\ current \in receipts \cup {None}

\* The inductive invariant of the type invariant.
RInv ==
    /\ UInv /\ Reviewed /\ Received
    /\ retired \subseteq registered
    /\ epoch \in 0 .. MaxReleases

\* The bound of a behaviour is within the bound of the model.
LEMMA ReleasesBounded == scope \in Scopes => scope.releases \in 0 .. MaxReleases
  BY ScopesAssumption

\* Only a confirmed release retires rows, and only publication adds or revives
\* them.
LEMMA RowsMove ==
    ASSUME [Next]_vars
    PROVE  \/ ApplyRelease
           \/ /\ registered \subseteq registered' /\ retired' \subseteq retired
              /\ epoch' = epoch
  <1>1. CASE UNCHANGED vars \/ ChangeGraph
    BY <1>1 DEF vars, store, ChangeGraph
  <1>2. CASE Release
    BY <1>2 DEF Release, PreviewRelease, store
  <1>3. ASSUME NEW p \in Plans, Plan(p)
        PROVE  registered' = registered /\ retired' = retired /\ epoch' = epoch
    BY <1>3 DEF Plan, Freeze, Adopt, FinishPlanning, store
  <1>4. ASSUME NEW p \in Plans, NEW at \in Places, Execute(p, at)
        PROVE  registered \subseteq registered' /\ retired' \subseteq retired /\ epoch' = epoch
    BY <1>4 DEF Execute, Admit, Advance, Inspect, Lookup, LoadParents, Publish,
                Complete, Refuse, Interrupt, store
  <1>5. ASSUME NEW p \in Plans, PublishUpdate(p) \/ Abandon(p)
        PROVE  registered' = registered /\ retired' = retired /\ epoch' = epoch
    BY <1>5 DEF PublishUpdate, Abandon, store
  <1> QED
    BY <1>1, <1>2, <1>3, <1>4, <1>5 DEF Next

\* A release plan is made in one step and given up in another.
LEMMA PreviewMoves ==
    ASSUME [Next]_vars
    PROVE  /\ scope' = scope
           /\ \/ \E roots, retained \in SUBSET Available : PreviewRelease(roots, retained)
              \/ preview' = None
              \/ preview' = preview
  <1>1. CASE UNCHANGED vars \/ ChangeGraph
    BY <1>1 DEF vars, ChangeGraph
  <1>2. CASE Release
    BY <1>2 DEF Release, PreviewRelease, ApplyRelease
  <1>3. ASSUME NEW p \in Plans, Plan(p) PROVE UNCHANGED <<scope, preview>>
    BY <1>3 DEF Plan, Freeze, Adopt, FinishPlanning
  <1>4. ASSUME NEW p \in Plans, NEW at \in Places, Execute(p, at)
        PROVE  UNCHANGED <<scope, preview>>
    BY <1>4 DEF Execute, Admit, Advance, Inspect, Lookup, LoadParents, Publish,
                Complete, Refuse, Interrupt
  <1>5. ASSUME NEW p \in Plans, PublishUpdate(p) \/ Abandon(p)
        PROVE  UNCHANGED <<scope, preview>>
    BY <1>5 DEF PublishUpdate, Abandon
  <1> QED
    BY <1>1, <1>2, <1>3, <1>4, <1>5 DEF Next

LEMMA ReviewedStep ==
    ASSUME Reviewed, [Next]_vars
    PROVE  Reviewed'
  <1>1. ASSUME NEW roots \in SUBSET Available, NEW retained \in SUBSET Available,
               PreviewRelease(roots, retained)
        PROVE  Reviewed'
    <2>1. /\ preview' = [selected |-> Selected(roots, retained), active |-> Available,
                         epoch |-> epoch]
          /\ epoch < scope.releases /\ scope' = scope
      BY <1>1 DEF PreviewRelease
    <2>2. /\ preview'.selected = Selected(roots, retained)
          /\ preview'.active = Available /\ preview'.epoch = epoch
      BY <2>1
    <2> QED
      BY <2>1, <2>2, SelectedIsClosed DEF Reviewed
  <1>2. CASE preview' = None
    BY <1>2 DEF Reviewed
  <1>3. CASE preview' = preview /\ scope' = scope
    BY <1>3 DEF Reviewed
  <1> QED
    BY <1>1, <1>2, <1>3, PreviewMoves

\* A published plan stays published: only a repeated publication touches it.
LEMMA PublishedStays ==
    ASSUME UInv, [Next]_vars, NEW p \in Plans, Started(p), plans[p].step = "published"
    PROVE  Started(p)' /\ plans'[p].step = "published"
  <1>1. CASE UNCHANGED plans
    BY <1>1 DEF Started
  <1>2. UNCHANGED vars \/ ChangeGraph \/ Release => UNCHANGED plans
    BY DEF vars, ChangeGraph, Release, PreviewRelease, ApplyRelease
  <1>3. ASSUME NEW q \in Plans, NEW plan, q # p, Update(q, plan)
        PROVE  plans'[p] = plans[p]
    BY <1>3 DEF Update, UInv
  <1>4. ASSUME NEW q \in Plans, Plan(q) \/ Abandon(q)
        PROVE  q # p /\ \E plan : Update(q, plan)
    BY <1>4 DEF Plan, Freeze, Adopt, FinishPlanning, Abandon, Unfinished
  <1>5. ASSUME NEW q \in Plans, NEW at \in Places, Execute(q, at)
        PROVE  q # p /\ \E plan : Update(q, plan)
    BY <1>5 DEF Execute, Admit, Advance, Inspect, Lookup, LoadParents, Publish,
                Complete, Refuse, Interrupt, InFlight, Open
  <1>6. ASSUME NEW q \in Plans, PublishUpdate(q)
        PROVE  \/ q # p /\ \E plan : Update(q, plan)
               \/ Update(p, [plans[p] EXCEPT !.step = "published"])
    BY <1>6 DEF PublishUpdate
  <1>7. ASSUME Update(p, [plans[p] EXCEPT !.step = "published"])
        PROVE  Started(p)' /\ plans'[p].step = "published"
    <2>1. "step" \in DOMAIN plans[p]
      BY DEF UInv, Sound, IsPlan
    <2> QED
      BY <1>7, <2>1 DEF Update, UInv, Started
  <1> QED
    BY <1>1, <1>2, <1>3, <1>4, <1>5, <1>6, <1>7 DEF Next, Started

LEMMA ReceivedStep ==
    ASSUME UInv, Received, [Next]_vars
    PROVE  Received'
  <1>1. CASE UNCHANGED <<receipts, current>>
    BY <1>1, PublishedStays DEF Received
  <1>2. ASSUME NEW p \in Plans, PublishUpdate(p) PROVE Received'
    <2>1. /\ receipts' = receipts \cup {p} /\ current' \in {current, p}
          /\ Update(p, [plans[p] EXCEPT !.step = "published"]) /\ Started(p)
      BY <1>2 DEF PublishUpdate
    <2>2. "step" \in DOMAIN plans[p] /\ DOMAIN plans = Plans
      BY <2>1 DEF UInv, Sound, IsPlan
    <2>3. Started(p)' /\ plans'[p].step = "published"
      BY <2>1, <2>2 DEF Update, Started
    <2> QED
      BY <2>1, <2>3, PublishedStays DEF Received
  <1> QED
    BY <1>1, <1>2, OnlyPublicationMoves

LEMMA RInvStep == RInv /\ [Next]_vars => RInv'
  <1> SUFFICES ASSUME RInv, [Next]_vars PROVE RInv'
    OBVIOUS
  <1>1. UInv' /\ Reviewed' /\ Received'
    BY UInvStep, ReviewedStep, ReceivedStep DEF RInv
  <1>2. retired' \subseteq registered' /\ epoch' \in 0 .. MaxReleases
    <2>1. CASE ApplyRelease /\ SameInventory
      <3>1. /\ retired' = retired \cup preview.selected /\ registered' = registered
            /\ epoch' = epoch + 1 /\ preview # None
        BY <2>1 DEF ApplyRelease
      <3>2. preview.selected \subseteq registered
        BY <2>1, <3>1 DEF RInv, Reviewed, SameInventory, Available
      <3>3. epoch < scope.releases /\ scope.releases \in 0 .. MaxReleases
        BY <2>1, <3>1, ReleasesBounded DEF RInv, Reviewed, SameInventory, UInv
      <3> QED
        BY <3>1, <3>2, <3>3, BoundsAssumption DEF RInv
    <2>2. CASE ApplyRelease /\ ~ SameInventory
      BY <2>2 DEF ApplyRelease, RInv
    <2> QED
      BY <2>1, <2>2, RowsMove DEF RInv
  <1> QED
    BY <1>1, <1>2 DEF RInv

LEMMA RInvInit == Init => RInv
  BY UInvInit, BoundsAssumption DEF Init, RInv, Reviewed, Received

\* Rows refer to rows, plans are plans, and receipts name plans that were
\* published.
THEOREM UpdatesTypeCorrect == Spec => []TypeOK
  <1>1. RInv => TypeOK
    BY DEF RInv, UInv, Reviewed, Received, FlagsOK, Sound, TypeOK
  <1> QED
    BY <1>1, RInvInit, RInvStep, PTL DEF Spec

\* A source that was available does not go while what was made from it stays.
THEOREM ReleasesKeepAncestry == Spec => ReleaseKeepsAncestry
  <1>1. ASSUME RInv, [Next]_vars, NEW i \in (registered \ retired)'
        PROVE  Sources(i) \cap Available \subseteq (registered \ retired)'
    <2>1. CASE ApplyRelease /\ SameInventory
      <3>1. /\ (registered \ retired)' = Available \ preview.selected
            /\ preview.active = Available /\ preview # None
        BY <2>1 DEF ApplyRelease, SameInventory, Available
      <3> QED
        BY <1>1, <3>1 DEF RInv, Reviewed
    <2>2. CASE ApplyRelease /\ ~ SameInventory
      BY <2>2 DEF ApplyRelease, Available
    <2> QED
      BY <1>1, <2>1, <2>2, RowsMove DEF Available
  <1>2. RInv /\ [Next]_vars =>
          [\A i \in (registered \ retired)' :
              Sources(i) \cap Available \subseteq (registered \ retired)']_vars
    BY <1>1
  <1> QED
    BY <1>2, RInvInit, RInvStep, PTL DEF Spec, ReleaseKeepsAncestry
=============================================================================
