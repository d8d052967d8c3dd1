----------------------------- MODULE UpdatePlans -----------------------------
(***************************************************************************)
(* Persistent updates over one store: frozen plans, the nodes their caller *)
(* admits, completion flags, receipts and retirement, interleaved with     *)
(* mutations of the graph.                                                 *)
(*                                                                         *)
(* A plan freezes a snapshot of the graph and never re-reads it: every     *)
(* later step compares the two revision counters instead.  Numerical       *)
(* results are immutable and shared by identity, so plans meet only in the *)
(* materialization rows, the completion flags, the receipts and the        *)
(* current-version pointer.                                                *)
(*                                                                         *)
(* Graph mutations are the atomic operations of GraphRegistry, which       *)
(* GraphLifecycle implements.  Each plan persists every computed node; the *)
(* physical regions that keep some nodes transient are left out.           *)
(***************************************************************************)
EXTENDS GraphRegistry, FiniteSets

CONSTANTS
    Operators,      \* the computed nodes; the others are bound inputs
    StartOutputs,   \* outputs merged before the behaviour starts
    StartContexts,  \* contexts registered before it starts
    Versions,       \* versions of the bound input data
    Through,        \* version |-> its final session
    Cutoff,         \* definition |-> its information cutoff, or NoCutoff
    Plans,          \* update plans, each frozen at most once
    MaxFailures,    \* bound on the executions of one plan that fail
    MaxReleases,    \* bound on the retirements applied
    Scopes,         \* bounds of which every behaviour keeps to one
    None            \* no plan, no flag, no current version

NoCutoff == 0

ASSUME OperatorsAssumption ==
    Operators \subseteq Nodes /\ \A n \in Nodes \ Operators : Parents[n] = {}
ASSUME StartAssumption ==
    /\ StartOutputs \subseteq Nodes
    /\ StartContexts \in ContextMaps /\ IsFiniteSet(DOMAIN StartContexts)
ASSUME CalendarAssumption ==
    /\ Through \in [Versions -> Nat \ {NoCutoff}]
    /\ Cutoff \in [Definitions -> Nat]
ASSUME NoneAssumption == None \notin Plans
ASSUME BoundsAssumption == MaxFailures \in Nat /\ MaxReleases \in Nat
ASSUME ScopesAssumption ==
    Scopes \subseteq [contexts : SUBSET Contexts, versions : SUBSET Versions,
                      changes : 0 .. MaxChanges, releases : 0 .. MaxReleases]

VARIABLES
    scope,        \* which contexts, versions, changes and retirements occur
    registered,   \* materialization rows
    retired,      \* rows of materialization_releases
    completions,  \* node_completions
    receipts,     \* updates and update_results, by the plan that wrote them
    current,      \* the graph's current_update
    plans,        \* the UpdatePlan objects in memory
    preview,      \* a reviewed release plan in its owner's hands
    epoch         \* release plans applied

store == <<registered, retired, completions, receipts, current, epoch>>
vars == <<scope, graph, store, plans, preview>>

-----------------------------------------------------------------------------
(* Materializations. *)

\* A materialization key: the node, the content of the inputs below it, and
\* what its context was registered as.
Identities == [node : Operators, data : Versions, definition : Definitions]

Available == registered \ retired

\* Mutant: dependencies declared as panel parameters are forgotten.
NoOperatorParents(n) == {}

\* parents(node): what execution of n waits for and loads.
OperatorParents(n) == Parents[n] \cap Operators

\* The identities a key names as its computed inputs.
Sources(i) == {[i EXCEPT !.node = n] : n \in Parents[i.node] \cap Operators}

\* Mutant: the traversal names results retired before.
WholeAncestry(S) ==
    S \cup UNION {{[i EXCEPT !.node = n] : n \in Operators \cap Upstream[i.node]} : i \in S}

\* closure(): the least set with everything S is made from, following only
\* results still available.
Reach(S) ==
    LET within == S \cup Available
        closed == {T \in SUBSET within :
                      S \subseteq T /\ \A i \in T : Sources(i) \cap Available \subseteq T}
    IN  {i \in within : \A T \in closed : i \in T}

-----------------------------------------------------------------------------
(* Plans. *)

Modes == {"global", "branch"}
Steps == {"adopting", "open", "published", "closed"}
Stages == {"admitted", "described", "missing", "computing", "held", "lost"}
Places == Contexts \X Operators

IsPlan(plan) ==
    /\ DOMAIN plan = {"step", "mode", "state", "previous", "data", "contexts", "nodes",
                      "unread", "results", "values", "flight", "failures"}
    /\ plan.step \in Steps
    /\ plan.mode \in Modes
    /\ IsGraph(plan.state)
    /\ plan.previous \in Plans \cup {None}
    /\ plan.data \in Versions
    /\ plan.contexts \subseteq DOMAIN plan.state.contexts
    /\ plan.nodes \subseteq Operators \cap plan.state.spec
    /\ plan.unread \subseteq plan.contexts
    /\ plan.results \subseteq plan.contexts \X plan.nodes
    /\ plan.values \subseteq plan.results
    /\ DOMAIN plan.flight \subseteq plan.contexts \X plan.nodes
    /\ \A at \in DOMAIN plan.flight : plan.flight[at] \in Stages
    /\ plan.failures \in 0 .. MaxFailures

\* A plan nobody has frozen yet.
Unplanned == [step |-> "unplanned"]

Started(p) == plans[p].step # "unplanned"
Open(p) == Started(p) /\ plans[p].step = "open"
Unfinished(p) == Started(p) /\ plans[p].step \in {"adopting", "open"}

\* The frozen key of node at[2] in context at[1].
Key(plan, at) ==
    [node |-> at[2], data |-> plan.data, definition |-> plan.state.contexts[at[1]]]

\* Mutant: definition changes go unnoticed.
SameStateRevision(plan) == plan.state.stateRevision = graph.stateRevision

\* assert_revision, and the compare-and-set of every writer transaction.
Fenced(plan) == Revisions(plan.state) = Revisions(graph)

ActiveNodes == {n \in graph.spec : graph.statuses[n] = "active"}

Update(p, plan) == plans' = [plans EXCEPT ![p] = plan]

\* UpdatePlan.__init__, the snapshot: revisions, contexts and current version
\* in one transaction; then the nodes and contexts it is allowed to run.
Freeze(p, mode, contexts, roots, version) ==
    /\ ~ Started(p)
    /\ version \in scope.versions
    /\ contexts # {} /\ contexts \subseteq DOMAIN graph.contexts
    /\ \/ /\ mode = "global"
          /\ roots = {}
          /\ contexts = DOMAIN graph.contexts
       \/ /\ mode = "branch"
          /\ roots # {} /\ roots \subseteq graph.spec
          /\ Ancestry(roots) \subseteq ActiveNodes
    /\ LET nodes == IF mode = "global" THEN ActiveNodes ELSE Ancestry(roots) IN
       Update(p, [step |-> "adopting", mode |-> mode, state |-> graph,
                  previous |-> current, data |-> version, contexts |-> contexts,
                  nodes |-> nodes \cap Operators, unread |-> contexts,
                  results |-> {}, values |-> {}, flight |-> [at \in {} |-> None],
                  failures |-> 0])
    /\ UNCHANGED <<scope, graph, store, preview>>

\* The completion flags of one context, in a transaction of their own.  A
\* flag is adopted when it names this plan's own key at this plan's session.
UpToDate(plan, at) ==
    LET flag == completions[at] IN
    /\ flag # None
    /\ flag.identity = Key(plan, at)
    /\ flag.through = Through[plan.data]

Adopt(p, context) ==
    /\ Started(p)
    /\ plans[p].step = "adopting"
    /\ context \in plans[p].unread
    /\ LET plan == plans[p] IN
       Update(p, [plan EXCEPT
                    !.unread = @ \ {context},
                    !.results = @ \cup {at \in {context} \X plan.nodes : UpToDate(plan, at)}])
    /\ UNCHANGED <<scope, graph, store, preview>>

\* The constructor's closing guard.
FinishPlanning(p) ==
    /\ Started(p)
    /\ plans[p].step = "adopting"
    /\ plans[p].unread = {}
    /\ Update(p, [plans[p] EXCEPT !.step = IF Fenced(plans[p]) THEN "open" ELSE "closed"])
    /\ UNCHANGED <<scope, graph, store, preview>>

-----------------------------------------------------------------------------
(* Execution of one node of an open plan, by a worker of its caller. *)

InFlight(p, at, stages) ==
    /\ Open(p)
    /\ at \in DOMAIN plans[p].flight
    /\ plans[p].flight[at] \in stages

Staged(plan, at, stage) ==
    [plan EXCEPT !.flight = [b \in DOMAIN @ \cup {at} |-> IF b = at THEN stage ELSE @[b]]]

\* Mutant: the locator stays in flight.
LeftInFlight(plan, at) == plan

Landed(plan, at) ==
    [plan EXCEPT !.flight = [b \in DOMAIN @ \ {at} |-> @[b]]]

\* ready(): neither done nor admitted, and every computed parent done.
Ready(plan) ==
    {at \in plan.contexts \X plan.nodes :
        /\ at \notin plan.results \cup DOMAIN plan.flight
        /\ \A n \in OperatorParents(at[2]) : <<at[1], n>> \in plan.results}

Admit(p, at) ==
    /\ Open(p)
    /\ Fenced(plans[p])
    /\ at \in Ready(plans[p])
    /\ Update(p, Staged(plans[p], at, "admitted"))
    /\ UNCHANGED <<scope, graph, store, preview>>

\* describe(): is the frozen key published already?
Inspect(p, at) ==
    /\ InFlight(p, at, {"admitted"})
    /\ LET plan == plans[p] IN
       Update(p, Staged(plan, at,
                    IF Key(plan, at) \in Available THEN "described" ELSE "missing"))
    /\ UNCHANGED <<scope, graph, store, preview>>

\* lookup(), in a transaction of its own: nothing holds the row in between.
Lookup(p, at) ==
    /\ InFlight(p, at, {"described"})
    /\ LET plan == plans[p] IN
       Update(p, Staged(plan, at, IF Key(plan, at) \in Available THEN "held" ELSE "lost"))
    /\ UNCHANGED <<scope, graph, store, preview>>

ParentsAt(at) == {<<at[1], n>> : n \in OperatorParents(at[2])}

\* _load_saved_parents: values this plan holds, or can still look up.
Loadable(plan, at) ==
    /\ ParentsAt(at) = {} \/ Fenced(plan)
    /\ ParentsAt(at) \subseteq plan.results
    /\ \A b \in ParentsAt(at) \ plan.values : Key(plan, b) \in Available

LoadParents(p, at) ==
    /\ InFlight(p, at, {"missing"})
    /\ Loadable(plans[p], at)
    /\ Update(p, [Staged(plans[p], at, "computing") EXCEPT !.values = @ \cup ParentsAt(at)])
    /\ UNCHANGED <<scope, graph, store, preview>>

\* CoreStore.publish of the computed result.  Another plan may have published
\* the same key meanwhile; a retired row becomes available again.
Publish(p, at) ==
    /\ InFlight(p, at, {"computing"})
    /\ registered' = registered \cup {Key(plans[p], at)}
    /\ retired' = retired \ {Key(plans[p], at)}
    /\ Update(p, Staged(plans[p], at, "held"))
    /\ UNCHANGED <<scope, graph, completions, receipts, current, epoch, preview>>

Flag(plan, at) ==
    [identity |-> Key(plan, at), through |-> Through[plan.data],
     checked |-> LET cutoff == Cutoff[plan.state.contexts[at[1]]] IN
                 IF cutoff = NoCutoff THEN Through[plan.data] ELSE cutoff]

\* Mutant: the upsert always wins.
Replaces(flag, old) == TRUE

\* The WHERE clause of the upsert.
Advances(flag, old) ==
    old = None \/ (flag.through >= old.through /\ flag.checked >= old.checked)

\* complete_node, then the in-memory result.  The row must exist; whether it
\* is retired is not asked.  A lookup that found nothing fails only after the
\* flag is committed.
Complete(p, at) ==
    /\ InFlight(p, at, {"held", "lost"})
    /\ LET plan == plans[p]
           flag == Flag(plan, at)
       IN  /\ Fenced(plan)
           /\ at[2] \in ActiveNodes
           /\ Key(plan, at) \in registered
           /\ completions' = [completions EXCEPT ![at] = IF Advances(flag, @) THEN flag ELSE @]
           /\ Update(p, IF plan.flight[at] = "held"
                         THEN [Landed(plan, at) EXCEPT !.results = @ \cup {at},
                                                       !.values = @ \cup {at}]
                         ELSE Landed(plan, at))
    /\ UNCHANGED <<scope, graph, registered, retired, receipts, current, epoch, preview>>

\* A guard, a missing parent or the fence of complete_node raises.
Refuse(p, at) ==
    /\ InFlight(p, at, Stages)
    /\ \/ ~ Fenced(plans[p])
       \/ plans[p].flight[at] = "missing" /\ ~ Loadable(plans[p], at)
    /\ Update(p, Landed(plans[p], at))
    /\ UNCHANGED <<scope, graph, store, preview>>

\* The computation, its cancellation check or its input loader raises.
Interrupt(p, at) ==
    /\ InFlight(p, at, Stages)
    /\ plans[p].failures < MaxFailures
    /\ Update(p, [Landed(plans[p], at) EXCEPT !.failures = @ + 1])
    /\ UNCHANGED <<scope, graph, store, preview>>

-----------------------------------------------------------------------------
(* Publication of the update, and the ways a plan ends. *)

Finished(plan) ==
    /\ DOMAIN plan.flight = {}
    /\ plan.results = plan.contexts \X plan.nodes

\* Mutant: the global pointer moves whatever it held.
AnyPointer(p) == TRUE

\* The compare-and-set on current_update: unmoved, or moved by this request.
Unmoved(p) ==
    plans[p].mode = "global" => current \in {plans[p].previous, p}

Covers(plan) ==
    plan.mode = "global" =>
        /\ plan.contexts = DOMAIN graph.contexts
        /\ plan.nodes = ActiveNodes \cap Operators

\* publish: commit_update in one writer transaction.  Repeating a publication
\* that took effect writes the same rows again.
PublishUpdate(p) ==
    /\ Started(p)
    /\ plans[p].step \in {"open", "published"}
    /\ LET plan == plans[p] IN
       /\ Finished(plan)
       /\ Fenced(plan)
       /\ Unmoved(p)
       /\ Covers(plan)
       /\ \A at \in plan.results : at[2] \in ActiveNodes /\ Key(plan, at) \in Available
       /\ receipts' = receipts \cup {p}
       /\ current' = IF plan.mode = "global" THEN p ELSE current
       /\ Update(p, [plan EXCEPT !.step = "published"])
    /\ UNCHANGED <<scope, graph, registered, retired, completions, epoch, preview>>

\* A crash, or a caller that gives the plan up after a conflict: memory is
\* lost, every committed row stays.
Abandon(p) ==
    /\ Unfinished(p)
    /\ Update(p, [plans[p] EXCEPT !.step = "closed", !.unread = {}, !.values = {},
                                  !.flight = [at \in {} |-> None]])
    /\ UNCHANGED <<scope, graph, store, preview>>

-----------------------------------------------------------------------------
(* Retirement of results. *)

\* plan_release: the selected ancestry, except what any other available
\* result or a caller-retained root is made from.
Selected(roots, retained) ==
    Reach(roots) \ Reach((Available \ Reach(roots)) \cup retained)

PreviewRelease(roots, retained) ==
    /\ preview = None
    /\ epoch < scope.releases
    /\ roots # {} /\ roots \cup retained \subseteq Available
    /\ preview' = [selected |-> Selected(roots, retained), active |-> Available, epoch |-> epoch]
    /\ UNCHANGED <<scope, graph, store, plans>>

\* Mutant: the preview is applied as it was reviewed.
AsReviewed == TRUE

\* A second plan_release inside the transaction must give the same plan: the
\* selection is a function of what is available.
SameInventory == preview.active = Available /\ preview.epoch = epoch

ApplyRelease ==
    /\ preview # None
    /\ IF SameInventory
       THEN /\ retired' = retired \cup preview.selected
            /\ completions' = [at \in Places |->
                    IF completions[at] # None /\ completions[at].identity \in preview.selected
                    THEN None ELSE completions[at]]
            /\ epoch' = epoch + 1
       ELSE UNCHANGED <<retired, completions, epoch>>
    /\ preview' = None
    /\ UNCHANGED <<scope, graph, registered, receipts, current, plans>>

-----------------------------------------------------------------------------
StartGraph ==
    [Grown(EmptyGraph, StartOutputs) EXCEPT
        !.contexts = StartContexts,
        !.revision = 1 + Cardinality(DOMAIN StartContexts)]

Init ==
    /\ scope \in Scopes
    /\ graph = StartGraph
    /\ registered = {} /\ retired = {}
    /\ completions = [at \in Places |-> None]
    /\ receipts = {} /\ current = None
    /\ plans = [p \in Plans |-> Unplanned]
    /\ preview = None /\ epoch = 0

Plan(p) ==
    \/ \E mode \in Modes, contexts \in SUBSET Contexts, roots \in SUBSET Nodes, v \in Versions :
            Freeze(p, mode, contexts, roots, v)
    \/ \E context \in Contexts : Adopt(p, context)
    \/ FinishPlanning(p)

\* What the worker given at does next, failures apart.
Advance(p, at) ==
    \/ Inspect(p, at) \/ Lookup(p, at) \/ LoadParents(p, at)
    \/ Publish(p, at) \/ Complete(p, at) \/ Refuse(p, at)

Execute(p, at) == Admit(p, at) \/ Advance(p, at) \/ Interrupt(p, at)

ChangeGraph ==
    /\ graph.revision + graph.stateRevision < scope.changes
    /\ RegistryNext
    /\ DOMAIN graph'.contexts \subseteq scope.contexts
    /\ UNCHANGED <<scope, store, plans, preview>>

Release ==
    \/ \E roots, retained \in SUBSET Available : PreviewRelease(roots, retained)
    \/ ApplyRelease

Next ==
    \/ ChangeGraph
    \/ Release
    \/ \E p \in Plans :
            \/ Plan(p)
            \/ \E at \in Places : Execute(p, at)
            \/ PublishUpdate(p)
            \/ Abandon(p)

Spec == Init /\ [][Next]_vars

\* A caller that keeps going: it finishes planning, admits whatever is ready,
\* runs it to an end, and publishes.
CallerFairness(p) ==
    /\ WF_vars(\E context \in Contexts : Adopt(p, context))
    /\ WF_vars(FinishPlanning(p))
    /\ \A at \in Places : WF_vars(Admit(p, at)) /\ WF_vars(Advance(p, at))
    /\ WF_vars(PublishUpdate(p))

FairSpec == Spec /\ \A p \in Plans : CallerFairness(p)

-----------------------------------------------------------------------------
(* Correctness. *)

IsFlag(flag) ==
    /\ DOMAIN flag = {"identity", "through", "checked"}
    /\ flag.identity \in registered
    /\ {flag.through, flag.checked} \subseteq Nat \ {NoCutoff}

\* Rows refer to rows: what is retired or flagged was published, and what
\* an update consists of was planned.
TypeOK ==
    /\ scope \in Scopes
    /\ IsGraph(graph)
    /\ registered \subseteq Identities
    /\ retired \subseteq registered
    /\ \A at \in Places : completions[at] # None => IsFlag(completions[at])
    /\ \A p \in Plans : Started(p) => IsPlan(plans[p])
    /\ receipts \subseteq {p \in Plans : Started(p) /\ plans[p].step = "published"}
    /\ current \in receipts \cup {None}
    /\ preview # None => preview.selected \subseteq preview.active
    /\ epoch \in 0 .. MaxReleases

GlobalReceipts == {p \in receipts : plans[p].mode = "global"}

\* Global versions have one history: each is published over the version its
\* planner froze while that is still current, and once.  commit_update promises
\* it to planners who froze the same version and finish in any order, retry, or
\* publish branch updates in between.
History == INSTANCE VersionHistory WITH
    published <- GlobalReceipts,
    before <- [p \in GlobalReceipts |-> plans[p].previous]

HistorySpec == History!Spec

\* No result exists without the results it was computed from: a worker waits
\* for its computed parents, whichever plan published them, and an adopted
\* flag stands for the whole ancestry below it.
AncestorsRegistered == \A i \in registered : Sources(i) \subseteq registered

\* An update becomes visible only while it is exactly what the graph asks for:
\* available results of active nodes, under the definitions their contexts are
\* registered with now, closed under computed dependencies; a global one
\* covers every registered context and every active computed node.
UpdatesMatchGraph ==
    [][\A p \in receipts' \ receipts :
         LET plan == plans[p] IN
         /\ \A at \in plan.results :
                /\ at[2] \in ActiveNodes
                /\ Key(plan, at) \in Available
                /\ Key(plan, at).definition = graph.contexts[at[1]]
                /\ \A n \in Parents[at[2]] \cap Operators : <<at[1], n>> \in plan.results
         /\ plan.mode = "global" =>
                plan.results = (DOMAIN graph.contexts) \X (ActiveNodes \cap Operators)]_vars

\* A flag is written for an active node under the definition its context has
\* at that instant: no late worker of an outdated plan marks work as done.
FlagsMatchGraph ==
    [][\A at \in Places :
         completions'[at] \notin {completions[at], None} =>
            /\ at[2] \in ActiveNodes
            /\ completions'[at].identity.definition = graph.contexts[at[1]]]_vars

\* A historical update never takes a flag back behind the observation or
\* information boundary it stands at.
FlagsAdvance ==
    [][\A at \in Places :
         None \notin {completions[at], completions'[at]} =>
            /\ completions'[at].through >= completions[at].through
            /\ completions'[at].checked >= completions[at].checked]_vars

\* Retirement protects the ancestry of every result that stays: a source that
\* was available does not go while what was made from it remains.
ReleaseKeepsAncestry ==
    [][\A i \in (registered \ retired)' :
         Sources(i) \cap Available \subseteq (registered \ retired)']_vars

Overtaken(p) == Started(p) /\ (~ Fenced(plans[p]) \/ ~ Unmoved(p))

\* While neither the graph nor the current version moves under it, a plan its
\* caller keeps driving ends, failed executions included: ready() never runs
\* dry before the plan is complete, and a complete plan is accepted.
DrivenPlansEnd == \A p \in Plans : Unfinished(p) ~> ~ Unfinished(p) \/ Overtaken(p)

\* "Retired results leave lookup/candidate/completion inventories": no
\* completion flag names a retired result.
RetiredLeaveCompletions ==
    \A at \in Places : completions[at] # None => completions[at].identity \notin retired

=============================================================================
