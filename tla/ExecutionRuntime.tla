--------------------------- MODULE ExecutionRuntime ---------------------------
(***************************************************************************)
(* ExecutionRuntime.run of execution.py: the nodes of one graph are        *)
(* planned one by one, eager kernels run in a pool, and with a store every *)
(* planned node is published, several at a time.                           *)
(*                                                                         *)
(* With one worker the outputs ask for their nodes depth first, in the     *)
(* order of their numbers, and kernels run in place.  With more,           *)
(* _run_frontiers plans what is ready, defers eager work, and runs it in   *)
(* batches whose kernels end in any order and are merged in graph order.   *)
(*                                                                         *)
(* Sizes are in units of eight bytes per key of the Domain: five for a     *)
(* row, one for its trace.                                                 *)
(***************************************************************************)
EXTENDS SparsePlans

CONSTANTS
    Scenarios,       \* [graph, source, workers, headroom, durable, failures] to run
    HistorySessions, \* sessions of the history that reads are cut from
    PendingLimit,    \* units that may await publication
    ReuseRuntime     \* a retry uses the runtime of the failed run

ASSUME RuntimeAssumption == {PendingLimit, HistorySessions} \subseteq Nat \ {0} /\ ReuseRuntime \in BOOLEAN

\* Nodes come after their parents; only inputs have none.
IsGraph(g) ==
    /\ g.op \in Seq(STRING) /\ DOMAIN g.parents = DOMAIN g.op
    /\ \A n \in DOMAIN g.op :
          /\ g.parents[n] \in Seq(1 .. n - 1)
          /\ g.op[n] \in Inputs <=> g.parents[n] = <<>>
          /\ g.op[n] \in Scalable => Len(g.parents[n]) = 2
          /\ g.op[n] \in {"lag", "fillna", "constant"} => Len(g.parents[n]) = 1
ASSUME ScenariosAssumption ==
    \A s \in Scenarios :
        /\ IsGraph(s.graph) /\ s.durable \in BOOLEAN
        /\ s.workers \in Nat \ {0} /\ {s.headroom, s.failures} \subseteq Nat

ASSUME OperatorsAssumption ==
    \A s \in Scenarios : \A n \in DOMAIN s.graph.op : s.graph.op[n] \in Inputs \cup Operators

VARIABLES
    workers,     \* parallel_nodes
    headroom,    \* units that the inputs of one batch may take
    durable,     \* there is a materialization store
    failures,    \* times the run may yet fail
    phase,       \* "planning", "batching", "running", "done" or "failed"
    evaluated,   \* plans of this run by node
    pending,     \* plans to publish, in the order they were recorded
    loaded,      \* physical identities whose record this run has published or found
    stored,      \* records of the store: their plan and whether they have evidence
    evidence,    \* identities whose kernel's evidence this run holds
    cached,      \* plans that survive a run, by identity and by physical identity
    results,     \* kernels' frames by physical identity
    ready,       \* nodes to plan, in order
    waiting,     \* groups of deferred eager work, in order
    batch,       \* groups that run or are yet to merge, in order
    ended,       \* nodes of the batch whose kernel has returned
    recollected  \* nodes that were collected again though published

scenario == <<graph, source, workers, headroom, durable>>
store == <<pending, loaded, stored>>
schedule == <<ready, waiting, batch, ended>>
vars == <<scenario, failures, phase, evaluated, store, evidence, cached, results, schedule, recollected>>

-----------------------------------------------------------------------------
\* f, and g where f has nothing.
Over(f, g) == [x \in DOMAIN f \cup DOMAIN g |-> IF x \in DOMAIN f THEN f[x] ELSE g[x]]

Frontiers == workers > 1
Physical(n) == PhysicalIdentity[n]
Lazy == Planned \cup {"demean", "grouped"}
HasEvidence(n) == Op(n) = "extension"      \* its kernel saves an artifact

Bytes(ps) == 5 + (IF AnyTraced(ps) THEN 1 ELSE 0)
PendingBytes == 5 * Len(pending) + Cardinality({i \in DOMAIN pending : pending[i].traced})
IsPending(q) == \E i \in DOMAIN pending : pending[i].phys = q

\* What a published plan is replaced by.
Refresh(p) == IF p.phys \in loaded THEN [stored[p.phys].plan EXCEPT !.id = p.id] ELSE p
ParentPlans(n) == [i \in DOMAIN Parents(n) |-> Refresh(evaluated[Parents(n)[i]])]

\* Plans over a grid are cached, so that their users share one.
Shared(p) == IF p.id \in DOMAIN cached.own THEN cached.own[p.id] ELSE p
PreparedPlans(n, ps) ==
    [i \in DOMAIN ps |-> LET g == Prepared(n, ps[i]) IN IF g.id = ps[i].id THEN g ELSE Shared(g)]
Cache(plans) == Over([id \in {p.id : p \in plans} |-> CHOOSE p \in plans : p.id = id], cached.own)

\* Computations that collecting some plans would repeat.
Repeats(plans) == {m \in UNION {p.lineage : p \in plans} : Physical(m) \in loaded}

-----------------------------------------------------------------------------
(* Planning one node. *)

IsInput(n) == Op(n) \in Inputs

\* Too much awaits publication to record a plan of node n.
MustPublishWithoutEstimate(n) ==    \* only once the limit is passed
    /\ durable /\ ~IsInput(n) /\ pending # <<>>
    /\ PendingBytes > PendingLimit
MustPublish(n) ==
    /\ durable /\ ~IsInput(n) /\ pending # <<>>
    /\ PendingBytes + Bytes(ParentPlans(n)) > PendingLimit

NextNode == IF Frontiers THEN Head(ready) ELSE Min(Nodes \ DOMAIN evaluated)
Planning == phase = "planning" /\ (IF Frontiers THEN ready # <<>> ELSE DOMAIN evaluated # Nodes)
Asks(n) == Planning /\ n = NextNode /\ ~MustPublish(n)
Rest == IF Frontiers THEN Tail(ready) ELSE ready


\* Graph order.
InOrder(S) == [i \in 1 .. Cardinality(S) |-> CHOOSE n \in S : Cardinality({m \in S : m < n}) = i - 1]
\* The children that waited for n only are ready once n has a plan.
Released(n) ==
    InOrder({c \in Nodes : n \in ParentSet(c) /\ ParentSet(c) \subseteq DOMAIN evaluated \cup {n}})
Settle(n, p, rest) ==
    /\ evaluated' = Over([m \in {n} |-> p], evaluated)
    /\ ready' = IF Frontiers THEN rest \o Released(n) ELSE rest
Record(p) == pending' = IF durable /\ ~IsPending(p.phys) THEN Append(pending, p) ELSE pending

\* The store has a record of node n, of this run or an earlier one.
Hits(n) == durable /\ LET q == Physical(n) IN q \in loaded \/ (q \in DOMAIN stored /\ ~IsPending(q))
SettleStoredSilently(n, held, rest) ==    \* a hit that replays no evidence
    LET q == Physical(n) IN
    /\ Settle(n, [stored[q].plan EXCEPT !.id = <<n, "stored", "own">>], rest)
    /\ loaded' = loaded \cup {q}
    /\ evidence' = held
    /\ UNCHANGED <<pending, stored, cached, results>>
SettleStored(n, held, rest) ==
    LET q == Physical(n) IN
    /\ Settle(n, [stored[q].plan EXCEPT !.id = <<n, "stored", "own">>], rest)
    /\ loaded' = loaded \cup {q}
    /\ evidence' = IF q \in loaded THEN held
                   ELSE IF stored[q].evidence THEN held \cup {q} ELSE held \ {q}
    /\ UNCHANGED <<pending, stored, cached, results>>

\* Node n gets plan p over prepared parents ps.
SettlePlan(n, p, ps, rest) ==
    /\ Settle(n, p, rest)
    /\ Record(p)
    /\ cached' = [cached EXCEPT !.own = Cache(Range(ps) \cup {p}),
                               !.physical = IF Op(n) \in Lazy /\ p.id[2] = "own"
                                            THEN Over(@, [q \in {p.phys} |-> p]) ELSE @]
    /\ UNCHANGED <<loaded, stored>>

PlanInput(n) ==
    /\ Asks(n) /\ IsInput(n)
    /\ Settle(n, InputPlan(n), Rest)
    /\ UNCHANGED <<scenario, failures, phase, store, evidence, cached, results, waiting, batch, ended, recollected>>

PlanStored(n) ==
    /\ Asks(n) /\ ~IsInput(n) /\ Hits(n)
    /\ SettleStored(n, evidence, Rest)
    /\ UNCHANGED <<scenario, failures, phase, waiting, batch, ended, recollected>>

\* A form without a grid, or an expression over prepared parents: the plan of
\* an earlier attempt, or that of the same computation under another name.
LazyPlan(n, ps) ==
    LET own == GeneralPlan(n, ps)
        same == cached.physical[own.phys]
    IN  IF own.id \in DOMAIN cached.own THEN cached.own[own.id]
        ELSE IF own.phys \in DOMAIN cached.physical
             THEN [same EXCEPT !.id = own.id, !.traceId = own.traceId] ELSE own
PlanLazily(n) ==
    LET ps == ParentPlans(n)
        prepared == PreparedPlans(n, ps)
    IN  /\ Asks(n) /\ ~IsInput(n) /\ ~Hits(n)
        /\ IF Lowers(n, ps) THEN SettlePlan(n, Shared(Lowered(n, evaluated, ps)), <<>>, Rest)
           ELSE Op(n) \notin Eager /\ SettlePlan(n, LazyPlan(n, prepared), prepared, Rest)
        /\ UNCHANGED <<scenario, failures, phase, evidence, results, waiting, batch, ended, recollected>>

\* Eager work: its frame is at hand, is computed in place, or is deferred.
EagerPlan(n, ps) == Shared([GeneralPlan(n, ps) EXCEPT !.lineage = {}])
SettleEager(n, ps, rest) ==
    /\ SettlePlan(n, EagerPlan(n, ps), ps, rest)
    /\ results' = IF IsBuiltin(n) THEN results \cup {Physical(n)} ELSE results
Known(n, ps) == Physical(n) \in results \/ GeneralPlan(n, ps).id \in DOMAIN cached.own
AsksEager(n) == Asks(n) /\ Op(n) \in Eager /\ ~Hits(n)
Evidenced(n) == IF HasEvidence(n) THEN evidence \cup {Physical(n)} ELSE evidence

PlanKnown(n) ==
    LET ps == PreparedPlans(n, ParentPlans(n)) IN
    /\ AsksEager(n) /\ Known(n, ps)
    /\ SettleEager(n, ps, Rest)
    /\ UNCHANGED <<scenario, failures, phase, evidence, waiting, batch, ended, recollected>>

RunInPlace(n) ==
    LET ps == PreparedPlans(n, ParentPlans(n)) IN
    /\ AsksEager(n) /\ ~Known(n, ps) /\ ~Frontiers
    /\ SettleEager(n, ps, Rest)
    /\ evidence' = Evidenced(n)
    /\ recollected' = recollected \cup Repeats(Range(ps))
    /\ UNCHANGED <<scenario, failures, phase, waiting, batch, ended>>

\* Rank and percentile over one frame come from one kernel, and so do other operations of
\* the library that are the same computation.
IsRank(n) == Op(n) \in {"rank", "percentile"}
SameKernel(v, w) ==
    /\ IsBuiltin(v.node) /\ IsBuiltin(w.node)
    /\ IF IsRank(v.node) /\ IsRank(w.node) THEN v.prepared[1].id = w.prepared[1].id
       ELSE ~IsRank(v.node) /\ ~IsRank(w.node) /\ Physical(v.node) = Physical(w.node)
Defer(n) ==
    LET ps == PreparedPlans(n, ParentPlans(n))
        work == [node |-> n, prepared |-> ps]
        groups == {g \in DOMAIN waiting : SameKernel(Head(waiting[g]), work)}
    IN  /\ AsksEager(n) /\ ~Known(n, ps) /\ Frontiers
        /\ ready' = Rest
        /\ waiting' = IF groups = {} THEN Append(waiting, <<work>>)
                      ELSE [waiting EXCEPT ![Min(groups)] = Append(@, work)]
        /\ cached' = [cached EXCEPT !.own = Cache({p \in Range(ps) : Len(p.id) > 3})]
        /\ UNCHANGED <<scenario, failures, phase, evaluated, store, evidence, results, batch, ended, recollected>>

-----------------------------------------------------------------------------
(* Batches of deferred work. *)

Required(group) == 5 * (Len(Head(group).prepared) + 2)
BatchSizeByMemory ==    \* without regard to the number of workers
    Max({1} \cup {k \in DOMAIN waiting :
                     FoldSeq(LAMBDA g, sum : sum + Required(g), 0, SubSeq(waiting, 1, k)) <= headroom})
BatchSize ==
    Max({1} \cup {k \in 1 .. Min({workers, Len(waiting)}) :
                     FoldSeq(LAMBDA g, sum : sum + Required(g), 0, SubSeq(waiting, 1, k)) <= headroom})

\* What was published since the work was deferred is read, not computed again.
RefreshedNever(work) == work    \* runs what was captured when it was deferred
Refreshed(work) ==
    [work EXCEPT !.prepared = PreparedPlans(work.node, [i \in DOMAIN @ |-> Refresh(@[i])])]
StartBatch ==
    LET groups == [g \in 1 .. BatchSize |-> [i \in DOMAIN waiting[g] |-> Refreshed(waiting[g][i])]]
        prepared == UNION {Range(Head(groups[g]).prepared) : g \in DOMAIN groups}
    IN  /\ waiting # <<>>
        /\ phase = "batching" \/ (phase = "planning" /\ ready = <<>>)
        /\ phase' = "running"
        /\ batch' = groups
        /\ waiting' = SubSeq(waiting, BatchSize + 1, Len(waiting))
        /\ ended' = {}
        /\ cached' = [cached EXCEPT !.own = Cache(prepared)]
        /\ recollected' = recollected \cup Repeats(prepared)
        /\ UNCHANGED <<scenario, failures, evaluated, store, evidence, results, ready>>

KernelEnds(g) ==
    /\ phase = "running" /\ g \in DOMAIN batch
    /\ LET nodes == {batch[g][i].node : i \in DOMAIN batch[g]} IN
       nodes \cap ended = {} /\ ended' = ended \cup nodes
    /\ UNCHANGED <<scenario, failures, phase, evaluated, store, evidence, cached, results,
                   ready, waiting, batch, recollected>>

\* Kernels are merged in the order of their groups: evidence first, then the
\* node is planned again, which may find a record or a result by now.
DueToMerge(n) == phase = "running" /\ n = Head(Head(batch)).node /\ n \in ended
Merge(n) ==
    LET ps == PreparedPlans(n, ParentPlans(n))
        left == Tail(Head(batch))
        later == IF left = <<>> THEN Tail(batch) ELSE <<left>> \o Tail(batch)
    IN  /\ DueToMerge(n) /\ ~MustPublish(n)
        /\ batch' = later
        /\ phase' = IF later # <<>> THEN "running" ELSE IF waiting # <<>> THEN "batching" ELSE "planning"
        /\ IF Hits(n) THEN SettleStored(n, Evidenced(n), ready)
           ELSE SettleEager(n, ps, ready) /\ evidence' = Evidenced(n)
        /\ UNCHANGED <<scenario, failures, waiting, ended, recollected>>

-----------------------------------------------------------------------------
(* Publication, and the end of a run. *)

AllPlanned == phase = "planning" /\ ~Planning /\ waiting = <<>>
PublicationDue ==
    /\ durable /\ pending # <<>>
    /\ \/ Planning /\ MustPublish(NextNode)
       \/ phase = "running" /\ (LET n == Head(Head(batch)).node IN DueToMerge(n) /\ MustPublish(n))
       \/ AllPlanned

\* The records of the first k pending plans, collected together, saved one by one.
Saved(k) ==
    LET plan(q) == pending[CHOOSE i \in 1 .. k : pending[i].phys = q]
        record(q) == [plan |-> Frozen(plan(q), q), evidence |-> q \in evidence]
    IN  Over([q \in {pending[i].phys : i \in 1 .. k} |-> record(q)], stored)

\* Afterwards all plans read what was published, and caches are dropped.
NothingCached == [own |-> <<>>, physical |-> <<>>]
Publish ==
    LET identities == {pending[i].phys : i \in DOMAIN pending} IN
    /\ PublicationDue
    /\ stored' = Saved(Len(pending))
    /\ loaded' = loaded \cup identities
    /\ pending' = <<>>
    /\ evaluated' = [n \in DOMAIN evaluated |->
                        IF evaluated[n].phys \in loaded' THEN [stored'[evaluated[n].phys].plan EXCEPT !.id = evaluated[n].id]
                        ELSE evaluated[n]]
    /\ cached' = NothingCached /\ results' = {}
    /\ recollected' = recollected \cup Repeats(Range(pending))
    /\ UNCHANGED <<scenario, failures, phase, evidence, schedule>>

Finish ==
    /\ AllPlanned /\ (durable => pending = <<>>)
    /\ phase' = "done"
    /\ UNCHANGED <<scenario, failures, evaluated, store, evidence, cached, results, schedule, recollected>>

Running == phase \in {"planning", "batching", "running"}
\* A kernel raises, or the run is canceled.
Fail ==
    /\ Running /\ failures > 0
    /\ failures' = failures - 1 /\ phase' = "failed"
    /\ UNCHANGED <<scenario, evaluated, store, evidence, cached, results, schedule, recollected>>
\* The same between the records of one publication.
PublishPartly(k) ==
    /\ PublicationDue /\ failures > 0 /\ k < Len(pending)
    /\ stored' = Saved(k)
    /\ failures' = failures - 1 /\ phase' = "failed"
    /\ UNCHANGED <<scenario, evaluated, pending, loaded, evidence, cached, results, schedule, recollected>>

Started == IF Frontiers THEN InOrder({n \in Nodes : IsInput(n)}) ELSE <<>>
RunIsFresh ==
    /\ phase' = "planning" /\ evaluated' = <<>> /\ pending' = <<>> /\ loaded' = {}
    /\ evidence' = {} /\ results' = {} /\ recollected' = {}
    /\ ready' = Started /\ waiting' = <<>> /\ batch' = <<>> /\ ended' = {}
Retry ==
    /\ phase = "failed" /\ RunIsFresh
    /\ cached' = IF ReuseRuntime THEN cached ELSE NothingCached
    /\ UNCHANGED <<scenario, failures, stored>>

Ended == phase = "done" /\ UNCHANGED vars

-----------------------------------------------------------------------------
Init ==
    /\ \E s \in Scenarios :
          /\ graph = s.graph /\ source = s.source /\ workers = s.workers /\ headroom = s.headroom
          /\ durable = s.durable /\ failures = s.failures
    /\ phase = "planning" /\ evaluated = <<>> /\ pending = <<>> /\ loaded = {} /\ stored = <<>>
    /\ evidence = {} /\ cached = NothingCached /\ results = {} /\ recollected = {}
    /\ ready = Started /\ waiting = <<>> /\ batch = <<>> /\ ended = {}

Next ==
    \/ \E n \in Nodes : \/ PlanInput(n) \/ PlanStored(n) \/ PlanLazily(n)
                        \/ PlanKnown(n) \/ RunInPlace(n) \/ Defer(n) \/ Merge(n)
    \/ StartBatch \/ (\E g \in DOMAIN batch : KernelEnds(g))
    \/ Publish \/ (\E k \in DOMAIN pending : PublishPartly(k - 1))
    \/ Finish \/ Fail \/ Retry \/ Ended

Spec == Init /\ [][Next]_vars

-----------------------------------------------------------------------------
(* Properties. *)

\* What the operators' definitions give over the whole grid.
Denotes[n \in Nodes] ==
    IF IsInput(n) THEN OverGrid(Observed(n), Null)
    ELSE OverGrid(Apply(Op(n), [i \in DOMAIN Parents(n) |-> Denotes[Parents(n)[i]]]), Null)

\* The latest session at which an input of the value at a key was available.
\* A row without a value keeps the evidence of its own row.
Needs[n \in Nodes] ==
    LET own(i, k) == Needs[Parents(n)[i]][k]
        value(i, k) == Denotes[Parents(n)[i]][k]
        prior(i, k) == IF k[1] = 1 THEN 0 ELSE own(i, <<k[1] - 1, k[2]>>)
        before(k) == prior(1, k)
        session(k) == {j \in Grid : j[1] = k[1]}
        members(k) == {j \in session(k) : value(2, j) # Null /\ Label(value(2, j)) = Label(value(2, k))}
        needed(k) ==
            CASE IsInput(n) -> OrElse(At(Available(n), k), 0)
              [] Op(n) \in {"add", "sub"} -> Max({own(1, k), own(2, k)})
              [] Op(n) = "constant" -> 0
              [] Op(n) = "lag" -> before(k)
              [] Op(n) \in Windowed \cup {"diff", "repeated", "rank", "percentile"} -> Max({own(1, k), before(k)})
              [] Op(n) = "covariance" -> Max({own(i, k) : i \in {1, 2}} \cup {prior(i, k) : i \in {1, 2}})
              [] Op(n) = "regression" -> Max({before(k), own(2, k), prior(2, k)})
              [] Op(n) = "demean" -> Max({own(1, j) : j \in session(k)})
              [] Op(n) = "grouped" -> Max({own(1, j) : j \in members(k)} \cup {own(2, j) : j \in session(k)})
              [] Op(n) = "ffill" /\ value(1, k) = Null -> 0
              [] OTHER -> own(1, k)
    IN  [k \in Grid |-> IF Denotes[n][k] = Null THEN 0 ELSE needed(k)]

\* Types of the state.
TypeOK ==
    /\ phase \in {"planning", "batching", "running", "done", "failed"}
    /\ DOMAIN evaluated \subseteq Nodes /\ DOMAIN stored \subseteq Nodes
    /\ loaded \subseteq Nodes /\ evidence \subseteq Nodes /\ results \subseteq Nodes /\ ended \subseteq Nodes
    /\ ready \in Seq(Nodes) /\ Len(batch) <= workers /\ failures \in Nat
    /\ \A n \in DOMAIN evaluated : Range(evaluated[n].frame) \subseteq Int \cup {Null}

Plans == Range(evaluated) \cup Range(pending) \cup Range(cached.own)

\* A sparse plan, expanded over its Domain, is what the operators define over
\* whole frames: dropping rows, postponing defaults, moving keys, sharing plans,
\* reading published results back and collecting them beside each other never
\* changes a value.
SparseMeansDense ==
    /\ \A n \in DOMAIN evaluated : DenseOutput(evaluated[n]) = Denotes[n]
    /\ phase = "done" => \A n, owner \in Nodes : Presented(evaluated[owner], evaluated[n]) = Denotes[n]
    /\ \A q \in DOMAIN stored : DenseOutput(stored[q].plan) = Denotes[q]

\* What the runtime skips alignments, joins and sorts for is true: an exact plan
\* and its traces have every key, plans of one key identity the same keys and of
\* one trace identity the same traces, and the rows of an exact plan come in the
\* order that is claimed.
ClaimsHold ==
    \A p \in Plans :
        /\ p.exact => DOMAIN p.frame = Grid /\ (p.traced => DOMAIN p.traces = Grid)
        /\ p.exact /\ p.order # "none" => p.order = p.rows
        /\ \A r \in Plans :
            /\ p.keys = r.keys => DOMAIN p.frame = DOMAIN r.frame
            /\ p.traced /\ p.traceKeys = r.keys => DOMAIN p.traces = DOMAIN r.frame
            /\ p.traced /\ r.traced /\ p.traceId = r.traceId /\ p.traceKeys = r.traceKeys => p.traces = r.traces

\* No value is said to be available before an input that it was made of.
TracesCoverInputs ==
    \A n \in DOMAIN evaluated : LET whole == ExpandImplicit(evaluated[n]) IN
        whole.traced => \A k \in Grid : Needs[n][k] <= OrElse(At(whole.traces, k), 0)

\* A record is published with the evidence of the computation it holds, and a
\* run that ends has the evidence of every node, computed or found.
PublishedWithItsEvidence ==
    /\ \A q \in DOMAIN stored : HasEvidence(q) => stored[q].evidence
    /\ phase = "done" => \A n \in Nodes : HasEvidence(n) => Physical(n) \in evidence

\* What awaits publication never takes more than was set aside for it, unless
\* it is one plan that is larger; at the end nothing awaits it.
PendingIsBounded ==
    /\ Len(pending) > 1 => PendingBytes <= PendingLimit
    /\ phase = "done" /\ durable => \A n \in Nodes : IsInput(n) \/ Physical(n) \in DOMAIN stored

\* A longer history than the Domain's, as each node has it when only the rows
\* from one session on are read.  Every third observation is missing.
ReadSince(s) ==
    LET rows == (s .. HistorySessions) \X (1 .. AssetCount)
        sample(n, k) == IF (k[1] + k[2]) % 3 = 0 THEN Null ELSE 7 * n * k[2] + 5 * k[1] * k[1]
        frame[n \in Nodes] ==
            LET f == IF IsInput(n) THEN [k \in rows |-> sample(n, k)]
                     ELSE Apply(Op(n), [i \in DOMAIN Parents(n) |-> frame[Parents(n)[i]]])
            IN  [k \in rows |-> At(f, k)]
    IN  frame

\* Causal and blockwise work reads no more preceding rows than a graph is proven
\* to need: with them alone every value is what the whole history gives.
HistorySuffices ==
    evaluated = <<>> =>
        \A s \in 2 .. HistorySessions, n \in Nodes : History[n] # Null =>
            \A k \in DOMAIN ReadSince(s)[n] :
                k[1] - History[n] >= s => ReadSince(s)[n][k] = ReadSince(1)[n][k]

\* A published node is read back: no later batch, kernel or publication
\* collects the plan that computed it again.
NothingPublishedIsRecollected == recollected = {}
===============================================================================
