------------------------------ MODULE RegionBlocks ------------------------------
(***************************************************************************)
(* Execution regions (regions.py): pointwise nodes that are computed       *)
(* together, of which only the output is published.  The published blocks  *)
(* certify the contents that the other nodes had, so that a later plan     *)
(* resumes the region where its inputs are proven unchanged.  Which nodes  *)
(* are joined is decided by every plan anew, from what it is asked for and *)
(* told to persist.                                                        *)
(*                                                                         *)
(* Node 0 is the source.  A cell is a number, and a node may map different *)
(* inputs to the same output.  Durable nodes outside regions go through    *)
(* execute_finite_node, which FiniteBlocks models, here in one step.       *)
(***************************************************************************)
EXTENDS Integers, Sequences, FiniteSetsExt, Functions

CONSTANTS None, Scopes

VARIABLES
    scope,
    source,       \* a number for every session
    upgraded,     \* nodes whose implementation has changed
    rows,         \* published blocks and results: key |-> cells
    certificates, \* of blocks: the block keys and contents of the nodes of a region
    seals,        \* of results: the nodes of a region and their keys
    latest,       \* node |-> key of the result last completed, if any: a set
    receipts,     \* keys of the results of the updates that were published
    work,         \* the plan in progress
    plans,        \* how many plans there were, and how many restatements
    restatements

vars == <<scope, source, upgraded, rows, certificates, seals, latest, receipts, work, plans,
          restatements>>

-----------------------------------------------------------------------------
(* The graph: parents come before their children, and node 0 is the source. *)

Nodes == DOMAIN scope.parents
Parents(n) == scope.parents[n]

Closure(roots) ==
    LET up[n \in Nodes] == {n} \cup UNION {up[p] : p \in Parents(n) \ {0}}
    IN  UNION {up[n] : n \in roots}

\* A zero-history operation; its cells from those of its parents.
Apply(n, changed, cells) ==
    LET sum == SumFunction(cells) + (IF n \in changed THEN 1 ELSE 0)
    IN  IF scope.operator[n] = "parity" THEN sum % 2 ELSE sum

\* What every node gives on every session.
Evaluate(s, changed) ==
    LET cell[n \in Nodes \cup {0}] ==
          IF n = 0 THEN s
          ELSE [t \in DOMAIN s |-> Apply(n, changed, [p \in Parents(n) |-> cell[p][t]])]
    IN  cell

-----------------------------------------------------------------------------
(* plan_regions, over the nodes a plan selects. *)

Children(n, nodes) == {m \in nodes : n \in Parents(m)}

\* Mutant: several nodes of the region may read a transient node, and others too.
ReadByIneligible(n, nodes) == Children(n, nodes) \ scope.eligible # {}

\* Whoever else reads a node needs its result.
Shared(n, nodes) ==
    Cardinality(Children(n, nodes)) # 1 \/ Children(n, nodes) \ scope.eligible # {}

Durable(nodes, requested, persist) ==
    requested \cup persist \cup (nodes \ scope.eligible) \cup {n \in nodes : Shared(n, nodes)}

Members(output, nodes, durable) ==
    LET inside[n \in Nodes] == \/ n = output
                               \/ /\ n \in (nodes \cap scope.eligible) \ durable
                                  /\ \E m \in Children(n, nodes) : inside[m]
    IN  {n \in nodes : inside[n]}

Regions(nodes, durable) ==
    {r \in {[output |-> n, nodes |-> Members(n, nodes, durable)] :
              n \in durable \cap scope.eligible} : Cardinality(r.nodes) > 1}

External(region) == (UNION {Parents(n) : n \in region.nodes}) \ region.nodes

-----------------------------------------------------------------------------
(* Keys. *)

\* _block_key: a block binds the contents that its parents have in its interval.
BlockKey(n, first, last, contents) ==
    [kind |-> "block", node |-> n, changed |-> n \in upgraded, first |-> first, last |-> last,
     proofs |-> [p \in Parents(n) |-> [t \in first .. last |-> contents[p][t]]]]

\* A result binds its ancestors whole.
ResultKey(n) ==
    [kind |-> "result", node |-> n, changed |-> upgraded \cap Closure({n}), source |-> source]

Known(key) == key \in DOMAIN rows
With(known, key, cells) ==
    IF key \in DOMAIN known THEN known
    ELSE [k \in DOMAIN known \cup {key} |-> IF k = key THEN cells ELSE known[k]]

Origins == {t \in DOMAIN source : (t - 1) % scope.canonicalSessions = 0}
BlockEnd(first) == Min({first + scope.canonicalSessions - 1, Len(source)})

-----------------------------------------------------------------------------
(* Plans. *)

Idle == [step |-> "idle"]
At(step) == work.step = step

UpToDate(n) == latest[n] = {ResultKey(n)}
SealsOf(key) == {seal \in seals : seal.result = key}
Sealed(region, key, upToDate) ==
    \E seal \in SealsOf(key) : /\ region.nodes \subseteq DOMAIN seal.keys
                               /\ upToDate => \A n \in region.nodes : seal.keys[n] = ResultKey(n)

\* A region over completed history is admitted only where its nodes are sealed.
Admitted(region) ==
    \A key \in latest[region.output] : Sealed(region, key, UpToDate(region.output))

Start(request) ==
    /\ At("idle") /\ source # <<>> /\ plans < scope.maxPlans
    /\ LET nodes == Closure(request.requested)
           regions == {r \in Regions(nodes, Durable(nodes, request.requested, request.persist)) :
                         Admitted(r)}
           durable == nodes \ UNION {r.nodes \ {r.output} : r \in regions}
       IN  work' = [step |-> "run", regions |-> regions, durable |-> durable,
                    pending |-> {n \in durable : ~ UpToDate(n)},
                    values |-> [n \in {m \in durable : UpToDate(m)} |-> rows[ResultKey(n)]],
                    first |-> 1, blocks |-> <<>>]
    /\ plans' = plans + 1
    /\ UNCHANGED <<scope, source, upgraded, rows, certificates, seals, latest, receipts, restatements>>

\* Nodes are executed in the order of the graph.
Turn == Min(work.pending)
RegionOf(n) == CHOOSE r \in work.regions : r.output = n
IsRegion(n) == \E r \in work.regions : r.output = n
Reads(n) == (IF IsRegion(n) THEN External(RegionOf(n)) ELSE Parents(n)) \ {0}
Values == [p \in DOMAIN work.values \cup {0} |-> IF p = 0 THEN source ELSE work.values[p]]

\* The completed results of a node by its implementation.
CompletedAlike(n) ==
    {key \in receipts \cup latest[n] : key.node = n /\ (n \in key.changed) = (n \in upgraded)}

\* A node that is finished is completed at once.
Finished(n, cells) ==
    /\ latest' = [latest EXCEPT ![n] = {ResultKey(n)}]
    /\ work' = [work EXCEPT !.pending = @ \ {n}, !.first = 1, !.blocks = <<>>,
                            !.values = With(@, n, cells)]

\* The result is published already; a region's, only with its seal.
Hit ==
    /\ At("run") /\ work.pending # {} /\ Known(ResultKey(Turn))
    /\ IsRegion(Turn) => Sealed(RegionOf(Turn), ResultKey(Turn), TRUE)
    /\ Finished(Turn, rows[ResultKey(Turn)])
    /\ UNCHANGED <<scope, source, upgraded, rows, certificates, seals, receipts, plans, restatements>>

Runs(n) == /\ At("run") /\ n \in work.pending /\ n = Turn
           /\ ~ Known(ResultKey(n)) /\ Reads(n) \subseteq DOMAIN work.values

\* execute_finite_node: canonical blocks and the result that joins them.
Finite(n) ==
    /\ Runs(n) /\ ~ IsRegion(n)
    /\ LET provable == UNION {{BlockKey(n, first, last, Values) : last \in first .. BlockEnd(first)} :
                                 first \in Origins}
           whole(first) == BlockKey(n, first, BlockEnd(first), Values)
           start(t) == ((t - 1) \div scope.canonicalSessions) * scope.canonicalSessions + 1
           cells(first, last) == [t \in first .. last |->
                                    Apply(n, upgraded, [p \in Parents(n) |-> Values[p][t]])]
           held == [k \in DOMAIN rows \cup {whole(first) : first \in Origins} |->
                      IF k \in DOMAIN rows THEN rows[k] ELSE cells(k.first, k.last)]
           result == [t \in DOMAIN source |-> held[whole(start(t))][t]]
       IN  /\ CompletedAlike(n) # {} => \E b \in provable : Known(b)
           /\ rows' = With(held, ResultKey(n), result)
           /\ Finished(n, result)
    /\ UNCHANGED <<scope, source, upgraded, certificates, seals, receipts, plans, restatements>>

-----------------------------------------------------------------------------
(* execute_region. *)

\* Mutant: the certificate is matched for the output alone.
OutputMatches(region, certificate) ==
    LET n == region.output
        known == certificate.nodes
        contents == [p \in Parents(n) |-> IF p \in region.nodes THEN known[p].index ELSE Values[p]]
    IN  /\ certificate.output = n /\ region.nodes \subseteq DOMAIN known
        /\ known[n].key = BlockKey(n, certificate.first, certificate.last, contents)

\* _matching_certificate: every node of the region has the key that the contents of
\* its parents give it, those inside the region as certified.
Matches(region, certificate) ==
    /\ certificate.output = region.output /\ region.nodes \subseteq DOMAIN certificate.nodes
    /\ LET known == certificate.nodes IN
       \A n \in region.nodes :
          known[n].key = BlockKey(n, certificate.first, certificate.last,
              [p \in Parents(n) |-> IF p \in region.nodes THEN known[p].index ELSE Values[p]])

\* The certified prefixes of the block that starts on a session.
Proven(region, first) ==
    {c \in certificates : c.first = first /\ c.last \in first .. BlockEnd(first)
                          /\ Matches(region, c)}

\* Completed history has to be proven unless its nodes were defined differently.
MustBeProven(region) ==
    \E key \in CompletedAlike(region.output) :
       LET own == SealsOf(key) IN
       own = {} \/ \E seal \in own : \A n \in region.nodes :
                      /\ n \in DOMAIN seal.keys
                      /\ (n \in seal.keys[n].changed) = (n \in upgraded)

\* The missing sessions of a block, for all nodes of the region.
Missing(region, first) ==
    LET cell[n \in region.nodes \cup External(region)] ==
          IF n \notin region.nodes THEN Values[n]
          ELSE [t \in first .. BlockEnd(work.first) |->
                  Apply(n, upgraded, [p \in Parents(n) |-> cell[p][t]])]
    IN  cell

\* A block: its newest certified prefix and the tail, with a certificate of its own.
Block(n) ==
    /\ Runs(n) /\ IsRegion(n) /\ work.first <= Len(source)
    /\ LET region == RegionOf(n)
           first == work.first
           end == BlockEnd(first)
           prefixes == Proven(region, first)
           newest == IF prefixes = {} THEN {None}
                     ELSE {c \in prefixes : \A d \in prefixes : d.last <= c.last}
       IN  /\ MustBeProven(region) => \E origin \in Origins : Proven(region, origin) # {}
           /\ \E prefix \in newest :
                LET from == IF prefix = None THEN first ELSE prefix.last + 1
                    tail == Missing(region, from)
                    index == [m \in region.nodes |-> [t \in first .. end |->
                                IF t < from THEN prefix.nodes[m].index[t] ELSE tail[m][t]]]
                    contents == [p \in region.nodes \cup External(region) |->
                                   IF p \in region.nodes THEN index[p] ELSE Values[p]]
                    keys == [m \in region.nodes |-> BlockKey(m, first, end, contents)]
                    old == IF prefix = None THEN <<>> ELSE rows[prefix.nodes[n].key]
                    cells == [t \in first .. end |-> IF t < from THEN old[t] ELSE tail[n][t]]
                    block == IF from > end THEN prefix.nodes[n].key ELSE keys[n]
                IN  /\ rows' = With(rows, block, cells)
                    /\ certificates' = certificates \cup
                         (IF from > end THEN {}
                          ELSE {[output |-> n, first |-> first, last |-> end,
                                 nodes |-> [m \in region.nodes |-> [key |-> keys[m], index |-> index[m]]]]})
                    /\ work' = [work EXCEPT !.first = end + 1, !.blocks = Append(@, block)]
    /\ UNCHANGED <<scope, source, upgraded, seals, latest, receipts, plans, restatements>>

\* The result refers to the blocks, and seals the nodes that have none.
SealOf(region) == [result |-> ResultKey(region.output), keys |-> [m \in region.nodes |-> ResultKey(m)]]
Seal(n) ==
    /\ Runs(n) /\ IsRegion(n) /\ work.first > Len(source)
    /\ LET result == [t \in DOMAIN source |->
                        rows[work.blocks[((t - 1) \div scope.canonicalSessions) + 1]][t]]
       IN  /\ rows' = With(rows, ResultKey(n), result)
           /\ Finished(n, result)
    /\ seals' = seals \cup {SealOf(RegionOf(n))}
    /\ UNCHANGED <<scope, source, upgraded, certificates, receipts, plans, restatements>>

\* The receipt of an update names the nodes without results by their seals.
Covered(region) ==
    \A n \in region.nodes \ {region.output} : \E seal \in SealsOf(ResultKey(region.output)) :
        n \in DOMAIN seal.keys /\ seal.keys[n].node = n

Complete ==
    /\ At("run") /\ work.pending = {}
    /\ \A region \in work.regions : Covered(region)
    /\ receipts' = receipts \cup {ResultKey(n) : n \in work.durable}
    /\ work' = Idle
    /\ UNCHANGED <<scope, source, upgraded, rows, certificates, seals, latest, plans, restatements>>

\* A plan that is refused, canceled or lost: what is published stays.
Interrupt ==
    /\ ~ At("idle") /\ work' = Idle
    /\ UNCHANGED <<scope, source, upgraded, rows, certificates, seals, latest, receipts, plans, restatements>>

-----------------------------------------------------------------------------
(* Between plans. *)

Observe(number) ==
    /\ At("idle") /\ Len(source) < scope.maxSessions
    /\ source' = Append(source, number)
    /\ UNCHANGED <<scope, upgraded, rows, certificates, seals, latest, receipts, work, plans, restatements>>

Restate(t, number) ==
    /\ At("idle") /\ restatements < scope.maxRestatements
    /\ source' = [source EXCEPT ![t] = number]
    /\ restatements' = restatements + 1
    /\ UNCHANGED <<scope, upgraded, rows, certificates, seals, latest, receipts, work, plans>>

Upgrade(n) ==
    /\ At("idle") /\ n \in scope.upgrades \ upgraded
    /\ upgraded' = upgraded \cup {n}
    /\ UNCHANGED <<scope, source, rows, certificates, seals, latest, receipts, work, plans, restatements>>

-----------------------------------------------------------------------------
Init ==
    /\ scope \in Scopes /\ source = <<>> /\ upgraded = {}
    /\ rows = <<>> /\ certificates = {} /\ seals = {}
    /\ latest = [n \in Nodes |-> {}] /\ receipts = {} /\ work = Idle /\ plans = 0 /\ restatements = 0

Next ==
    \/ \E request \in scope.requests : Start(request)
    \/ Hit \/ \E n \in Nodes : Finite(n) \/ Block(n) \/ Seal(n)
    \/ Complete \/ Interrupt
    \/ \E number \in scope.numbers : Observe(number) \/ \E t \in DOMAIN source : Restate(t, number)
    \/ \E n \in Nodes : Upgrade(n)

Spec == Init /\ [][Next]_vars

-----------------------------------------------------------------------------
\* "Physical region choices never enter numerical policies or material keys":
\* however nodes were joined or persisted by the plans before, no node is computed
\* by two regions, every node that is computed finds published what it reads, the
\* nodes without results are covered when the plan has ended, and every result that
\* was composed of certified, resumed and separately computed blocks is what its node
\* gives over its source and with the implementations its key names.
RegionsKeepWholeHistory ==
    /\ At("run") =>
          /\ \A q, r \in work.regions : q # r => q.nodes \cap r.nodes = {}
          /\ \A n \in work.durable : Reads(n) \subseteq work.durable
          /\ work.pending = {} => \A r \in work.regions : Covered(r)
    /\ \A key \in DOMAIN rows : key.kind = "result" =>
          rows[key] = [t \in DOMAIN key.source |-> Evaluate(key.source, key.changed)[key.node][t]]
=============================================================================
