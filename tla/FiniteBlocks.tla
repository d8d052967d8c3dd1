---------------------------- MODULE FiniteBlocks ----------------------------
(***************************************************************************)
(* execute_finite_node: one node with finite history, computed in          *)
(* canonical blocks, by executions that freeze the source when they start, *)
(* may be interrupted anywhere, and may run side by side.                  *)
(*                                                                         *)
(* A key names its output sessions and proves its input: the content of    *)
(* every session it was computed from.  A block that ends early is the     *)
(* prefix a later execution resumes, publishing the missing fragment and   *)
(* then the block composed of both.  A first computation of everything may *)
(* run one kernel for several blocks.                                      *)
(***************************************************************************)
EXTENDS FiniteWindows, Functions

CONSTANTS
    Workers,       \* executions of the node that may overlap
    BatchBlocks    \* blocks a cold batch may join

ASSUME BoundsAssumption == BatchBlocks \in Nat

VARIABLES
    rows,        \* available materializations of the node: key |-> cells and sources
    completed,   \* results that successful plans completed
    workers,     \* executions in progress
    starts, releases

vars == <<scope, operation, source, rows, completed, workers, starts, releases>>

-----------------------------------------------------------------------------
(* Keys. *)

\* Mutant: the proof covers the output and not its history.
ShortProof(s, origin, end) == [t \in origin .. end |-> s[t]]

\* The interval token of the parents, from the canonical halo on.
Proof(s, origin, end) == [t \in Halo(s, origin) .. end |-> s[t]]

BlockKey(s, origin, end) ==
    [kind |-> "block", first |-> origin, last |-> end, proof |-> Proof(s, origin, end)]

FragmentKey(block, first) == [block EXCEPT !.kind = "fragment", !.first = first]

\* The key of the node itself binds its parents whole.
ResultKey(s) ==
    [kind |-> "result", first |-> 1, last |-> Len(s), proof |-> [t \in DOMAIN s |-> s[t]]]

Known(key) == key \in DOMAIN rows

\* publish: what is registered under the key stays, and must say the same.
Register(key, cells, sources) ==
    /\ Known(key) => rows[key].cells = cells
    /\ rows' = IF Known(key) THEN rows
               ELSE [k \in DOMAIN rows \cup {key} |->
                       IF k = key THEN [cells |-> cells, sources |-> sources] ELSE rows[k]]

-----------------------------------------------------------------------------
(* Executions. *)

Idle == [step |-> "idle"]
At(w, step) == workers[w].step = step
Goto(w, step) == workers' = [workers EXCEPT ![w].step = step]

\* Mutant: completed history is taken for new.
Unproven(s) == TRUE

\* Some block of a completed prefix must be proven before anything runs.
Reusable(s) ==
    \E origin \in Origins(s) : \E end \in origin .. BlockEnd(s, origin) :
        Known(BlockKey(s, origin, end))

\* Mutant: a batch for every kernel.
AnyKernel == DOMAIN rows = {}

\* Kernels a cold batch knows, on a node without rows of its own.
MayBatch == operation \in {"pointwise", "exact"} /\ DOMAIN rows = {}

Start(w) ==
    /\ At(w, "idle") /\ starts < scope.maxStarts
    /\ Cardinality({v \in Workers : ~ At(v, "idle")}) < scope.maxWorkers
    /\ source # <<>> /\ ~ Known(ResultKey(source))
    /\ LET prior == completed \cap DOMAIN rows # {} IN
       /\ prior => Reusable(source)
       /\ \E cold \in {FALSE, MayBatch} :
            workers' = [workers EXCEPT ![w] =
                [step |-> "look", source |-> source, prior |-> prior, partials |-> DOMAIN rows,
                 cold |-> cold, owned |-> {}, begin |-> 1, blocks |-> {}, reused |-> FALSE,
                 output |-> 1, prefix |-> {}, start |-> 1, stop |-> 1, epoch |-> releases]]
    /\ starts' = starts + 1
    /\ UNCHANGED <<scope, operation, source, rows, completed, releases>>

\* While batches are possible, nobody else may publish for the node.
Guard(w) == workers[w].cold => DOMAIN rows = workers[w].owned

Last(w) == BlockEnd(workers[w].source, workers[w].begin)
Key(w) == BlockKey(workers[w].source, workers[w].begin, Last(w))

\* Where the proven prefixes of the current block end.
Prefixes(w) ==
    {end \in workers[w].begin .. Last(w) - 1 :
        BlockKey(workers[w].source, workers[w].begin, end) \in workers[w].partials}

Looking(w) == At(w, "look") /\ Guard(w) /\ workers[w].begin <= Len(workers[w].source)

Reuse(w) ==
    /\ Looking(w) /\ Known(Key(w))
    /\ workers' = [workers EXCEPT ![w].blocks = @ \cup {Key(w)}, ![w].begin = Last(w) + 1,
                                  ![w].reused = TRUE]
    /\ UNCHANGED <<scope, operation, source, rows, completed, starts, releases>>

\* Mutant: the first prefix found.
Shortest(ends) == Min(ends)

\* The longest prefix; one that was retired meanwhile fails the execution.
Longest(ends) == Max(ends)

Resume(w) ==
    /\ Looking(w) /\ ~ Known(Key(w)) /\ Prefixes(w) # {}
    /\ LET r == workers[w]
           end == Longest(Prefixes(w))
           prefix == BlockKey(r.source, r.begin, end)
       IN  /\ Known(prefix)
           /\ workers' = [workers EXCEPT ![w].step = "publish", ![w].output = end + 1,
                    ![w].prefix = {prefix}, ![w].cold = FALSE, ![w].reused = TRUE,
                    ![w].start = NumericalStart(r.source, end + 1, Last(w), r.begin)]
    /\ UNCHANGED <<scope, operation, source, rows, completed, starts, releases>>

Compute(w) ==
    /\ Looking(w) /\ ~ Known(Key(w)) /\ Prefixes(w) = {}
    /\ LET r == workers[w] IN
       workers' = [workers EXCEPT ![w].step = "publish", ![w].output = r.begin,
            ![w].prefix = {}, ![w].cold = FALSE,
            ![w].start = NumericalStart(r.source, r.begin, Last(w), r.begin)]
    /\ UNCHANGED <<scope, operation, source, rows, completed, starts, releases>>

\* One kernel for at least two consecutive blocks, read from the earliest
\* start of any of them.
Batch(w, count) ==
    /\ Looking(w) /\ ~ Known(Key(w)) /\ Prefixes(w) = {} /\ workers[w].cold
    /\ LET s == workers[w].source
           begin == workers[w].begin
           stop == Min({begin + count * CanonicalSessions, Len(s) + 1})
           origins == Origins(s) \cap (begin .. stop - 1)
       IN  /\ Cardinality(origins) >= 2
           /\ workers' = [workers EXCEPT ![w].step = "batch", ![w].stop = stop,
                ![w].start = Min({NumericalStart(s, o, BlockEnd(s, o), o) : o \in origins})]
    /\ UNCHANGED <<scope, operation, source, rows, completed, starts, releases>>

\* What the kernel gives for the sessions that are missing.
Output(w) == Kernel(workers[w].source, workers[w].start, workers[w].output, Last(w))

\* _publish_finite_block: the block, or first the fragment it lacks.
Publish(w) ==
    /\ At(w, "publish")
    /\ IF workers[w].prefix = {}
       THEN /\ Register(Key(w), Output(w), {})
            /\ workers' = [workers EXCEPT ![w].step = "look", ![w].begin = Last(w) + 1,
                                          ![w].blocks = @ \cup {Key(w)}]
       ELSE /\ Register(FragmentKey(Key(w), workers[w].output), Output(w), {})
            /\ Goto(w, "join")
    /\ UNCHANGED <<scope, operation, source, completed, starts, releases>>

\* The sessions of a result composed of rows, which must all be available.
Composed(keys) ==
    [t \in UNION {k.first .. k.last : k \in keys} |->
        LET k == CHOOSE k \in keys : t \in k.first .. k.last IN rows[k].cells[t]]

Join(w) ==
    /\ At(w, "join")
    /\ LET sources == workers[w].prefix \cup {FragmentKey(Key(w), workers[w].output)} IN
       /\ sources \subseteq DOMAIN rows
       /\ Register(Key(w), Composed(sources), sources)
    /\ workers' = [workers EXCEPT ![w].step = "look", ![w].begin = Last(w) + 1,
                                  ![w].blocks = @ \cup {Key(w)}]
    /\ UNCHANGED <<scope, operation, source, completed, starts, releases>>

PublishBatch(w) ==
    /\ At(w, "batch") /\ Guard(w)
    /\ LET r == workers[w]
           kernel == Kernel(r.source, r.start, r.begin, r.stop - 1)
       IN  /\ Register(Key(w), Restrict(kernel, r.begin .. Last(w)), {})
           /\ workers' = [workers EXCEPT ![w].begin = Last(w) + 1,
                    ![w].blocks = @ \cup {Key(w)}, ![w].owned = @ \cup {Key(w)},
                    ![w].step = IF Last(w) + 1 = r.stop THEN "look" ELSE "batch"]
    /\ UNCHANGED <<scope, operation, source, completed, starts, releases>>

\* Every block is there: the node's own result refers to them.
Finish(w) ==
    /\ At(w, "look") /\ Guard(w) /\ workers[w].begin > Len(workers[w].source)
    /\ workers[w].blocks \subseteq DOMAIN rows
    /\ Register(ResultKey(workers[w].source), Composed(workers[w].blocks), workers[w].blocks)
    /\ Goto(w, "complete")
    /\ UNCHANGED <<scope, operation, source, completed, starts, releases>>

\* complete_node, by the plan.
Complete(w) ==
    /\ At(w, "complete")
    /\ completed' = completed \cup {ResultKey(workers[w].source)}
    /\ workers' = [workers EXCEPT ![w] = Idle]
    /\ UNCHANGED <<scope, operation, source, rows, starts, releases>>

\* A cancellation, a crash, or one of the errors that guards raise.
Interrupt(w) ==
    /\ ~ At(w, "idle")
    /\ workers' = [workers EXCEPT ![w] = Idle]
    /\ UNCHANGED <<scope, operation, source, rows, completed, starts, releases>>

\* apply_release: what nothing available is composed of.
Retire(keys) ==
    /\ releases < scope.maxReleases /\ keys # {}
    /\ \A k \in DOMAIN rows \ keys : rows[k].sources \cap keys = {}
    /\ rows' = Restrict(rows, DOMAIN rows \ keys)
    /\ releases' = releases + 1
    /\ UNCHANGED <<scope, operation, source, completed, workers, starts>>

-----------------------------------------------------------------------------
node == <<rows, completed, workers, starts, releases>>

Init ==
    /\ scope \in Scopes /\ operation \in Operations /\ source = <<>>
    /\ rows = <<>> /\ completed = {}
    /\ workers = [w \in Workers |-> Idle]
    /\ starts = 0 /\ releases = 0

Execute(w) ==
    \/ Start(w) \/ Reuse(w) \/ Resume(w) \/ Compute(w)
    \/ \E count \in 2 .. BatchBlocks : Batch(w, count)
    \/ Publish(w) \/ Join(w) \/ PublishBatch(w)
    \/ Finish(w) \/ Complete(w) \/ Interrupt(w)

Next ==
    \/ \E members \in SUBSET Assets : Observe(members) /\ UNCHANGED node
    \/ \E t \in DOMAIN source : Restate(t) /\ UNCHANGED node
    \/ \E w \in Workers : Execute(w)
    \/ \E keys \in SUBSET DOMAIN rows : Retire(keys)

Spec == Init /\ [][Next]_vars

-----------------------------------------------------------------------------
\* The state is well formed: executions hold keys of their own source, and
\* rows have a cell for every member and session they cover.
TypeOK ==
    /\ operation \in Operations
    /\ source \in Seq(Contents) /\ Len(source) <= scope.maxSessions
    /\ \A k \in DOMAIN rows :
          /\ k.kind \in {"block", "fragment", "result"}
          /\ DOMAIN rows[k].cells = k.first .. k.last
          /\ \A t \in k.first .. k.last : DOMAIN rows[k].cells[t] = k.proof[t].members
    /\ \A w \in Workers : ~ At(w, "idle") =>
          /\ workers[w].begin \in Origins(workers[w].source) \cup {Len(workers[w].source) + 1}
          /\ At(w, "publish") => workers[w].start <= workers[w].output
    /\ starts \in 0 .. scope.maxStarts /\ releases \in 0 .. scope.maxReleases

\* What is published for a node is what one computation over its whole
\* history gives, however it was cut into blocks, resumed, batched or
\* repeated, and whatever was restated; accumulators are reset at halos, and
\* every cell reaches the observations its operation was promised.
ResultsAreWholeHistory ==
    \A k \in DOMAIN rows : k.kind = "result" =>
        /\ rows[k].cells = [t \in 1 .. k.last |-> WholeHistory(k.proof, t)]
        /\ \A t \in 1 .. k.last : Reaches(k.proof, t, rows[k].cells[t])

\* The values of a block or fragment are a function of what its key proves:
\* whatever route leads to a key, nothing is published or about to be
\* published under it that would be an "immutable materialization conflict".
BlocksFollowProofs ==
    /\ \A k \in DOMAIN rows : k.kind # "result" =>
          rows[k].cells = [t \in k.first .. k.last |-> Cells(k.proof, DOMAIN k.proof, t)]
    /\ \A w \in Workers : At(w, "publish") =>
          LET proof == Key(w).proof IN
          Output(w) = [t \in workers[w].output .. Last(w) |-> Cells(proof, DOMAIN proof, t)]

\* No session is computed that a proven block at hand covers.
NothingProvenIsRecomputed ==
    \A w \in Workers : At(w, "publish") /\ workers[w].epoch = releases =>
        \A end \in workers[w].output .. Last(w) :
            BlockKey(workers[w].source, workers[w].begin, end) \notin workers[w].partials

\* "Never silent full-history replay": an execution over completed history
\* that ends has used some of it.
CompletedHistoryIsReused ==
    \A w \in Workers : At(w, "complete") /\ workers[w].prior /\ workers[w].epoch = releases =>
        workers[w].reused
=============================================================================
