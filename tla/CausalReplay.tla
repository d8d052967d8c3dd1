------------------------------ MODULE CausalReplay ------------------------------
(***************************************************************************)
(* CausalReplay: the nodes over a versioned source, replayed in blocks of  *)
(* sessions so that every output is what was known on its own day.         *)
(*                                                                         *)
(* An observation has a version known on its day, and may get others that  *)
(* become known later, or are discovered to have been known.  A node       *)
(* gathers the observations, or the outputs of its parent, of its last     *)
(* sessions; a cell is what it gathered.  A plan replays its nodes         *)
(* together, from one buffer of versions that is extended at its ends, and *)
(* whose start only moves forward.                                         *)
(***************************************************************************)
EXTENDS Integers, Sequences, FiniteSets, SequencesExt, FiniteSetsExt, Functions

CONSTANTS None, Scopes   \* the nodes of a run, and its bounds

VARIABLES
    scope,
    versions,    \* what the source has besides the first version of every session
    through,     \* the last session there is
    rows,        \* published results of the nodes: key |-> cells
    completed,   \* keys of results that successful plans completed
    replay,      \* the replay of the plan in progress
    plans        \* how many plans there were

vars == <<scope, versions, through, rows, completed, replay, plans>>

-----------------------------------------------------------------------------
(* Versions. *)

First(t) == [time |-> t, known |-> t, revision |-> 0]

\* The frozen window of the source: sessions first .. last, as known at a cutoff.
Window(late, first, last, cutoff) ==
    {v \in late \cup {First(t) : t \in first .. last} :
        v.time \in first .. last /\ v.known <= cutoff}

\* The version selected: the latest known, by the source's precedence.
Latest(seen) ==
    CHOOSE v \in seen : \A w \in seen :
        w.known < v.known \/ (w.known = v.known /\ w.revision <= v.revision)

Observation(acquired, t, cutoff) ==
    LET seen == {v \in acquired : v.time = t /\ v.known <= cutoff} IN
    IF seen = {} THEN None ELSE Latest(seen).revision

-----------------------------------------------------------------------------
(* Nodes: each has a history of its own and a parent, None for the source. *)

Nodes == DOMAIN scope.history
Parent(n) == scope.parent[n]

\* _calendar_start.
Warm(first, history) == Max({1, first - history})

\* causal_history_requirements: what a node needs before an output, in all.
Required ==
    LET r[n \in Nodes] == scope.history[n] + (IF Parent(n) = None THEN 0 ELSE r[Parent(n)]) IN r

Closure(roots) ==
    LET up[n \in Nodes] == {n} \cup (IF Parent(n) = None THEN {} ELSE up[Parent(n)])
    IN  UNION {up[n] : n \in roots}

\* What every node gives on a session, with the versions acquired and a cutoff.
Evaluate(acquired, cutoff) ==
    LET cells[n \in Nodes] ==
          [t \in 1 .. cutoff |->
             LET first == Warm(t, scope.history[n]) IN
             [s \in first .. t |->
                IF Parent(n) = None THEN Observation(acquired, s, cutoff) ELSE cells[Parent(n)][s]]]
    IN  cells

-----------------------------------------------------------------------------
(* Keys. *)

\* Mutant: a key proves what its outputs were computed over, but not the halo.
OutputProof(late, n, first, last) == Window(late, first, last, last)

\* A key names output sessions and proves the window they depend on, as known at
\* their end: what becomes known later is no part of it.
Proof(late, n, first, last) == Window(late, Warm(first, Required[n]), last, last)

BlockKey(late, n, first, last) ==
    [kind |-> "block", node |-> n, first |-> first, last |-> last,
     proof |-> Proof(late, n, first, last)]
FragmentKey(key, first) == [key EXCEPT !.kind = "fragment", !.first = first]
ResultKey(late, n, last) ==
    [kind |-> "result", node |-> n, first |-> 1, last |-> last, proof |-> Window(late, 1, last, last)]

Known(key) == key \in DOMAIN rows
Publish(key, cells) ==
    rows' = IF Known(key) THEN rows
            ELSE [k \in DOMAIN rows \cup {key} |-> IF k = key THEN cells ELSE rows[k]]

-----------------------------------------------------------------------------
(* The replay of a plan. *)

Idle == [step |-> "idle"]
At(step) == replay.step = step

\* No completed history without an interval that is still proven.
Retained(n) ==
    (\E key \in completed : key.node = n) =>
        \E key \in DOMAIN rows : key.node = n /\ key.last <= through
            /\ key = BlockKey(versions, n, key.first, key.last)

\* A global plan selects every node, a branch plan what its root needs.
Start(roots) ==
    /\ At("idle") /\ through > 0 /\ plans < scope.maxPlans
    /\ \A n \in Closure(roots) : Retained(n)
    /\ \E n \in Closure(roots) : ~ Known(ResultKey(versions, n, through))
    /\ replay' = [step |-> "block", nodes |-> Closure(roots), inventory |-> DOMAIN rows,
                  begin |-> 1, parts |-> <<>>, from |-> 0, loaded |-> 0, buffer |-> {}]
    /\ plans' = plans + 1
    /\ UNCHANGED <<scope, versions, through, rows, completed>>

BlockEnd == Min({replay.begin + scope.sessions - 1, through})
Key(n) == BlockKey(versions, n, replay.begin, BlockEnd)
Missing == {n \in replay.nodes : ~ Known(Key(n))}

\* Where the longest prefix of a node ends that is proven, before the block does.
Prefix(n) ==
    LET ends == {e \in replay.begin .. BlockEnd - 1 :
                   BlockKey(versions, n, replay.begin, e) \in replay.inventory}
    IN  IF ends = {} THEN replay.begin - 1 ELSE Max(ends)

\* What the source has to be known for: the halos of every missing output.
Needed == Min({Warm(Prefix(n) + 1, Required[n]) : n \in Missing})

\* _acquire: only what is not loaded yet, before the buffer or after it.
Loaded ==
    IF replay.loaded = 0 THEN Window(versions, Needed, BlockEnd, through)
    ELSE replay.buffer
           \cup (IF Needed < replay.from
                 THEN Window(versions, Needed, replay.from - 1, through) ELSE {})
           \cup (IF replay.loaded < BlockEnd
                 THEN Window(versions, Max({Needed, replay.loaded + 1}), BlockEnd, through) ELSE {})

\* Mutant: the buffer is trimmed to the block, without its halo.
KeptFromBlock == replay.begin

\* Where the buffer starts.  A replay moves it to what the block and later ones can
\* need, and never back: what was loaded before the buffer is left out again.
KeptFrom ==
    Max({IF replay.loaded = 0 THEN Needed ELSE replay.from,
         Min({Needed, Warm(replay.begin, Max({Required[n] : n \in replay.nodes}))})})
Kept == {v \in Loaded : v.time >= KeptFrom}
Acquired == {v \in Kept : v.time \in Needed .. BlockEnd}

\* Mutant: an output sees all that is known when its block ends.
BlockCutoffs(acquired, first) == [t \in first .. BlockEnd |-> BlockEnd]

\* A block is cut where an observation becomes known after its own day; each
\* output is evaluated as known at the end of its segment.
Cutoffs(acquired, first) ==
    LET cuts == {v.known : v \in {w \in acquired : w.known > w.time}}
    IN  [t \in first .. BlockEnd |->
           Min({BlockEnd} \cup {c - 1 : c \in {k \in cuts : k > t /\ k <= BlockEnd}})]

Cells(acquired, n, first, cutoffs) ==
    [t \in first .. BlockEnd |-> Evaluate(acquired, cutoffs[t])[n][t]]

\* One block for all nodes that miss it.
Block ==
    /\ At("block") /\ replay.begin <= through
    /\ IF Missing = {} THEN replay' = [replay EXCEPT !.begin = BlockEnd + 1]
       ELSE LET output == Min({Prefix(n) + 1 : n \in Missing})
                cutoffs == Cutoffs(Acquired, output)
            IN  replay' = [replay EXCEPT
                  !.step = "publish",
                  !.parts = [n \in Missing |-> [first |-> Prefix(n) + 1,
                               cells |-> Cells(Acquired, n, Prefix(n) + 1, cutoffs)]],
                  !.buffer = Kept, !.from = KeptFrom, !.loaded = BlockEnd]
    /\ UNCHANGED <<scope, versions, through, rows, completed, plans>>

\* The nodes are published one by one, in the order of the graph.
Turn(pending) == CHOOSE n \in pending : \A m \in pending : n <= m

\* The block of a node, or the fragment its prefix lacks.
PublishPart ==
    /\ At("publish")
    /\ LET n == Turn(DOMAIN replay.parts)
           part == replay.parts[n]
       IN  IF part.first = replay.begin
           THEN /\ Publish(Key(n), part.cells)
                /\ LET rest == Restrict(replay.parts, DOMAIN replay.parts \ {n}) IN
                   replay' = [replay EXCEPT !.parts = rest,
                       !.step = IF rest = <<>> THEN "block" ELSE "publish",
                       !.begin = IF rest = <<>> THEN BlockEnd + 1 ELSE @]
           ELSE /\ Publish(FragmentKey(Key(n), part.first), part.cells)
                /\ replay' = [replay EXCEPT !.step = "join"]
    /\ UNCHANGED <<scope, versions, through, completed, plans>>

Join ==
    /\ At("join")
    /\ LET n == Turn(DOMAIN replay.parts)
           part == replay.parts[n]
           prefix == rows[BlockKey(versions, n, replay.begin, part.first - 1)]
           rest == Restrict(replay.parts, DOMAIN replay.parts \ {n})
       IN  /\ Publish(Key(n), [t \in replay.begin .. BlockEnd |->
                                 IF t < part.first THEN prefix[t] ELSE part.cells[t]])
           /\ replay' = [replay EXCEPT !.parts = rest,
                  !.step = IF rest = <<>> THEN "block" ELSE "publish",
                  !.begin = IF rest = <<>> THEN BlockEnd + 1 ELSE @]
    /\ UNCHANGED <<scope, versions, through, completed, plans>>

\* The blocks of a node, one after the other.
Composed(n) ==
    [t \in 1 .. through |->
        LET first == ((t - 1) \div scope.sessions) * scope.sessions + 1
        IN  rows[BlockKey(versions, n, first, Min({first + scope.sessions - 1, through}))][t]]

\* Then the results, which refer to the blocks.
Finish ==
    /\ At("block") /\ replay.begin > through
    /\ LET pending == {n \in replay.nodes : ~ Known(ResultKey(versions, n, through))} IN
       IF pending = {} THEN replay' = [replay EXCEPT !.step = "complete"] /\ UNCHANGED rows
       ELSE /\ Publish(ResultKey(versions, Turn(pending), through), Composed(Turn(pending)))
            /\ UNCHANGED replay
    /\ UNCHANGED <<scope, versions, through, completed, plans>>

Complete ==
    /\ At("complete")
    /\ completed' = completed \cup {ResultKey(versions, n, through) : n \in replay.nodes}
    /\ replay' = Idle
    /\ UNCHANGED <<scope, versions, through, rows, plans>>

\* A cancellation or an error inside a plan: the replay is not completed, and the
\* next node of the plan runs it again, with the buffer it has.
Retry ==
    /\ scope.failures /\ replay.step \in {"block", "publish", "join"}
    /\ replay' = [replay EXCEPT !.step = "block", !.begin = 1, !.parts = <<>>,
                                !.inventory = DOMAIN rows]
    /\ UNCHANGED <<scope, versions, through, rows, completed, plans>>

\* The plan is given up.
Interrupt ==
    /\ scope.failures /\ ~ At("idle")
    /\ replay' = Idle
    /\ UNCHANGED <<scope, versions, through, rows, completed, plans>>

-----------------------------------------------------------------------------
(* The source, between plans. *)

Observe(last) ==
    /\ At("idle") /\ through < last
    /\ through' = last
    /\ UNCHANGED <<scope, versions, rows, completed, replay, plans>>

\* Another version, with the next revision.
Discover(t, known) ==
    /\ At("idle") /\ Cardinality(versions) < scope.maxVersions
    /\ versions' = versions \cup
          {[time |-> t, known |-> known, revision |-> Cardinality(versions) + 1]}
    /\ UNCHANGED <<scope, through, rows, completed, replay, plans>>

-----------------------------------------------------------------------------
Init ==
    /\ scope \in Scopes /\ versions = {} /\ through = 0
    /\ rows = <<>> /\ completed = {} /\ replay = Idle /\ plans = 0

Next ==
    \/ \E last \in scope.ends : Observe(last)
    \/ \E t \in 1 .. through : \E known \in t .. through : Discover(t, known)
    \/ \E roots \in scope.roots : Start(roots)
    \/ Block \/ PublishPart \/ Join \/ Finish \/ Complete \/ Retry \/ Interrupt

Spec == Init /\ [][Next]_vars

-----------------------------------------------------------------------------
(* What is published. *)

\* What the versions that a key proves of some sessions, as known on a day, let the
\* node gather on that day.
Gathers(key, t, sessions) ==
    Evaluate({v \in key.proof : v.time \in sessions /\ v.known <= t}, t)[key.node][t]

\* "Earlier observations newly visible on a later day affect that day's trailing
\* calculations, never preceding published outputs": every cell that is published
\* for a node is what was known on its own day, no more and no less.
OutputsArePointInTime ==
    \A key \in DOMAIN rows : key.kind # "fragment" =>
        rows[key] = [t \in key.first .. key.last |-> Gathers(key, t, 1 .. t)]

\* However long the histories of the nodes that are replayed together: a cell has
\* nothing that became known after its day and nothing that was replaced by then, and
\* only whole sessions are lost, as the buffer loses them.
NothingIsForeseen ==
    \A key \in DOMAIN rows : key.kind # "fragment" =>
        /\ DOMAIN rows[key] = key.first .. key.last
        /\ \A t \in key.first .. key.last :
              LET halo == Warm(t, Required[key.node]) .. t IN
              \E lost \in SUBSET halo : rows[key][t] = Gathers(key, t, halo \ lost)

\* Histories with which no block reads what an earlier one left out: those of the
\* nodes of a plan differ by a session at most ...
EvenHistories ==
    \A roots \in scope.roots : \A m, n \in Closure(roots) : Required[n] <= Required[m] + 1

\* ... or they grow along the graph, and a plan needs all nodes before one: a chain that is
\* updated up to any of its nodes.
ChainedHistories ==
    \A roots \in scope.roots : \A n \in Closure(roots) : \A m \in Nodes :
        m < n => m \in Closure(roots) /\ Required[m] <= Required[n]

\* A cell is all that was known on its day with such histories; with others the buffer
\* may lack sessions (causal.py:303-322), and nothing is foreseen all the same.
OutputsAreOfTheirDay ==
    IF EvenHistories \/ ChainedHistories THEN OutputsArePointInTime ELSE NothingIsForeseen
=============================================================================
