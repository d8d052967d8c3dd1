---------------------------- MODULE CheckpointBlocks ----------------------------
(***************************************************************************)
(* execute_checkpoint_node: one stateful node whose history is continued   *)
(* from the state a published result carries, over a source that grows, is *)
(* restated or renamed between executions.  Its operation is a streak that *)
(* resets or holds on equal values, an exponential moment ("ewm"),         *)
(* abstracted to the set of observations it has accumulated, or a rolling  *)
(* estimator ("train"), whose labels are a parent of their own.            *)
(*                                                                         *)
(* A result proves the prefix of the source it consumed.  An execution     *)
(* resumes from the newest result whose prefix is proven unchanged and     *)
(* whose state can be read; completed history without such a result is     *)
(* refused, for explicit maintenance, which can certify a legacy result of *)
(* a resetting streak.                                                     *)
(***************************************************************************)
EXTENDS RollingTraining

CONSTANTS None,
          Scopes   \* bounds of a run and what may happen in it

VARIABLES
    scope, operation,
    source,      \* the rows of the parent, one per session
    version,     \* the identity of the parent, which keys bind
    records,     \* published results of the node
    completed,   \* keys of the results that successful plans completed
    work         \* the execution in progress

vars == <<scope, operation, source, version, records, completed, work>>

-----------------------------------------------------------------------------
(* The kernel. *)

\* The sessions from `first` on in which the asset has a row, and these rows.
Members(s, first) == {t \in first .. Len(s) : s[t] # Absent}
Rows(s, first) == [t \in Members(s, first) |-> s[t]]

\* Mutant: the carry of the trace is forgotten.
OwnTraces(rows, seed) ==
    [t \in DOMAIN rows |-> MaxHorizontal({rows[u].trace : u \in {v \in DOMAIN rows : v <= t}})]

\* A cumulative trace, with what the checkpoint carries of it.
CumulativeTraces(rows, seed) ==
    [t \in DOMAIN rows |->
       MaxHorizontal({seed.run_trace} \cup {rows[u].trace : u \in {v \in DOMAIN rows : v <= t}})]

\* An exponential moment depends on every observation so far, and on how many are valid.
Moments(rows, seed) ==
    LET traces == CumulativeTraces(rows, seed)
        seen(t) == seed.value \cup {<<u, rows[u].value>> : u \in {v \in DOMAIN rows : v <= t}}
        valid == Numbered([t \in DOMAIN rows |-> Valid(rows[t])])
        observations(t) == seed.count + valid[t]
        last == Max(DOMAIN rows)
    IN  [output |-> [t \in DOMAIN rows |->
                       [value |-> <<seen(t), observations(t)>>, trace |-> traces[t]]],
         saved |-> IF DOMAIN rows = {} THEN seed
                   ELSE [seed EXCEPT !.value = seen(last), !.count = observations(last),
                                     !.run_trace = traces[last]]]

\* Streaks and moments read the rows after `after`.  A streak saves its state at the
\* end of the calendar, a moment at its last row, and nothing when it has no row.
Continuation(s, after, seed) ==
    LET rows == Rows(s, after + 1)
        run == IF operation = "ewm" THEN Moments(rows, seed)
               ELSE Streak(rows, seed, operation = "reset")
    IN  [cells |-> [i \in 1 .. Len(s) - after |->
                      IF s[after + i] = Absent THEN Absent ELSE run.output[after + i]],
         checkpoint |-> IF operation # "ewm" THEN [through |-> Len(s), state |-> run.saved]
                        ELSE IF DOMAIN rows = {} THEN None
                             ELSE [through |-> Max(DOMAIN rows), state |-> run.saved]]

\* An estimator also reads back from `after`, for the windows of its fits.
Training(s, after, seed) ==
    LET models == Models(scope.training, s, Len(s), after, seed.value)
    IN  [cells |-> [i \in 1 .. Len(s) - after |-> Predicted(models[after + i], s[after + i])],
         checkpoint |-> [through |-> Len(s), state |-> [NoSeed EXCEPT !.value = models[Len(s)]]]]

\* The sessions after `after`, with the cells the kernel gives them and its state.
Kernel(s, after, seed) ==
    IF operation = "train" THEN Training(s, after, seed) ELSE Continuation(s, after, seed)

\* What no row leaves; a moment has seen nothing.
Unseeded == IF operation = "ewm" THEN [NoSeed EXCEPT !.value = {}, !.count = 0] ELSE NoSeed
WholeHistory(s) == Kernel(s, 0, Unseeded)

-----------------------------------------------------------------------------
(* Results. *)

\* proofs is None for a result of before execution policies.
Result(key, s, cells, checkpoint, proofs) ==
    [key |-> key, start |-> 1, through |-> Len(s), rows |-> s, cells |-> cells,
     checkpoint |-> checkpoint, proofs |-> proofs, damaged |-> FALSE]

Key(v, s) == [kind |-> "result", version |-> v, through |-> Len(s), after |-> 0]
TailKey(key, after) == [key EXCEPT !.kind = "tail", !.after = after]
Published(key) == \E r \in records : r.key = key
Publish(result) == records' = IF Published(result.key) THEN records ELSE records \cup {result}

\* Mutant: the parents' latest rows alone are proven.
TailProof(s, end) == SubSeq(s, end, end)

\* The proof of the parents' prefix that ends in `end`: of the labels, what was consumed.
Proof(s, end) ==
    IF operation = "train"
    THEN LET labelled == LabelEnd(scope.training, end) IN
         [t \in 1 .. end |-> IF s[t] = Absent \/ t <= labelled THEN s[t]
                             ELSE [s[t] EXCEPT !.trace = Null]]
    ELSE SubSeq(s, 1, end)

\* _checkpoint_candidates, and what makes one usable: it starts where the node
\* does, its prefix is unchanged, its bytes are read, its state ends where it does.
Usable(r, s) ==
    /\ r.start = 1 /\ r.through <= Len(s) /\ r.checkpoint # None
    /\ r.proofs = Proof(s, r.through)
    /\ ~ r.damaged /\ r.checkpoint.through = r.through

\* Mutant: the oldest candidate first.
Oldest(candidates) == {r \in candidates : \A q \in candidates : r.through <= q.through}

\* Newest first; the identity orders those that end together.
Newest(candidates) == {r \in candidates : \A q \in candidates : q.through <= r.through}

-----------------------------------------------------------------------------
(* Executions. *)

Idle == [step |-> "idle"]

\* A plan freezes the source; a result it finds published is completed as it is.
Start ==
    /\ work = Idle /\ source # <<>>
    /\ Cardinality(records) < scope.maxRecords
    /\ LET key == Key(version, source)
           usable == {r \in records : Usable(r, source)}
       IN  /\ ~ Published(key)
           /\ usable = {} => completed = {}
           /\ \E previous \in IF usable = {} THEN {None} ELSE Newest(usable) :
                work' = [key |-> key, previous |-> previous,
                         step |-> IF usable = {} THEN "kernel"
                                  ELSE IF previous.through = Len(source) THEN "refer" ELSE "tail"]
    /\ UNCHANGED <<scope, operation, source, version, records, completed>>

Reuse ==
    /\ work = Idle
    /\ \E r \in records : r.key = Key(version, source) /\ ~ r.damaged /\ r.key \notin completed
    /\ work' = [step |-> "complete", key |-> Key(version, source), previous |-> None]
    /\ UNCHANGED <<scope, operation, source, version, records, completed>>

\* The same rows under another key: a reference to the previous values.
Refer ==
    /\ work.step = "refer"
    /\ Publish(Result(work.key, source, work.previous.cells, work.previous.checkpoint,
                      Proof(source, Len(source))))
    /\ work' = [work EXCEPT !.step = "complete"]
    /\ UNCHANGED <<scope, operation, source, version, completed>>

\* No previous result: the kernel reads everything.
Compute ==
    /\ work.step = "kernel"
    /\ LET kernel == WholeHistory(source) IN
       Publish(Result(work.key, source, kernel.cells, kernel.checkpoint,
                      Proof(source, Len(source))))
    /\ work' = [work EXCEPT !.step = "complete"]
    /\ UNCHANGED <<scope, operation, source, version, completed>>

Continued == Kernel(source, work.previous.through, work.previous.checkpoint.state)

\* The fragment of the sessions that are missing; it has no checkpoint.
PublishTail ==
    /\ work.step = "tail"
    /\ Publish([Result(TailKey(work.key, work.previous.through), source, Continued.cells, None,
                       Proof(source, Len(source))) EXCEPT !.start = work.previous.through + 1])
    /\ work' = [work EXCEPT !.step = "join"]
    /\ UNCHANGED <<scope, operation, source, version, completed>>

Join ==
    /\ work.step = "join"
    /\ Publish(Result(work.key, source, work.previous.cells \o Continued.cells,
                      Continued.checkpoint, Proof(source, Len(source))))
    /\ work' = [work EXCEPT !.step = "complete"]
    /\ UNCHANGED <<scope, operation, source, version, completed>>

Complete ==
    /\ work.step = "complete"
    /\ completed' = completed \cup {work.key}
    /\ work' = Idle
    /\ UNCHANGED <<scope, operation, source, version, records>>

\* A cancellation or a crash: what is published stays.
Interrupt ==
    /\ scope.interrupts /\ work # Idle
    /\ work' = Idle
    /\ UNCHANGED <<scope, operation, source, version, records, completed>>

-----------------------------------------------------------------------------
(* Explicit certification of a completed legacy result (streak_maintenance.py). *)

\* _derive_state: from at most two rows of the parent and one of the output.
DerivedState(r) ==
    LET members == Members(r.rows, 1)
        tail == {t \in members : Cardinality({u \in members : u > t}) < 2}
        last == Max(members)
    IN  IF members = {} THEN NoSeed
        ELSE [value |-> r.rows[last].value,
              direction |-> Directions([t \in tail |-> r.rows[t]], NoSeed)[last],
              count |-> r.cells[last].value, previous_trace |-> r.rows[last].trace,
              run_trace |-> r.cells[last].trace]

Certify ==
    /\ work = Idle /\ operation = "reset"
    /\ \E r \in records :
          /\ r.key \in completed /\ r.proofs = None /\ ~ r.damaged
          /\ ~ Published([r.key EXCEPT !.kind = "certified"])
          /\ Publish(Result([r.key EXCEPT !.kind = "certified"], r.rows, r.cells,
                            [through |-> r.through, state |-> DerivedState(r)],
                            Proof(r.rows, r.through)))
    /\ UNCHANGED <<scope, operation, source, version, completed, work>>

-----------------------------------------------------------------------------
(* What happens to the source and to stored bytes between executions. *)

Observe(cell) ==
    /\ work = Idle /\ Len(source) < scope.maxSessions
    /\ source' = Append(source, cell)
    /\ UNCHANGED <<scope, operation, version, records, completed, work>>

\* A past cell is restated, or the same rows get another identity.
Restate(t, cell) ==
    /\ work = Idle /\ version < scope.maxVersions
    /\ source' = [source EXCEPT ![t] = cell]
    /\ version' = version + 1
    /\ UNCHANGED <<scope, operation, records, completed, work>>

Damage ==
    /\ scope.damages /\ work = Idle /\ \A r \in records : ~ r.damaged
    /\ \E r \in records : records' = (records \ {r}) \cup {[r EXCEPT !.damaged = TRUE]}
    /\ UNCHANGED <<scope, operation, source, version, completed, work>>

\* A result of before checkpoints, completed by a version of the program without them.
LegacyUpdate ==
    /\ scope.legacy /\ work = Idle /\ records = {} /\ source # <<>>
    /\ records' = {Result(Key(version, source), source, WholeHistory(source).cells, None, None)}
    /\ completed' = {Key(version, source)}
    /\ UNCHANGED <<scope, operation, source, version, work>>

-----------------------------------------------------------------------------
Init ==
    /\ scope \in Scopes /\ operation \in scope.operations
    /\ source = <<>> /\ version = 0
    /\ records = {} /\ completed = {} /\ work = Idle

Execute == Start \/ Reuse \/ Refer \/ Compute \/ PublishTail \/ Join \/ Complete \/ Interrupt

Next ==
    \/ Execute \/ Certify \/ Damage \/ LegacyUpdate
    \/ \E cell \in scope.cells : Observe(cell)
    \/ \E t \in DOMAIN source : \E cell \in scope.cells : Restate(t, cell)

Spec == Init /\ [][Next]_vars

-----------------------------------------------------------------------------
\* However a history was cut by updates, continued from retained or certified
\* state, interrupted and repeated, a published result holds the counts, the
\* moments and the traces of one execution over its whole source, and the state
\* it saves is the one that execution would have saved.
ResumedIsWholeHistory ==
    \A r \in records : r.start = 1 =>
        /\ r.cells = WholeHistory(r.rows).cells
        /\ r.checkpoint # None => r.checkpoint.state = WholeHistory(r.rows).checkpoint.state

\* "It never starts a cold historical replay": over completed history a kernel
\* reads on from retained state, and no session at or before the end of a
\* readable result whose rows have stayed what they were.
HistoryIsContinued ==
    work.step \in {"kernel", "tail"} =>
        /\ completed # {} => work.step = "tail"
        /\ \A r \in records :
              r.checkpoint # None /\ r.rows = SubSeq(source, 1, r.through) /\ ~ r.damaged =>
                  \/ r.checkpoint.through < r.through
                  \/ work.step = "tail" /\ work.previous.through >= r.through
=============================================================================
