------------------------ MODULE ExecutionPoliciesProofs ------------------------
(***************************************************************************)
(* Nodes with finite history, for any Domain, lengths of windows and       *)
(* blocks, and number of executions side by side: history that is proven   *)
(* is reused, what is published follows from the proof of its key, and     *)
(* results are one computation over the whole history.  Nodes with a       *)
(* checkpoint, for any source: completed history is continued, and what is *)
(* resumed is one computation over the whole history.  What is maintained  *)
(* under a new policy, new proofs or a lower cutoff is what it  *)
(* would be computed to be.  Predictions by period are of their day.       *)
(* Regions: every node that a plan joins, resumes or computes gives what   *)
(* it gives over the whole history.                                        *)
(***************************************************************************)
EXTENDS HistoryProofs

-----------------------------------------------------------------------------
(* What an execution knows. *)

Fields == {"step", "source", "prior", "partials", "cold", "owned", "begin", "blocks", "reused",
           "output", "prefix", "start", "stop", "epoch"}

\* Some block that was proven when it started is yet to come.
Ahead(r) ==
    \E o \in Origins(r.source) : \E end \in o .. BlockEnd(r.source, o) :
        /\ BlockKey(r.source, o, end) \in r.partials
        /\ o >= r.begin
        /\ r.step = "look" \/ o > r.begin

Formed(r) ==
    /\ DOMAIN r = Fields
    /\ r.step \in {"look", "publish", "join", "batch", "complete"}
    /\ Len(r.source) \in Nat
    /\ r.begin \in Origins(r.source) \cup {Len(r.source) + 1}
    /\ r.step \in {"publish", "join"} => r.begin \in Origins(r.source)
    /\ r.step = "complete" => r.begin = Len(r.source) + 1
    /\ r.epoch \in Nat /\ r.epoch <= releases
    /\ r.output \in Nat

\* An execution over completed history is not cold; where it goes on it reuses.
Ordered(r) ==
    /\ r.cold => ~ r.prior
    /\ r.step = "batch" => r.cold
    /\ r.step = "join" \/ (r.step = "publish" /\ r.prefix # {}) => r.reused

\* Until something is retired, what was proven when it started is at hand, is not
\* computed, and has been used or lies ahead.
Reuses(r) ==
    r.epoch = releases =>
        /\ r.partials \subseteq DOMAIN rows
        /\ r.step = "publish" =>
               \A end \in r.output .. BlockEnd(r.source, r.begin) :
                   BlockKey(r.source, r.begin, end) \notin r.partials
        /\ r.prior /\ ~ r.reused => Ahead(r)

Execution(r) == Formed(r) /\ Ordered(r) /\ Reuses(r)

XInv ==
    /\ Lengths
    /\ source \in Seq(Contents)
    /\ releases \in Nat
    /\ DOMAIN workers = Workers
    /\ \A w \in Workers : At(w, "idle") \/ Execution(workers[w])

\* Keys and blocks depend on what no step changes.
LEMMA KeysStay ==
    ASSUME UNCHANGED <<scope, operation>>
    PROVE  /\ \A s, o, e : BlockKey(s, o, e)' = BlockKey(s, o, e)
           /\ \A s, o : BlockEnd(s, o)' = BlockEnd(s, o)
           /\ \A s : Origins(s)' = Origins(s)
  <1>1. \A s, o, e : BlockKey(s, o, e)' = BlockKey(s, o, e)
    BY DEF BlockKey, Proof, Halo, History, Observations
  <1>2. \A s, o : BlockEnd(s, o)' = BlockEnd(s, o)
    BY DEF BlockEnd, CanonicalSessions
  <1>3. \A s : Origins(s)' = Origins(s)
    BY DEF Origins, Origin, CanonicalSessions
  <1> QED
    BY <1>1, <1>2, <1>3

\* Rows that stay, or a retirement.
RowsGo == \/ releases' = releases /\ DOMAIN rows \subseteq DOMAIN rows'
          \/ releases' = releases + 1

\* What others do leaves an execution what it is.
LEMMA ExecutionStays ==
    ASSUME releases \in Nat, UNCHANGED <<scope, operation>>, RowsGo
    PROVE  \A r : Execution(r) => Execution(r)'
  <1> SUFFICES ASSUME NEW r, Execution(r) PROVE Execution(r)'
    OBVIOUS
  <1>1. Formed(r)' /\ Ordered(r)'
    <2>1. Formed(r)'
      BY KeysStay DEF Execution, Formed, RowsGo
    <2> QED
      BY <2>1 DEF Execution, Ordered
  <1>2. Ahead(r) => Ahead(r)'
    BY KeysStay DEF Ahead
  <1>3. Reuses(r)'
    <2>1. CASE releases' = releases /\ DOMAIN rows \subseteq DOMAIN rows'
      BY <1>2, <2>1, KeysStay DEF Execution, Reuses
    <2>2. CASE releases' = releases + 1
      BY <2>2 DEF Execution, Formed, Reuses
    <2> QED
      BY <2>1, <2>2 DEF RowsGo
  <1> QED
    BY <1>1, <1>3 DEF Execution

\* A step of one execution, which ends it or leaves it what it should be.
LEMMA OwnStep ==
    ASSUME XInv, UNCHANGED <<scope, operation, source, releases>>, DOMAIN rows \subseteq DOMAIN rows',
           NEW w \in Workers, NEW r, workers' = [workers EXCEPT ![w] = r],
           r.step = "idle" \/ Execution(r)
    PROVE  XInv'
  <1>1. RowsGo /\ releases \in Nat
    BY DEF RowsGo, XInv
  <1>2. \A q : Execution(q) => Execution(q)'
    BY <1>1, ExecutionStays
  <1>3. DOMAIN workers' = Workers /\ \A v \in Workers : workers'[v] = IF v = w THEN r ELSE workers[v]
    BY DEF XInv
  <1>4. ASSUME NEW v \in Workers PROVE (At(v, "idle") \/ Execution(workers[v]))'
    <2>1. CASE v = w
      BY <1>2, <1>3, <2>1 DEF At
    <2>2. CASE v # w
      BY <1>2, <1>3, <2>2 DEF At, XInv
    <2> QED
      BY <2>1, <2>2
  <1> QED
    BY <1>3, <1>4 DEF XInv, Lengths

-----------------------------------------------------------------------------
(* The steps of an execution. *)

\* The first look: some block of a completed prefix is proven.
LEMMA StartSteps == ASSUME XInv, NEW w \in Workers, Start(w) PROVE XInv'
  <1> DEFINE prior == completed \cap DOMAIN rows # {}
  <1>1. PICK cold \in {FALSE, MayBatch} :
            workers' = [workers EXCEPT ![w] =
                [step |-> "look", source |-> source, prior |-> prior, partials |-> DOMAIN rows,
                 cold |-> cold, owned |-> {}, begin |-> 1, blocks |-> {}, reused |-> FALSE,
                 output |-> 1, prefix |-> {}, start |-> 1, stop |-> 1, epoch |-> releases]]
    BY DEF Start
  <1> DEFINE r == [step |-> "look", source |-> source, prior |-> prior, partials |-> DOMAIN rows,
                   cold |-> cold, owned |-> {}, begin |-> 1, blocks |-> {}, reused |-> FALSE,
                   output |-> 1, prefix |-> {}, start |-> 1, stop |-> 1, epoch |-> releases]
  <1>2. Len(source) \in Nat \ {0}
    BY EmptySeq DEF Start, XInv
  <1>3. 1 \in Origins(source)
    <2>1. (1 - 1) % CanonicalSessions = 0
      BY DEF XInv, Lengths, CanonicalSessions
    <2> QED
      BY <1>2, <2>1 DEF Origins, Origin
  <1>4. cold => ~ prior
    BY DEF MayBatch
  <1>5. prior => Reusable(source)
    BY DEF Start
  <1>6. DOMAIN r = Fields /\ r.step = "look" /\ r.source = source /\ r.begin = 1
            /\ r.prior = prior /\ r.partials = DOMAIN rows /\ r.cold = cold /\ r.epoch = releases
            /\ r.output = 1
    BY DEF Fields
  <1>7. workers' = [workers EXCEPT ![w] = r]
    BY <1>1
  <1> HIDE DEF r, prior
  <1>8. Formed(r)
    BY <1>2, <1>3, <1>6 DEF Formed, XInv
  <1>9. Ordered(r)
    BY <1>4, <1>6 DEF Ordered
  <1>10. Reuses(r)
    <2>1. \A o \in Origins(source) : o >= 1
      BY DEF Origins
    <2>2. prior => Ahead(r)
      BY <1>5, <1>6, <2>1 DEF Ahead, Reusable, Known
    <2> QED
      BY <1>6, <2>2 DEF Reuses
  <1> QED
    BY <1>7, <1>8, <1>9, <1>10, OwnStep DEF Execution, Start

\* What is known of an execution at its block.
LEMMA LookFacts ==
    ASSUME XInv, NEW w \in Workers, ~ At(w, "idle")
    PROVE  LET r == workers[w] IN
           /\ Execution(r)
           /\ r.begin \in Origins(r.source) =>
                 /\ Last(w) = BlockEnd(r.source, r.begin)
                 /\ r.begin \in Nat
                 /\ Last(w) \in r.begin .. Len(r.source)
                 /\ Last(w) + 1 \in Origins(r.source) \cup {Len(r.source) + 1}
                 /\ \A o \in Origins(r.source) : o > r.begin => o >= Last(w) + 1
  <1> DEFINE r == workers[w]
  <1>1. Execution(r) /\ Lengths
    BY DEF XInv
  <1>2. Len(r.source) \in Nat
    BY <1>1 DEF Execution, Formed
  <1>3. ASSUME r.begin \in Origins(r.source)
        PROVE  /\ Last(w) = BlockEnd(r.source, r.begin)
               /\ r.begin \in Nat
               /\ Last(w) \in r.begin .. Len(r.source)
               /\ Last(w) + 1 \in Origins(r.source) \cup {Len(r.source) + 1}
               /\ \A o \in Origins(r.source) : o > r.begin => o >= Last(w) + 1
    <2>1. Last(w) = BlockEnd(r.source, r.begin)
      BY DEF Last
    <2>2. /\ Last(w) \in r.begin .. Len(r.source)
          /\ Last(w) + 1 \in Origins(r.source) \cup {Len(r.source) + 1}
          /\ \A o \in Origins(r.source) : o > r.begin => o > Last(w)
      BY <1>1, <1>2, <1>3, <2>1, NextOrigin
    <2>3. r.begin \in Nat /\ \A o \in Origins(r.source) : o \in Nat
      BY <1>2, <1>3 DEF Origins
    <2>4. Last(w) \in Nat
      BY <1>2, <2>2, <2>3
    <2> QED
      BY <2>1, <2>2, <2>3, <2>4
  <1> QED
    BY <1>1, <1>3

\* An execution that leaves its block behind looks at the next one.
LEMMA NextBlock ==
    ASSUME XInv, NEW w \in Workers, ~ At(w, "idle"), workers[w].begin \in Origins(workers[w].source),
           NEW r, DOMAIN r = Fields, r.source = workers[w].source, r.prior = workers[w].prior,
           r.partials = workers[w].partials, r.cold = workers[w].cold, r.epoch = workers[w].epoch,
           r.output = workers[w].output, r.begin = Last(w) + 1,
           r.step = "look",
           r.reused \/ (r.reused = workers[w].reused /\ workers[w].step # "look")
    PROVE  Execution(r)
  <1> DEFINE q == workers[w]
  <1>1. Execution(q)
    BY LookFacts
  <1>2. /\ q.begin \in Nat /\ Last(w) \in q.begin .. Len(q.source)
        /\ Last(w) + 1 \in Origins(q.source) \cup {Len(q.source) + 1}
        /\ \A o \in Origins(q.source) : o > q.begin => o >= Last(w) + 1
    BY LookFacts
  <1>3. Formed(r)
    BY <1>1, <1>2 DEF Execution, Formed
  <1>4. Ordered(r)
    BY <1>1 DEF Execution, Ordered
  <1>5. Reuses(r)
    <2>1. ASSUME r.epoch = releases, r.prior, ~ r.reused PROVE Ahead(r)
      <3>1. Ahead(q) /\ q.step # "look"
        BY <1>1, <2>1 DEF Execution, Reuses
      <3> QED
        BY <1>2, <3>1 DEF Ahead
    <2> QED
      BY <1>1, <2>1 DEF Execution, Reuses
  <1> QED
    BY <1>3, <1>4, <1>5 DEF Execution

\* A block that is there is used.
LEMMA ReuseSteps == ASSUME XInv, NEW w \in Workers, Reuse(w) PROVE XInv'
  <1> DEFINE q == workers[w]
             r == [q EXCEPT !.blocks = @ \cup {Key(w)}, !.begin = Last(w) + 1, !.reused = TRUE]
  <1>1. q.step = "look" /\ ~ At(w, "idle") /\ q.begin <= Len(q.source)
    BY DEF Reuse, Looking, At
  <1>2. Execution(q)
    BY <1>1, LookFacts
  <1>3. q.begin \in Origins(q.source)
    BY <1>1, <1>2 DEF Execution, Formed
  <1>4. workers' = [workers EXCEPT ![w] = r]
    BY DEF Reuse
  <1>5. DOMAIN r = Fields /\ r.source = q.source /\ r.prior = q.prior /\ r.partials = q.partials
            /\ r.cold = q.cold /\ r.epoch = q.epoch /\ r.output = q.output
            /\ r.begin = Last(w) + 1 /\ r.step = "look" /\ r.reused
    BY <1>1, <1>2 DEF Execution, Formed, Fields
  <1> HIDE DEF r
  <1>6. Execution(r)
    BY <1>1, <1>3, <1>5, NextBlock
  <1> QED
    BY <1>4, <1>6, OwnStep DEF Reuse

\* The longest proven prefix is used, and everything after it is unproven.
LEMMA ResumeSteps == ASSUME XInv, NEW w \in Workers, Resume(w) PROVE XInv'
  <1> DEFINE q == workers[w]
             end == Longest(Prefixes(w))
             prefix == BlockKey(q.source, q.begin, end)
             r == [q EXCEPT !.step = "publish", !.output = end + 1, !.prefix = {prefix}, !.cold = FALSE,
                            !.reused = TRUE,
                            !.start = NumericalStart(q.source, end + 1, Last(w), q.begin)]
  <1>1. q.step = "look" /\ ~ At(w, "idle") /\ q.begin <= Len(q.source)
    BY DEF Resume, Looking, At
  <1>2. Execution(q)
    BY <1>1, LookFacts
  <1>3. q.begin \in Origins(q.source)
    BY <1>1, <1>2 DEF Execution, Formed
  <1>4. Last(w) = BlockEnd(q.source, q.begin) /\ q.begin \in Nat /\ Last(w) \in Nat
    BY <1>1, <1>3, LookFacts
  <1>5. end \in Prefixes(w) /\ \A e \in Prefixes(w) : e <= end
    <2>1. Prefixes(w) \in SUBSET Nat /\ \A e \in Prefixes(w) : e <= Last(w)
      BY <1>4 DEF Prefixes
    <2>2. Prefixes(w) # {}
      BY DEF Resume
    <2> QED
      BY <1>4, <2>1, <2>2, MaxOfBounded DEF Longest
  <1> HIDE DEF end
  <1>6. end \in Nat /\ end < Last(w) /\ end >= q.begin
    BY <1>4, <1>5 DEF Prefixes
  <1>7. workers' = [workers EXCEPT ![w] = r]
    BY DEF Resume, end
  <1>8. DOMAIN r = Fields /\ r.source = q.source /\ r.prior = q.prior /\ r.partials = q.partials
            /\ r.cold = FALSE /\ r.epoch = q.epoch /\ r.output = end + 1
            /\ r.begin = q.begin /\ r.step = "publish" /\ r.reused = TRUE
    BY <1>1, <1>2 DEF Execution, Formed, Fields
  <1> HIDE DEF r
  <1>9. Formed(r)
    BY <1>2, <1>3, <1>6, <1>8 DEF Execution, Formed
  <1>10. Ordered(r)
    BY <1>8 DEF Ordered
  <1>11. ASSUME r.epoch = releases, NEW e \in r.output .. BlockEnd(r.source, r.begin)
         PROVE  BlockKey(r.source, r.begin, e) \notin r.partials
    <2>1. e \in end + 1 .. Last(w)
      BY <1>4, <1>8
    <2>2. CASE e = Last(w)
      <3>1. q.partials \subseteq DOMAIN rows
        BY <1>2, <1>8, <1>11 DEF Execution, Reuses
      <3>2. Key(w) \notin DOMAIN rows
        BY DEF Resume, Known
      <3> QED
        BY <1>8, <2>2, <3>1, <3>2 DEF Key
    <2>3. CASE e # Last(w)
      <3>1. e \in q.begin .. Last(w) - 1 /\ e > end
        BY <1>4, <1>6, <2>1, <2>3
      <3>2. e \notin Prefixes(w)
        BY <1>5, <1>6, <3>1
      <3> QED
        BY <1>8, <3>1, <3>2 DEF Prefixes
    <2> QED
      BY <2>2, <2>3
  <1>12. Reuses(r)
    BY <1>2, <1>8, <1>11 DEF Execution, Reuses
  <1> QED
    BY <1>7, <1>9, <1>10, <1>12, OwnStep DEF Execution, Resume

\* A block without a proven prefix is not the block that was proven.
LEMMA ComputeSteps == ASSUME XInv, NEW w \in Workers, Compute(w) PROVE XInv'
  <1> DEFINE q == workers[w]
             r == [q EXCEPT !.step = "publish", !.output = q.begin, !.prefix = {}, !.cold = FALSE,
                            !.start = NumericalStart(q.source, q.begin, Last(w), q.begin)]
  <1>1. q.step = "look" /\ ~ At(w, "idle") /\ q.begin <= Len(q.source)
    BY DEF Compute, Looking, At
  <1>2. Execution(q)
    BY <1>1, LookFacts
  <1>3. q.begin \in Origins(q.source)
    BY <1>1, <1>2 DEF Execution, Formed
  <1>4. Last(w) = BlockEnd(q.source, q.begin) /\ q.begin \in Nat /\ Last(w) \in Nat
    BY <1>1, <1>3, LookFacts
  <1>5. workers' = [workers EXCEPT ![w] = r]
    BY DEF Compute
  <1>6. DOMAIN r = Fields /\ r.source = q.source /\ r.prior = q.prior /\ r.partials = q.partials
            /\ r.cold = FALSE /\ r.epoch = q.epoch /\ r.output = q.begin
            /\ r.begin = q.begin /\ r.step = "publish" /\ r.reused = q.reused /\ r.prefix = {}
    BY <1>1, <1>2 DEF Execution, Formed, Fields
  <1> HIDE DEF r
  <1>7. Formed(r)
    BY <1>2, <1>3, <1>4, <1>6 DEF Execution, Formed
  <1>8. Ordered(r)
    BY <1>6 DEF Ordered
  <1>9. ASSUME r.epoch = releases, NEW e \in q.begin .. Last(w)
        PROVE  BlockKey(q.source, q.begin, e) \notin q.partials
    <2>1. CASE e = Last(w)
      <3>1. q.partials \subseteq DOMAIN rows
        BY <1>2, <1>6, <1>9 DEF Execution, Reuses
      <3>2. Key(w) \notin DOMAIN rows
        BY DEF Compute, Known
      <3> QED
        BY <2>1, <3>1, <3>2 DEF Key
    <2>2. CASE e # Last(w)
      <3>1. e \in q.begin .. Last(w) - 1
        BY <1>4, <2>2
      <3>2. e \notin Prefixes(w)
        BY DEF Compute
      <3> QED
        BY <3>1, <3>2 DEF Prefixes
    <2> QED
      BY <2>1, <2>2
  <1>10. ASSUME r.epoch = releases, r.prior, ~ r.reused PROVE Ahead(r)
    <2>1. Ahead(q)
      BY <1>2, <1>6, <1>10 DEF Execution, Reuses
    <2>2. PICK o \in Origins(q.source) :
              /\ o >= q.begin
              /\ \E end \in o .. BlockEnd(q.source, o) : BlockKey(q.source, o, end) \in q.partials
      BY <2>1 DEF Ahead
    <2>3. o # q.begin
      BY <1>4, <1>9, <1>10, <2>2
    <2>4. o \in Nat
      BY <1>2 DEF Execution, Formed, Origins
    <2>5. o > q.begin
      BY <1>4, <2>2, <2>3, <2>4
    <2> QED
      BY <1>6, <2>2, <2>5 DEF Ahead
  <1>11. Reuses(r)
    BY <1>2, <1>4, <1>6, <1>9, <1>10 DEF Execution, Reuses
  <1> QED
    BY <1>5, <1>7, <1>8, <1>11, OwnStep DEF Execution, Compute

LEMMA BatchSteps == ASSUME XInv, NEW w \in Workers, NEW count \in 2 .. BatchBlocks, Batch(w, count) PROVE XInv'
  <1> DEFINE q == workers[w]
  <1>1. q.step = "look" /\ ~ At(w, "idle") /\ q.cold
    BY DEF Batch, Looking, At
  <1>2. Execution(q)
    BY <1>1, LookFacts
  <1>3. PICK stop, start : workers' = [workers EXCEPT ![w].step = "batch", ![w].stop = stop, ![w].start = start]
    BY DEF Batch
  <1> DEFINE r == [q EXCEPT !.step = "batch", !.stop = stop, !.start = start]
  <1>4. workers' = [workers EXCEPT ![w] = r]
    BY <1>3
  <1>5. DOMAIN r = Fields /\ r.source = q.source /\ r.prior = q.prior /\ r.partials = q.partials
            /\ r.cold = q.cold /\ r.epoch = q.epoch /\ r.output = q.output
            /\ r.begin = q.begin /\ r.step = "batch"
    BY <1>1, <1>2 DEF Execution, Formed, Fields
  <1> HIDE DEF r
  <1>6. Execution(r)
    BY <1>1, <1>2, <1>5 DEF Execution, Formed, Ordered, Reuses
  <1> QED
    BY <1>4, <1>6, OwnStep DEF Batch

LEMMA RegisterGrows ==
    ASSUME NEW key, NEW cells, NEW sources, Register(key, cells, sources)
    PROVE  DOMAIN rows \subseteq DOMAIN rows'
  BY DEF Register

\* The block is published, or the fragment that a reused prefix lacks.
LEMMA PublishSteps == ASSUME XInv, NEW w \in Workers, Publish(w) PROVE XInv'
  <1> DEFINE q == workers[w]
  <1>1. q.step = "publish" /\ ~ At(w, "idle")
    BY DEF Publish, At
  <1>2. Execution(q)
    BY <1>1, LookFacts
  <1>3. q.begin \in Origins(q.source)
    BY <1>1, <1>2 DEF Execution, Formed
  <1>4. DOMAIN rows \subseteq DOMAIN rows'
    BY RegisterGrows DEF Publish
  <1>5. CASE q.prefix = {}
    <2> DEFINE r == [q EXCEPT !.step = "look", !.begin = Last(w) + 1, !.blocks = @ \cup {Key(w)}]
    <2>1. workers' = [workers EXCEPT ![w] = r]
      BY <1>5 DEF Publish
    <2>2. DOMAIN r = Fields /\ r.source = q.source /\ r.prior = q.prior /\ r.partials = q.partials
              /\ r.cold = q.cold /\ r.epoch = q.epoch /\ r.output = q.output
              /\ r.begin = Last(w) + 1 /\ r.step = "look" /\ r.reused = q.reused
      BY <1>2 DEF Execution, Formed, Fields
    <2> HIDE DEF r
    <2>3. Execution(r)
      BY <1>1, <1>3, <2>2, NextBlock
    <2> QED
      BY <1>4, <2>1, <2>3, OwnStep DEF Publish
  <1>6. CASE q.prefix # {}
    <2> DEFINE r == [q EXCEPT !.step = "join"]
    <2>1. workers' = [workers EXCEPT ![w] = r]
      BY <1>6 DEF Publish, Goto
    <2>2. DOMAIN r = Fields /\ r.source = q.source /\ r.prior = q.prior /\ r.partials = q.partials
              /\ r.cold = q.cold /\ r.epoch = q.epoch /\ r.output = q.output
              /\ r.begin = q.begin /\ r.step = "join" /\ r.reused = q.reused
      BY <1>2 DEF Execution, Formed, Fields
    <2> HIDE DEF r
    <2>3. Execution(r)
      BY <1>1, <1>2, <1>3, <1>6, <2>2 DEF Execution, Formed, Ordered, Reuses
    <2> QED
      BY <1>4, <2>1, <2>3, OwnStep DEF Publish
  <1> QED
    BY <1>5, <1>6

LEMMA JoinSteps == ASSUME XInv, NEW w \in Workers, Join(w) PROVE XInv'
  <1> DEFINE q == workers[w]
             r == [q EXCEPT !.step = "look", !.begin = Last(w) + 1, !.blocks = @ \cup {Key(w)}]
  <1>1. q.step = "join" /\ ~ At(w, "idle")
    BY DEF Join, At
  <1>2. Execution(q)
    BY <1>1, LookFacts
  <1>3. q.begin \in Origins(q.source)
    BY <1>1, <1>2 DEF Execution, Formed
  <1>4. DOMAIN rows \subseteq DOMAIN rows'
    BY RegisterGrows DEF Join
  <1>5. workers' = [workers EXCEPT ![w] = r]
    BY DEF Join
  <1>6. DOMAIN r = Fields /\ r.source = q.source /\ r.prior = q.prior /\ r.partials = q.partials
            /\ r.cold = q.cold /\ r.epoch = q.epoch /\ r.output = q.output
            /\ r.begin = Last(w) + 1 /\ r.step = "look" /\ r.reused = q.reused
    BY <1>2 DEF Execution, Formed, Fields
  <1> HIDE DEF r
  <1>7. Execution(r)
    BY <1>1, <1>3, <1>6, NextBlock
  <1> QED
    BY <1>4, <1>5, <1>7, OwnStep DEF Join

\* A cold batch goes on or looks again; there is nothing it could have reused.
LEMMA PublishBatchSteps == ASSUME XInv, NEW w \in Workers, PublishBatch(w) PROVE XInv'
  <1> DEFINE q == workers[w]
             step == IF Last(w) + 1 = q.stop THEN "look" ELSE "batch"
             r == [q EXCEPT !.begin = Last(w) + 1, !.blocks = @ \cup {Key(w)},
                            !.owned = @ \cup {Key(w)}, !.step = step]
  <1>1. q.step = "batch" /\ ~ At(w, "idle")
    BY DEF PublishBatch, At
  <1>2. Execution(q) /\ Lengths /\ Len(q.source) \in Nat
    BY <1>1, LookFacts DEF XInv, Execution, Formed
  <1>3. q.cold /\ ~ q.prior
    BY <1>1, <1>2 DEF Execution, Ordered
  <1>4. Last(w) + 1 \in Origins(q.source) \cup {Len(q.source) + 1}
    <2>1. CASE q.begin \in Origins(q.source)
      BY <1>1, <2>1, LookFacts
    <2>2. CASE q.begin = Len(q.source) + 1
      <3>1. CanonicalSessions \in Nat \ {0} /\ q.begin + CanonicalSessions - 1 \in Int
        BY <1>2, <2>2 DEF Lengths, CanonicalSessions
      <3>2. Last(w) = Len(q.source)
        BY <1>2, <2>2, <3>1, MinOfTwo DEF Last, BlockEnd
      <3> QED
        BY <3>2
    <2> QED
      BY <1>2, <2>1, <2>2 DEF Execution, Formed
  <1>5. DOMAIN rows \subseteq DOMAIN rows'
    BY RegisterGrows DEF PublishBatch
  <1>6. workers' = [workers EXCEPT ![w] = r]
    BY DEF PublishBatch
  <1>7. DOMAIN r = Fields /\ r.source = q.source /\ r.prior = q.prior /\ r.partials = q.partials
            /\ r.cold = q.cold /\ r.epoch = q.epoch /\ r.output = q.output
            /\ r.begin = Last(w) + 1 /\ r.step \in {"look", "batch"}
    BY <1>2 DEF Execution, Formed, Fields
  <1> HIDE DEF r
  <1>8. Execution(r)
    BY <1>2, <1>3, <1>4, <1>7 DEF Execution, Formed, Ordered, Reuses
  <1> QED
    BY <1>5, <1>6, <1>8, OwnStep DEF PublishBatch

\* At the end nothing lies ahead.
LEMMA FinishSteps == ASSUME XInv, NEW w \in Workers, Finish(w) PROVE XInv'
  <1> DEFINE q == workers[w]
             r == [q EXCEPT !.step = "complete"]
  <1>1. q.step = "look" /\ ~ At(w, "idle") /\ q.begin > Len(q.source)
    BY DEF Finish, At
  <1>2. Execution(q) /\ Len(q.source) \in Nat
    BY <1>1, LookFacts DEF Execution, Formed
  <1>3. \A o \in Origins(q.source) : o \in Nat /\ o <= Len(q.source)
    BY DEF Origins
  <1>4. q.begin = Len(q.source) + 1
    BY <1>1, <1>2, <1>3 DEF Execution, Formed
  <1>5. ~ Ahead(q)
    BY <1>2, <1>3, <1>4 DEF Ahead
  <1>6. DOMAIN rows \subseteq DOMAIN rows'
    BY RegisterGrows DEF Finish
  <1>7. workers' = [workers EXCEPT ![w] = r]
    BY DEF Finish, Goto
  <1>8. DOMAIN r = Fields /\ r.source = q.source /\ r.prior = q.prior /\ r.partials = q.partials
            /\ r.cold = q.cold /\ r.epoch = q.epoch /\ r.output = q.output
            /\ r.begin = q.begin /\ r.step = "complete" /\ r.reused = q.reused
    BY <1>2 DEF Execution, Formed, Fields
  <1> HIDE DEF r
  <1>9. Execution(r)
    BY <1>2, <1>4, <1>5, <1>8 DEF Execution, Formed, Ordered, Reuses
  <1> QED
    BY <1>6, <1>7, <1>9, OwnStep DEF Finish

LEMMA EndSteps == ASSUME XInv, NEW w \in Workers, Complete(w) \/ Interrupt(w) PROVE XInv'
  BY OwnStep DEF Complete, Interrupt, Idle

\* A retirement, or more of the source.
LEMMA OtherSteps ==
    ASSUME XInv, UNCHANGED <<scope, operation, workers>>, RowsGo, source' \in Seq(Contents)
    PROVE  XInv'
  <1>1. \A r : Execution(r) => Execution(r)'
    BY ExecutionStays DEF XInv
  <1>2. \A w \in Workers : (At(w, "idle") \/ Execution(workers[w]))'
    BY <1>1 DEF XInv, At
  <1> QED
    BY <1>2 DEF XInv, Lengths, RowsGo

LEMMA SourceStays ==
    ASSUME XInv,
           \/ \E members \in SUBSET Assets : Observe(members)
           \/ \E t \in DOMAIN source : Restate(t)
    PROVE  source' \in Seq(Contents) /\ UNCHANGED <<scope, operation>>
  <1>1. ASSUME NEW members \in SUBSET Assets, Observe(members) PROVE source' \in Seq(Contents)
    <2>1. [members |-> members, edition |-> 0] \in Contents
      BY DEF Contents
    <2> QED
      BY <1>1, <2>1, AppendProperties DEF Observe, XInv
  <1>2. ASSUME NEW t \in DOMAIN source, Restate(t) PROVE source' \in Seq(Contents)
    <2>1. source \in Seq(Contents) /\ t \in 1 .. Len(source)
      BY LenProperties DEF XInv
    <2>2. source[t] \in Contents
      BY <2>1, ElementOfSeq
    <2> DEFINE content == [source[t] EXCEPT !.edition = 1]
    <2>3. content \in Contents
      BY <2>2 DEF Contents
    <2>4. source' = [source EXCEPT ![t] = content]
      BY <1>2 DEF Restate
    <2> HIDE DEF content
    <2> QED
      BY <2>1, <2>3, <2>4, ExceptSeq
  <1> QED
    BY <1>1, <1>2 DEF Observe, Restate

LEMMA XInvStep == XInv /\ [Next]_vars => XInv'
  <1> SUFFICES ASSUME XInv, [Next]_vars PROVE XInv'
    OBVIOUS
  <1>1. CASE \E w \in Workers : Execute(w)
    BY <1>1, StartSteps, ReuseSteps, ResumeSteps, ComputeSteps, BatchSteps, PublishSteps, JoinSteps,
       PublishBatchSteps, FinishSteps, EndSteps DEF Execute
  <1>2. CASE \/ \E members \in SUBSET Assets : Observe(members) /\ UNCHANGED node
             \/ \E t \in DOMAIN source : Restate(t) /\ UNCHANGED node
    BY <1>2, SourceStays, OtherSteps DEF node, RowsGo
  <1>3. CASE \E keys \in SUBSET DOMAIN rows : Retire(keys)
    BY <1>3, OtherSteps DEF Retire, RowsGo, XInv
  <1>4. CASE UNCHANGED vars
    BY <1>4, OtherSteps DEF vars, RowsGo, XInv
  <1> QED
    BY <1>1, <1>2, <1>3, <1>4 DEF Next

LEMMA XInvInit == Init => XInv
  <1> SUFFICES ASSUME Init PROVE XInv
    OBVIOUS
  <1>1. Lengths
    BY ScopesAssumption DEF Init, Lengths
  <1>2. source \in Seq(Contents)
    BY EmptySeq DEF Init
  <1> QED
    BY <1>1, <1>2 DEF Init, XInv, At, Idle

LEMMA XInvReuses == XInv => NothingProvenIsRecomputed /\ CompletedHistoryIsReused
  <1> SUFFICES ASSUME XInv PROVE NothingProvenIsRecomputed /\ CompletedHistoryIsReused
    OBVIOUS
  <1>1. NothingProvenIsRecomputed
    <2>1. ASSUME NEW w \in Workers, At(w, "publish"), workers[w].epoch = releases,
                 NEW e \in workers[w].output .. Last(w)
          PROVE  BlockKey(workers[w].source, workers[w].begin, e) \notin workers[w].partials
      <3>1. Execution(workers[w])
        BY <2>1 DEF XInv, At
      <3> QED
        BY <2>1, <3>1 DEF Execution, Reuses, At, Last
    <2> QED
      BY <2>1 DEF NothingProvenIsRecomputed
  <1>2. CompletedHistoryIsReused
    <2>1. ASSUME NEW w \in Workers, At(w, "complete"), workers[w].prior, workers[w].epoch = releases
          PROVE  workers[w].reused
      <3> DEFINE q == workers[w]
      <3>1. Execution(q) /\ q.step = "complete"
        BY <2>1 DEF XInv, At
      <3>2. q.begin = Len(q.source) + 1 /\ Len(q.source) \in Nat
        BY <3>1 DEF Execution, Formed
      <3>3. \A o \in Origins(q.source) : o \in Nat /\ o <= Len(q.source)
        BY DEF Origins
      <3>4. ~ Ahead(q)
        BY <3>2, <3>3 DEF Ahead
      <3> QED
        BY <2>1, <3>1, <3>4 DEF Execution, Reuses
    <2> QED
      BY <2>1 DEF CompletedHistoryIsReused
  <1> QED
    BY <1>1, <1>2

\* "Never silent full-history replay": until something is retired, an execution computes no
\* session that a proven block covers, and one over completed history uses some of it.
THEOREM FiniteReusesHistory == PolicySpec => []FiniteHistoryIsReused
  <1> DEFINE PInv == policy = "finite" => XInv
  <1>1. PolicyInit => PInv
    BY XInvInit DEF PolicyInit
  <1>2. PInv /\ [PolicyNext]_allVars => PInv'
    <2> SUFFICES ASSUME PInv, [PolicyNext]_allVars, (policy = "finite")' PROVE XInv'
      OBVIOUS
    <2>1. policy = "finite" /\ XInv
      BY DEF PolicyNext, allVars
    <2>2. [Next]_vars
      BY <2>1 DEF PolicyNext, allVars, finiteOnly, vars
    <2> QED
      BY <2>1, <2>2, XInvStep
  <1>3. PInv => FiniteHistoryIsReused
    BY XInvReuses DEF FiniteHistoryIsReused
  <1> HIDE DEF PInv
  <1> QED
    BY <1>1, <1>2, <1>3, PTL DEF PolicySpec

-----------------------------------------------------------------------------
(* What is published, and what an execution is about to publish. *)

\* What follows from the proof of a key.
Proven(key) == [t \in key.first .. key.last |-> Cells(key.proof, DOMAIN key.proof, t)]

\* What may be registered under a key.
Fits(key, cells) ==
    /\ key.kind \in {"block", "fragment", "result"}
    /\ key.kind # "result" => cells = Proven(key)
    /\ key.kind = "result" =>
          /\ cells = [t \in 1 .. key.last |-> WholeHistory(key.proof, t)]
          /\ \A t \in 1 .. key.last : Reaches(key.proof, t, cells[t])

RowsFit == \A k \in DOMAIN rows : Fits(k, rows[k].cells)

\* The blocks of a source in front of a session.
BlocksBefore(s, begin) ==
    {BlockKey(s, o, BlockEnd(s, o)) : o \in {p \in Origins(s) : p < begin}}

\* A prefix of the block is continued behind its end, or the block is computed whole.
Continues(r) ==
    \/ r.prefix = {} /\ r.output = r.begin
    \/ r.prefix = {BlockKey(r.source, r.begin, r.output - 1)} /\ r.output > r.begin

\* A batch is of whole blocks and starts where any of them asks.
Batched(r) ==
    /\ operation \in {"pointwise", "exact"}
    /\ r.begin \in Origins(r.source)
    /\ r.stop \in Origins(r.source) \cup {Len(r.source) + 1} /\ r.begin < r.stop
    /\ r.start \in Nat \ {0}
    /\ \A o \in Origins(r.source) : r.begin <= o /\ o < r.stop =>
          r.start <= NumericalStart(r.source, o, BlockEnd(r.source, o), o)

\* What an execution has and is about to publish.
Sound(r) ==
    /\ r.source \in Seq(Contents)
    /\ r.blocks = BlocksBefore(r.source, r.begin)
    /\ r.cold => operation \in {"pointwise", "exact"}
    /\ r.step = "publish" =>
          r.start = NumericalStart(r.source, r.output, BlockEnd(r.source, r.begin), r.begin)
    /\ r.step \in {"publish", "join"} =>
          r.output \in r.begin .. BlockEnd(r.source, r.begin) /\ Continues(r)
    /\ r.step = "join" => r.prefix # {}
    /\ r.step = "batch" => Batched(r)

VInv ==
    /\ XInv
    /\ Settled
    /\ RowsFit
    /\ \A w \in Workers : At(w, "idle") \/ Sound(workers[w])

LEMMA CellsStay ==
    ASSUME UNCHANGED <<scope, operation>>
    PROVE  /\ \A s, W, t : Cells(s, W, t)' = Cells(s, W, t)
           /\ \A s, o : Halo(s, o)' = Halo(s, o)
           /\ \A s, a, t : Latest(Observed(s, a, t), History)' = Latest(Observed(s, a, t), History)
  <1>1. History' = History
    BY DEF History, Observations
  <1>2. \A s, a, W, t : Consumed(s, W, a, t)' = Consumed(s, W, a, t)
    BY <1>1 DEF Consumed, Latest, Observed
  <1>3. \A s, W, t : Cells(s, W, t)' = Cells(s, W, t)
    BY <1>2 DEF Cells
  <1>4. \A s, a, t : Latest(Observed(s, a, t), History)' = Latest(Observed(s, a, t), History)
    BY <1>1 DEF Latest, Observed
  <1>5. \A s, o : Halo(s, o)' = Halo(s, o)
    BY <1>1 DEF Halo, Latest, Observed
  <1> QED
    BY <1>3, <1>4, <1>5

LEMMA FitsStay ==
    ASSUME UNCHANGED <<scope, operation>>
    PROVE  \A key, cells : Fits(key, cells)' = Fits(key, cells)
  <1>1. \A key : Proven(key)' = Proven(key)
    BY CellsStay DEF Proven
  <1>2. \A s, t : WholeHistory(s, t)' = WholeHistory(s, t)
    <2>1. \A t : Origin(t)' = Origin(t)
      BY DEF Origin, CanonicalSessions
    <2> QED
      BY <2>1, CellsStay DEF WholeHistory
  <1>3. \A s, t, cells : Reaches(s, t, cells)' = Reaches(s, t, cells)
    BY CellsStay DEF Reaches
  <1> QED
    BY <1>1, <1>2, <1>3 DEF Fits

LEMMA SoundStays ==
    ASSUME UNCHANGED <<scope, operation>>
    PROVE  \A r : Sound(r)' = Sound(r)
  <1>1. \A s, first, last, o : NumericalStart(s, first, last, o)' = NumericalStart(s, first, last, o)
    <2>1. History' = History
      BY DEF History, Observations
    <2> QED
      BY <2>1, CellsStay DEF NumericalStart, Latest, Observed
  <1>2. \A s, begin : BlocksBefore(s, begin)' = BlocksBefore(s, begin)
    BY KeysStay DEF BlocksBefore
  <1>3. \A r : Continues(r)' = Continues(r)
    BY KeysStay DEF Continues
  <1>4. \A r : Batched(r)' = Batched(r)
    BY <1>1, KeysStay DEF Batched
  <1> QED
    BY <1>1, <1>2, <1>3, <1>4, KeysStay DEF Sound

\* What is registered fits its key.
LEMMA RegisterFits ==
    ASSUME RowsFit, UNCHANGED <<scope, operation>>, NEW key, NEW cells, NEW sources,
           Register(key, cells, sources), Fits(key, cells)
    PROVE  RowsFit'
  <1>1. \A k, c : Fits(k, c)' = Fits(k, c)
    BY FitsStay
  <1>2. ASSUME NEW k \in DOMAIN rows' PROVE Fits(k, rows'[k].cells)
    <2>1. CASE Known(key)
      BY <2>1 DEF Register, RowsFit
    <2>2. CASE ~ Known(key)
      BY <2>2 DEF Register, RowsFit, Known
    <2> QED
      BY <2>1, <2>2
  <1> QED
    BY <1>1, <1>2 DEF RowsFit

\* A step of one execution that leaves it sound.
LEMMA OwnSound ==
    ASSUME VInv, XInv', UNCHANGED <<scope, operation>>, RowsFit', NEW w \in Workers, NEW r,
           workers' = [workers EXCEPT ![w] = r], r.step = "idle" \/ Sound(r)
    PROVE  VInv'
  <1>1. \A q : Sound(q)' = Sound(q)
    BY SoundStays
  <1>2. \A v \in Workers : workers'[v] = IF v = w THEN r ELSE workers[v]
    BY DEF VInv, XInv
  <1>3. ASSUME NEW v \in Workers PROVE (At(v, "idle") \/ Sound(workers[v]))'
    <2>1. CASE v = w
      BY <1>1, <1>2, <2>1 DEF At
    <2>2. CASE v # w
      BY <1>1, <1>2, <2>2 DEF At, VInv
    <2> QED
      BY <2>1, <2>2
  <1>4. Settled'
    BY DEF VInv, Settled, Lengths
  <1> QED
    BY <1>3, <1>4 DEF VInv

\* Rows that no step of an execution touches.
LEMMA SameRowsFit == ASSUME RowsFit, UNCHANGED <<scope, operation, rows>> PROVE RowsFit'
  BY FitsStay DEF RowsFit

-----------------------------------------------------------------------------
(* What is composed and computed. *)

\* A result composed of rows that lie side by side.
LEMMA Composition ==
    ASSUME NEW keys, NEW f, f = [t \in DOMAIN f |-> f[t]],
           DOMAIN f = UNION {k.first .. k.last : k \in keys},
           \A k \in keys : \A t \in k.first .. k.last : rows[k].cells[t] = f[t]
    PROVE  Composed(keys) = f
  <1> DEFINE covering(t) == CHOOSE k \in keys : t \in k.first .. k.last
  <1>1. ASSUME NEW t \in DOMAIN f PROVE rows[covering(t)].cells[t] = f[t]
    <2>1. \E k \in keys : t \in k.first .. k.last
      OBVIOUS
    <2>2. covering(t) \in keys /\ t \in covering(t).first .. covering(t).last
      BY <2>1
    <2> HIDE DEF covering
    <2> QED
      BY <2>2
  <1>2. Composed(keys) = [t \in DOMAIN f |-> rows[covering(t)].cells[t]]
    BY DEF Composed
  <1> HIDE DEF covering
  <1> QED
    BY <1>1, <1>2

LEMMA BlockKeyFields ==
    ASSUME NEW s, NEW o, NEW e
    PROVE  LET k == BlockKey(s, o, e) IN
           /\ k.kind = "block" /\ k.first = o /\ k.last = e /\ k.proof = HaloProof(s, o, e)
           /\ \A first : LET f == FragmentKey(k, first) IN
                 f.kind = "fragment" /\ f.first = first /\ f.last = e /\ f.proof = k.proof
  BY DEF BlockKey, Proof, HaloProof, FragmentKey

\* What a kernel gives for a session of a block is what the block's proof gives.
LEMMA KernelFollowsProof ==
    ASSUME Settled, NEW s \in Seq(Contents), NEW o \in Origins(s), NEW b \in BlockEnd(s, o) .. Len(s),
           NEW first \in Nat, NEW t \in first .. BlockEnd(s, o), t >= o,
           NEW start, Suffices(s, o, start, t)
    PROVE  LET p == BlockKey(s, o, BlockEnd(s, o)).proof IN
           Kernel(s, start, first, b)[t] = Cells(p, DOMAIN p, t)
  <1> DEFINE e == BlockEnd(s, o)
             p == HaloProof(s, o, e)
  <1>1. Len(s) \in Nat /\ o \in 1 .. Len(s) /\ Lengths
    BY LenProperties, OriginsAreMultiples DEF Settled
  <1>2. e \in o .. Len(s)
    BY <1>1, NextOrigin
  <1>3. /\ t \in o .. e /\ b \in t .. Len(s) /\ t \in first .. b /\ start \in Nat \ {0}
        /\ b \in start .. Len(s)
    BY <1>1, <1>2 DEF Suffices
  <1>4. ParentWindow(s, start, b) = start .. b
    BY <1>1, <1>3, WindowIsInterval
  <1>5. Kernel(s, start, first, b)[t] = Cells(s, start .. b, t)
    BY <1>3, <1>4 DEF Kernel
  <1>6. Cells(s, start .. b, t) = Cells(p, DOMAIN p, t)
    BY <1>1, <1>2, <1>3, ProofDetermines
  <1> QED
    BY <1>5, <1>6, BlockKeyFields

\* What an execution publishes is what the key of its block proves.
LEMMA OutputFollows ==
    ASSUME VInv, NEW w \in Workers, At(w, "publish")
    PROVE  LET p == Key(w).proof IN
           Output(w) = [t \in workers[w].output .. Last(w) |-> Cells(p, DOMAIN p, t)]
  <1> DEFINE r == workers[w]
             s == r.source
             o == r.begin
             p == Key(w).proof
  <1>1. Sound(r) /\ Settled /\ ~ At(w, "idle") /\ Execution(r) /\ XInv
    BY DEF VInv, XInv, At
  <1>2. s \in Seq(Contents) /\ o \in Origins(s)
    BY <1>1 DEF Sound, Execution, Formed, At
  <1>3. Last(w) = BlockEnd(s, o) /\ o \in Nat /\ Last(w) \in o .. Len(s)
    BY <1>1, <1>2, LookFacts
  <1>4. r.output \in o .. Last(w) /\ r.start = NumericalStart(s, r.output, Last(w), o)
    BY <1>1, <1>3 DEF Sound, At
  <1>5. Len(s) \in Nat /\ o \in 1 .. Len(s)
    BY <1>1, <1>2, LenProperties, OriginsAreMultiples DEF Settled
  <1>6. ASSUME NEW t \in r.output .. Last(w) PROVE Output(w)[t] = Cells(p, DOMAIN p, t)
    <2>1. r.output \in o .. Len(s) /\ Last(w) \in r.output .. Len(s)
      BY <1>3, <1>4, <1>5
    <2>2. Suffices(s, o, r.start, t)
      BY <1>1, <1>2, <1>4, <1>5, <1>6, <2>1, StartSuffices
    <2>3. t >= o /\ Last(w) \in BlockEnd(s, o) .. Len(s) /\ r.output \in Nat
      BY <1>3, <1>4, <1>5
    <2> QED
      BY <1>1, <1>2, <1>3, <1>6, <2>2, <2>3, KernelFollowsProof DEF Output, Key
  <1>7. Output(w) = [t \in r.output .. Last(w) |-> Output(w)[t]]
    BY DEF Output, Kernel
  <1> QED
    BY <1>6, <1>7

-----------------------------------------------------------------------------
(* The steps of an execution, and what they publish. *)

LEMMA StartIsSound == ASSUME VInv, XInv', NEW w \in Workers, Start(w) PROVE VInv'
  <1>1. PICK cold \in {FALSE, MayBatch} :
            workers' = [workers EXCEPT ![w] =
                [step |-> "look", source |-> source, prior |-> completed \cap DOMAIN rows # {},
                 partials |-> DOMAIN rows,
                 cold |-> cold, owned |-> {}, begin |-> 1, blocks |-> {}, reused |-> FALSE,
                 output |-> 1, prefix |-> {}, start |-> 1, stop |-> 1, epoch |-> releases]]
    BY DEF Start
  <1> DEFINE r == [step |-> "look", source |-> source, prior |-> completed \cap DOMAIN rows # {},
                   partials |-> DOMAIN rows,
                   cold |-> cold, owned |-> {}, begin |-> 1, blocks |-> {}, reused |-> FALSE,
                   output |-> 1, prefix |-> {}, start |-> 1, stop |-> 1, epoch |-> releases]
  <1>2. r.step = "look" /\ r.source = source /\ r.begin = 1 /\ r.blocks = {} /\ r.cold = cold
    OBVIOUS
  <1>3. workers' = [workers EXCEPT ![w] = r]
    BY <1>1
  <1> HIDE DEF r
  <1>4. BlocksBefore(source, 1) = {}
    BY DEF BlocksBefore, Origins
  <1>5. cold => operation \in {"pointwise", "exact"}
    BY DEF MayBatch
  <1>6. Sound(r)
    BY <1>2, <1>4, <1>5 DEF Sound, VInv, XInv
  <1>7. RowsFit' /\ UNCHANGED <<scope, operation>>
    BY SameRowsFit DEF Start, VInv
  <1> QED
    BY <1>3, <1>6, <1>7, OwnSound

\* An execution that has its block looks at the next one, with one block more.
LEMMA NextIsSound ==
    ASSUME VInv, NEW w \in Workers, ~ At(w, "idle"), workers[w].begin \in Origins(workers[w].source),
           NEW r, r.source = workers[w].source, r.cold = workers[w].cold,
           r.blocks = workers[w].blocks \cup {Key(w)}, r.begin = Last(w) + 1,
           r.step = "look" \/ (r.step = "batch" /\ Batched(r))
    PROVE  Sound(r)
  <1> DEFINE s == workers[w].source
             o == workers[w].begin
  <1>1. Sound(workers[w]) /\ XInv
    BY DEF VInv, At
  <1>2. /\ Last(w) = BlockEnd(s, o) /\ o \in Nat /\ Last(w) \in o .. Len(s)
        /\ \A q \in Origins(s) : q > o => q >= Last(w) + 1
    BY <1>1, LookFacts
  <1>3. {q \in Origins(s) : q < Last(w) + 1} = {q \in Origins(s) : q < o} \cup {o}
    <2>1. \A q \in Origins(s) : q \in Nat
      BY <1>1, LenProperties DEF Origins, Sound
    <2> QED
      BY <1>2, <2>1
  <1>4. BlocksBefore(s, Last(w) + 1) = BlocksBefore(s, o) \cup {Key(w)}
    BY <1>2, <1>3 DEF BlocksBefore, Key
  <1> QED
    BY <1>1, <1>4 DEF Sound

LEMMA ReuseIsSound == ASSUME VInv, XInv', NEW w \in Workers, Reuse(w) PROVE VInv'
  <1> DEFINE q == workers[w]
             r == [q EXCEPT !.blocks = @ \cup {Key(w)}, !.begin = Last(w) + 1, !.reused = TRUE]
  <1>1. q.step = "look" /\ ~ At(w, "idle") /\ q.begin <= Len(q.source)
    BY DEF Reuse, Looking, At
  <1>2. Formed(q)
    BY <1>1, LookFacts DEF VInv, Execution
  <1>3. q.begin \in Origins(q.source)
    BY <1>1, <1>2 DEF Formed
  <1>4. workers' = [workers EXCEPT ![w] = r]
    BY DEF Reuse
  <1>5. r.source = q.source /\ r.cold = q.cold /\ r.blocks = q.blocks \cup {Key(w)}
            /\ r.begin = Last(w) + 1 /\ r.step = "look"
    BY <1>1, <1>2 DEF Formed, Fields
  <1> HIDE DEF r
  <1>6. Sound(r)
    BY <1>1, <1>3, <1>5, NextIsSound
  <1>7. RowsFit' /\ UNCHANGED <<scope, operation>>
    BY SameRowsFit DEF Reuse, VInv
  <1> QED
    BY <1>4, <1>6, <1>7, OwnSound

LEMMA ResumeIsSound == ASSUME VInv, XInv', NEW w \in Workers, Resume(w) PROVE VInv'
  <1> DEFINE q == workers[w]
             end == Longest(Prefixes(w))
             prefix == BlockKey(q.source, q.begin, end)
             r == [q EXCEPT !.step = "publish", !.output = end + 1, !.prefix = {prefix}, !.cold = FALSE,
                            !.reused = TRUE,
                            !.start = NumericalStart(q.source, end + 1, Last(w), q.begin)]
  <1>1. q.step = "look" /\ ~ At(w, "idle") /\ q.begin <= Len(q.source)
    BY DEF Resume, Looking, At
  <1>2. Formed(q) /\ Sound(q)
    BY <1>1, LookFacts DEF VInv, Execution
  <1>3. q.begin \in Origins(q.source)
    BY <1>1, <1>2 DEF Formed
  <1>4. Last(w) = BlockEnd(q.source, q.begin) /\ q.begin \in Nat /\ Last(w) \in Nat
    BY <1>1, <1>3, LookFacts DEF VInv
  <1>5. end \in q.begin .. Last(w) - 1
    <2>1. Prefixes(w) \in SUBSET Nat /\ \A e \in Prefixes(w) : e <= Last(w)
      BY <1>4 DEF Prefixes
    <2>2. Prefixes(w) # {}
      BY DEF Resume
    <2>3. end \in Prefixes(w)
      BY <1>4, <2>1, <2>2, MaxOfBounded DEF Longest
    <2> QED
      BY <2>3 DEF Prefixes
  <1>6. workers' = [workers EXCEPT ![w] = r]
    BY DEF Resume
  <1>7. r.source = q.source /\ r.cold = FALSE /\ r.blocks = q.blocks /\ r.begin = q.begin
            /\ r.step = "publish" /\ r.output = end + 1
            /\ r.prefix = {BlockKey(q.source, q.begin, end)}
            /\ r.start = NumericalStart(q.source, end + 1, Last(w), q.begin)
    BY <1>2 DEF Formed, Fields
  <1> HIDE DEF r, end
  <1>8. r.output \in q.begin .. Last(w) /\ r.output > q.begin /\ r.output - 1 = end
    BY <1>4, <1>5, <1>7
  <1>9. Continues(r)
    BY <1>7, <1>8 DEF Continues
  <1>10. Sound(r)
    BY <1>2, <1>4, <1>7, <1>8, <1>9 DEF Sound
  <1>11. RowsFit' /\ UNCHANGED <<scope, operation>>
    BY SameRowsFit DEF Resume, VInv
  <1> QED
    BY <1>6, <1>10, <1>11, OwnSound

LEMMA ComputeIsSound == ASSUME VInv, XInv', NEW w \in Workers, Compute(w) PROVE VInv'
  <1> DEFINE q == workers[w]
             r == [q EXCEPT !.step = "publish", !.output = q.begin, !.prefix = {}, !.cold = FALSE,
                            !.start = NumericalStart(q.source, q.begin, Last(w), q.begin)]
  <1>1. q.step = "look" /\ ~ At(w, "idle") /\ q.begin <= Len(q.source)
    BY DEF Compute, Looking, At
  <1>2. Formed(q) /\ Sound(q)
    BY <1>1, LookFacts DEF VInv, Execution
  <1>3. q.begin \in Origins(q.source)
    BY <1>1, <1>2 DEF Formed
  <1>4. Last(w) = BlockEnd(q.source, q.begin) /\ q.begin \in Nat /\ Last(w) \in q.begin .. Len(q.source)
    BY <1>1, <1>3, LookFacts DEF VInv
  <1>5. workers' = [workers EXCEPT ![w] = r]
    BY DEF Compute
  <1>6. r.source = q.source /\ r.cold = FALSE /\ r.blocks = q.blocks /\ r.begin = q.begin
            /\ r.step = "publish" /\ r.output = q.begin /\ r.prefix = {}
            /\ r.start = NumericalStart(q.source, q.begin, Last(w), q.begin)
    BY <1>2 DEF Formed, Fields
  <1> HIDE DEF r
  <1>7. r.output \in q.begin .. Last(w) /\ Continues(r)
    BY <1>4, <1>6 DEF Continues
  <1>8. Sound(r)
    BY <1>2, <1>4, <1>6, <1>7 DEF Sound
  <1>9. RowsFit' /\ UNCHANGED <<scope, operation>>
    BY SameRowsFit DEF Compute, VInv
  <1> QED
    BY <1>5, <1>8, <1>9, OwnSound

\* Whole blocks further on, a block begins or the source ends.
LEMMA StopOfBatch ==
    ASSUME Lengths, NEW s, Len(s) \in Nat, NEW o \in Origins(s), NEW count \in Nat \ {0}
    PROVE  LET stop == Min({o + count * CanonicalSessions, Len(s) + 1}) IN
           stop \in Origins(s) \cup {Len(s) + 1} /\ o < stop
  <1> DEFINE c == scope.canonicalSessions
             next == o + count * CanonicalSessions
  <1>1. c \in Nat \ {0} /\ o \in 1 .. Len(s) /\ (o - 1) % c = 0
    BY OriginsAreMultiples DEF Lengths
  <1>2. count * c \in Nat \ {0} /\ next = o + count * c
    BY <1>1 DEF CanonicalSessions
  <1> HIDE DEF next
  <1>3. Min({next, Len(s) + 1}) = IF next <= Len(s) + 1 THEN next ELSE Len(s) + 1
    BY <1>1, <1>2, MinOfTwo
  <1>4. ASSUME next <= Len(s) PROVE next \in Origins(s)
    <2>1. PICK p \in Nat : o - 1 = c * p
      <3>1. o - 1 \in Nat
        BY <1>1
      <3> HIDE DEF c
      <3>2. o - 1 = c * ((o - 1) \div c) + ((o - 1) % c) /\ (o - 1) \div c \in Nat
        BY <1>1, <3>1
      <3>3. o - 1 = c * ((o - 1) \div c)
        BY <1>1, <3>2
      <3> QED
        BY <3>2, <3>3
    <2>2. next - 1 = c * (p + count)
      <3> HIDE DEF c
      <3>1. c * (p + count) = c * p + count * c
        BY <1>1, <2>1
      <3> QED
        BY <1>1, <1>2, <2>1, <3>1
    <2>3. (c * (p + count)) % c = 0
      <3> HIDE DEF c
      <3> QED
        BY <1>1, <2>1
    <2>4. next \in 1 .. Len(s) /\ (next - 1) % c = 0
      BY <1>1, <1>2, <1>4, <2>2, <2>3
    <2> HIDE DEF c
    <2>5. next - ((next - 1) % c) = next
      BY <2>4
    <2> QED
      BY <2>4, <2>5 DEF Origins, Origin, CanonicalSessions, c
  <1>5. o < next /\ next \in Nat
    BY <1>1, <1>2
  <1> QED
    BY <1>1, <1>3, <1>4, <1>5 DEF next

LEMMA BatchIsSound ==
    ASSUME VInv, XInv', NEW w \in Workers, NEW count \in 2 .. BatchBlocks, Batch(w, count)
    PROVE  VInv'
  <1> DEFINE q == workers[w]
             s == q.source
             stop == Min({q.begin + count * CanonicalSessions, Len(s) + 1})
             starts_ == {NumericalStart(s, o, BlockEnd(s, o), o) : o \in Origins(s) \cap (q.begin .. stop - 1)}
             r == [q EXCEPT !.step = "batch", !.stop = stop, !.start = Min(starts_)]
  <1>1. q.step = "look" /\ ~ At(w, "idle") /\ q.cold /\ q.begin <= Len(s)
    BY DEF Batch, Looking, At
  <1>2. Formed(q) /\ Sound(q) /\ Settled /\ Lengths
    BY <1>1, LookFacts DEF VInv, Execution, Settled
  <1>3. q.begin \in Origins(s) /\ s \in Seq(Contents) /\ Len(s) \in Nat
    BY <1>1, <1>2 DEF Formed, Sound
  <1>4. stop \in Origins(s) \cup {Len(s) + 1} /\ q.begin < stop
    <2>1. count \in Nat \ {0}
      BY BoundsAssumption
    <2> QED
      BY <1>2, <1>3, <2>1, StopOfBatch
  <1>5. workers' = [workers EXCEPT ![w] = r]
    BY DEF Batch
  <1>6. \A o \in Origins(s) : o \in 1 .. Len(s) /\ BlockEnd(s, o) \in o .. Len(s)
    BY <1>2, <1>3, OriginsAreMultiples, NextOrigin
  <1> HIDE DEF stop
  <1>7. ASSUME NEW o \in Origins(s) PROVE NumericalStart(s, o, BlockEnd(s, o), o) \in Nat \ {0}
    <2>1. o \in o .. Len(s) /\ o \in o .. BlockEnd(s, o) /\ o \in 1 .. Len(s)
      BY <1>6
    <2>2. Suffices(s, o, NumericalStart(s, o, BlockEnd(s, o), o), o)
      BY <1>2, <1>3, <1>6, <2>1, StartSuffices
    <2> QED
      BY <2>1, <2>2 DEF Suffices
  <1>8. stop \in Nat /\ q.begin \in q.begin .. stop - 1
    BY <1>3, <1>4, <1>6
  <1>9. starts_ \in SUBSET (Nat \ {0}) /\ starts_ # {}
    BY <1>3, <1>7, <1>8
  <1>10. Min(starts_) \in Nat \ {0} /\ \A n \in starts_ : Min(starts_) <= n
    BY <1>9, MinOfNumbers
  <1>11. ASSUME NEW o \in Origins(s), q.begin <= o, o < stop
         PROVE  Min(starts_) <= NumericalStart(s, o, BlockEnd(s, o), o)
    <2>1. o \in q.begin .. stop - 1
      BY <1>3, <1>6, <1>8, <1>11
    <2> QED
      BY <1>10, <2>1
  <1>12. r.source = s /\ r.cold = q.cold /\ r.blocks = q.blocks /\ r.begin = q.begin
            /\ r.step = "batch" /\ r.stop = stop /\ r.start = Min(starts_)
    BY <1>2 DEF Formed, Fields
  <1> HIDE DEF r, starts_
  <1>13. Batched(r)
    BY <1>1, <1>2, <1>3, <1>4, <1>10, <1>11, <1>12 DEF Batched, Sound
  <1>14. Sound(r)
    BY <1>1, <1>2, <1>12, <1>13 DEF Sound
  <1>15. RowsFit' /\ UNCHANGED <<scope, operation>>
    BY SameRowsFit DEF Batch, VInv
  <1> QED
    BY <1>5, <1>14, <1>15, OwnSound

\* What is known of an execution in its block.
LEMMA BlockFacts ==
    ASSUME VInv, NEW w \in Workers, ~ At(w, "idle"), workers[w].begin \in Origins(workers[w].source)
    PROVE  LET r == workers[w] IN
           /\ Formed(r) /\ Sound(r) /\ Settled /\ Lengths
           /\ r.source \in Seq(Contents) /\ Len(r.source) \in Nat
           /\ Last(w) = BlockEnd(r.source, r.begin)
           /\ r.begin \in 1 .. Len(r.source) /\ Last(w) \in r.begin .. Len(r.source)
           /\ Key(w) = BlockKey(r.source, r.begin, Last(w))
           /\ Key(w).kind = "block" /\ Key(w).first = r.begin /\ Key(w).last = Last(w)
           /\ Key(w).proof = HaloProof(r.source, r.begin, Last(w))
  <1> DEFINE r == workers[w]
  <1>1. Execution(r) /\ Sound(r) /\ Settled /\ Lengths /\ XInv
    BY LookFacts DEF VInv, Settled
  <1>2. r.source \in Seq(Contents)
    BY <1>1 DEF Sound
  <1>3. Len(r.source) \in Nat
    BY <1>2, LenProperties
  <1>4. r.begin \in 1 .. Len(r.source)
    BY <1>1, <1>3, OriginsAreMultiples
  <1>5. Last(w) = BlockEnd(r.source, r.begin) /\ Last(w) \in r.begin .. Len(r.source)
    BY <1>1, LookFacts
  <1>6. Key(w) = BlockKey(r.source, r.begin, Last(w))
    BY DEF Key
  <1> QED
    BY <1>1, <1>2, <1>3, <1>4, <1>5, <1>6, BlockKeyFields DEF Execution

LEMMA PublishIsSound == ASSUME VInv, XInv', NEW w \in Workers, Publish(w) PROVE VInv'
  <1> DEFINE q == workers[w]
  <1>1. q.step = "publish" /\ ~ At(w, "idle") /\ At(w, "publish")
    BY DEF Publish, At
  <1>2. Formed(q) /\ Sound(q)
    BY <1>1, LookFacts DEF VInv, Execution
  <1>3. q.begin \in Origins(q.source)
    BY <1>1, <1>2 DEF Formed
  <1>4. Last(w) = BlockEnd(q.source, q.begin) /\ Key(w).kind = "block"
            /\ Key(w).first = q.begin /\ Key(w).last = Last(w)
    BY <1>1, <1>3, BlockFacts
  <1>5. q.output \in q.begin .. Last(w) /\ Continues(q)
    BY <1>1, <1>2, <1>4 DEF Sound
  <1>6. Output(w) = [t \in q.output .. Last(w) |-> Cells(Key(w).proof, DOMAIN Key(w).proof, t)]
    BY <1>1, OutputFollows
  <1>7. UNCHANGED <<scope, operation>> /\ RowsFit
    BY DEF Publish, VInv
  <1>8. CASE q.prefix = {}
    <2> DEFINE r == [q EXCEPT !.step = "look", !.begin = Last(w) + 1, !.blocks = @ \cup {Key(w)}]
    <2>1. workers' = [workers EXCEPT ![w] = r]
      BY <1>8 DEF Publish
    <2>2. r.source = q.source /\ r.cold = q.cold /\ r.blocks = q.blocks \cup {Key(w)}
              /\ r.begin = Last(w) + 1 /\ r.step = "look"
      BY <1>2 DEF Formed, Fields
    <2> HIDE DEF r
    <2>3. Sound(r)
      BY <1>1, <1>3, <2>2, NextIsSound
    <2>4. q.output = q.begin
      BY <1>5, <1>8 DEF Continues
    <2>5. Fits(Key(w), Output(w))
      BY <1>4, <1>6, <2>4 DEF Fits, Proven
    <2>6. Register(Key(w), Output(w), {})
      BY <1>8 DEF Publish
    <2>7. RowsFit'
      BY <1>7, <2>5, <2>6, RegisterFits
    <2> QED
      BY <1>7, <2>1, <2>3, <2>7, OwnSound
  <1>9. CASE q.prefix # {}
    <2> DEFINE r == [q EXCEPT !.step = "join"]
               f == FragmentKey(Key(w), q.output)
    <2>1. workers' = [workers EXCEPT ![w] = r]
      BY <1>9 DEF Publish, Goto
    <2>2. r.source = q.source /\ r.cold = q.cold /\ r.blocks = q.blocks /\ r.begin = q.begin
              /\ r.output = q.output /\ r.prefix = q.prefix /\ r.step = "join"
      BY <1>2 DEF Formed, Fields
    <2> HIDE DEF r
    <2>3. Continues(r)
      BY <1>5, <2>2 DEF Continues
    <2>4. Sound(r)
      BY <1>2, <1>4, <1>5, <1>9, <2>2, <2>3 DEF Sound
    <2>5. f.kind = "fragment" /\ f.first = q.output /\ f.last = Last(w) /\ f.proof = Key(w).proof
      BY BlockKeyFields DEF Key
    <2> HIDE DEF f
    <2>6. Fits(f, Output(w))
      BY <1>6, <2>5 DEF Fits, Proven
    <2>7. Register(f, Output(w), {})
      BY <1>9 DEF Publish, f
    <2>8. RowsFit'
      BY <1>7, <2>6, <2>7, RegisterFits
    <2> QED
      BY <1>7, <2>1, <2>4, <2>8, OwnSound
  <1> QED
    BY <1>8, <1>9

\* The proven prefix and the fragment behind it are the block.
LEMMA JoinIsSound == ASSUME VInv, XInv', NEW w \in Workers, Join(w) PROVE VInv'
  <1> DEFINE q == workers[w]
             s == q.source
             d == q.output - 1
             prefix == BlockKey(s, q.begin, d)
             fragment == FragmentKey(Key(w), q.output)
             keys == {prefix, fragment}
             r == [q EXCEPT !.step = "look", !.begin = Last(w) + 1, !.blocks = @ \cup {Key(w)}]
  <1>1. q.step = "join" /\ ~ At(w, "idle")
    BY DEF Join, At
  <1>2. Formed(q) /\ Sound(q)
    BY <1>1, LookFacts DEF VInv, Execution
  <1>3. q.begin \in Origins(s)
    BY <1>1, <1>2 DEF Formed
  <1>4. /\ Settled /\ s \in Seq(Contents) /\ Len(s) \in Nat
        /\ Last(w) = BlockEnd(s, q.begin) /\ q.begin \in 1 .. Len(s) /\ Last(w) \in q.begin .. Len(s)
        /\ Key(w).kind = "block" /\ Key(w).first = q.begin /\ Key(w).last = Last(w)
        /\ Key(w).proof = HaloProof(s, q.begin, Last(w))
    BY <1>1, <1>3, BlockFacts
  <1>5. q.output \in q.begin .. Last(w) /\ q.prefix = {prefix} /\ q.output > q.begin
    BY <1>1, <1>2, <1>4 DEF Sound, Continues
  <1>6. keys \subseteq DOMAIN rows /\ Register(Key(w), Composed(keys), keys)
    <2>1. q.prefix \cup {fragment} = keys
      BY <1>5
    <2> QED
      BY <2>1 DEF Join
  <1>7. /\ prefix.kind = "block" /\ prefix.first = q.begin /\ prefix.last = d
        /\ prefix.proof = HaloProof(s, q.begin, d)
    BY BlockKeyFields
  <1>8. /\ fragment.kind = "fragment" /\ fragment.first = q.output /\ fragment.last = Last(w)
        /\ fragment.proof = Key(w).proof
    BY BlockKeyFields DEF Key
  <1> HIDE DEF prefix, fragment
  <1>9. rows[prefix].cells = Proven(prefix) /\ rows[fragment].cells = Proven(fragment)
    BY <1>6, <1>7, <1>8 DEF VInv, RowsFit, Fits
  <1>10. d \in q.begin .. Last(w) /\ d + 1 = q.output /\ d < Last(w)
    BY <1>4, <1>5
  <1> DEFINE whole == Proven(Key(w))
  <1>11. /\ DOMAIN whole = q.begin .. Last(w)
         /\ whole = [t \in DOMAIN whole |-> whole[t]]
         /\ \A t \in q.begin .. Last(w) : whole[t] = Cells(Key(w).proof, DOMAIN Key(w).proof, t)
    BY <1>4 DEF Proven
  <1> HIDE DEF whole, d
  <1>12. ASSUME NEW t \in prefix.first .. prefix.last PROVE rows[prefix].cells[t] = whole[t]
    <2>1. t \in q.begin .. d /\ t \in q.begin .. Last(w)
      BY <1>4, <1>7, <1>10
    <2>2. rows[prefix].cells[t] = Cells(prefix.proof, DOMAIN prefix.proof, t)
      BY <1>9 DEF Proven
    <2> QED
      BY <1>4, <1>7, <1>10, <1>11, <2>1, <2>2, PrefixAgrees
  <1>13. ASSUME NEW t \in fragment.first .. fragment.last PROVE rows[fragment].cells[t] = whole[t]
    <2>1. t \in q.begin .. Last(w)
      BY <1>4, <1>5, <1>8
    <2>2. rows[fragment].cells[t] = Cells(fragment.proof, DOMAIN fragment.proof, t)
      BY <1>9 DEF Proven
    <2> QED
      BY <1>8, <1>11, <2>1, <2>2
  <1>14. DOMAIN whole = UNION {k.first .. k.last : k \in keys}
    <2>1. UNION {k.first .. k.last : k \in keys} = (q.begin .. d) \cup (q.output .. Last(w))
      BY <1>7, <1>8
    <2>2. (q.begin .. d) \cup (q.output .. Last(w)) = q.begin .. Last(w)
      BY <1>4, <1>5, <1>10
    <2> QED
      BY <1>11, <2>1, <2>2
  <1>15. Composed(keys) = whole
    <2>1. \A k \in keys : \A t \in k.first .. k.last : rows[k].cells[t] = whole[t]
      BY <1>12, <1>13
    <2>2. DOMAIN whole = UNION {k.first .. k.last : k \in keys}
              /\ whole = [t \in DOMAIN whole |-> whole[t]]
      BY <1>11, <1>14
    <2> HIDE DEF keys
    <2> QED
      BY <2>1, <2>2, Composition
  <1>16. Fits(Key(w), Composed(keys))
    BY <1>4, <1>15 DEF Fits, whole
  <1>17. UNCHANGED <<scope, operation>> /\ RowsFit
    BY DEF Join, VInv
  <1>18. RowsFit'
    BY <1>6, <1>16, <1>17, RegisterFits
  <1>19. workers' = [workers EXCEPT ![w] = r]
    BY DEF Join
  <1>20. r.source = s /\ r.cold = q.cold /\ r.blocks = q.blocks \cup {Key(w)}
            /\ r.begin = Last(w) + 1 /\ r.step = "look"
    BY <1>2 DEF Formed, Fields
  <1> HIDE DEF r
  <1>21. Sound(r)
    BY <1>1, <1>3, <1>20, NextIsSound
  <1> QED
    BY <1>17, <1>18, <1>19, <1>21, OwnSound

\* Every block of a batch is what it would be alone.
LEMMA PublishBatchIsSound == ASSUME VInv, XInv', NEW w \in Workers, PublishBatch(w) PROVE VInv'
  <1> DEFINE q == workers[w]
             s == q.source
             last == q.stop - 1
             kernel == Kernel(s, q.start, q.begin, last)
             cells == Restrict(kernel, q.begin .. Last(w))
             step == IF Last(w) + 1 = q.stop THEN "look" ELSE "batch"
             r == [q EXCEPT !.begin = Last(w) + 1, !.blocks = @ \cup {Key(w)},
                            !.owned = @ \cup {Key(w)}, !.step = step]
  <1>1. q.step = "batch" /\ ~ At(w, "idle")
    BY DEF PublishBatch, At
  <1>2. Formed(q) /\ Sound(q) /\ Batched(q)
    BY <1>1, LookFacts DEF VInv, Execution, Sound
  <1>3. q.begin \in Origins(s)
    BY <1>2 DEF Batched
  <1>4. /\ Settled /\ Lengths /\ s \in Seq(Contents) /\ Len(s) \in Nat
        /\ Last(w) = BlockEnd(s, q.begin) /\ q.begin \in 1 .. Len(s) /\ Last(w) \in q.begin .. Len(s)
        /\ Key(w) = BlockKey(s, q.begin, Last(w))
        /\ Key(w).kind = "block" /\ Key(w).first = q.begin /\ Key(w).last = Last(w)
    BY <1>1, <1>3, BlockFacts
  <1>5. /\ q.stop \in Nat /\ q.stop <= Len(s) + 1 /\ Last(w) + 1 <= q.stop
        /\ Last(w) + 1 \in Origins(s) \cup {Len(s) + 1}
    <2>1. q.stop \in Nat /\ q.stop <= Len(s) + 1
      BY <1>2, <1>4 DEF Batched, Origins
    <2>2. /\ \A p \in Origins(s) : p > q.begin => p > Last(w)
          /\ Last(w) + 1 \in Origins(s) \cup {Len(s) + 1}
      BY <1>3, <1>4, NextOrigin
    <2> QED
      BY <1>2, <1>4, <2>1, <2>2 DEF Batched
  <1>6. q.start \in Nat \ {0} /\ q.start <= NumericalStart(s, q.begin, Last(w), q.begin)
    BY <1>2, <1>3, <1>4, <1>5 DEF Batched
  <1>7. last \in Last(w) .. Len(s)
    BY <1>4, <1>5
  <1> HIDE DEF last
  <1>8. ASSUME NEW t \in q.begin .. Last(w)
        PROVE  kernel[t] = Cells(Key(w).proof, DOMAIN Key(w).proof, t)
    <2>1. q.begin \in q.begin .. Len(s) /\ Last(w) \in q.begin .. Len(s) /\ t \in Nat /\ q.begin \in Nat
      BY <1>4
    <2>2. Suffices(s, q.begin, NumericalStart(s, q.begin, Last(w), q.begin), t)
      BY <1>4, <1>8, <2>1, StartSuffices
    <2>3. operation # "canonical"
      BY <1>2 DEF Batched
    <2>4. Suffices(s, q.begin, q.start, t)
      BY <1>4, <1>6, <2>1, <2>2, <2>3, EarlierSuffices
    <2> QED
      BY <1>3, <1>4, <1>7, <1>8, <2>1, <2>4, KernelFollowsProof
  <1>9. cells = [t \in q.begin .. Last(w) |-> kernel[t]]
    <2>1. DOMAIN kernel = q.begin .. last
      BY DEF Kernel
    <2>2. DOMAIN kernel \cap (q.begin .. Last(w)) = q.begin .. Last(w)
      BY <1>4, <1>7, <2>1
    <2> HIDE DEF kernel
    <2> QED
      BY <2>2 DEF Restrict
  <1>10. UNCHANGED <<scope, operation>> /\ RowsFit /\ Register(Key(w), cells, {})
    BY DEF PublishBatch, VInv, last
  <1> HIDE DEF kernel, cells
  <1>11. Fits(Key(w), cells)
    BY <1>4, <1>8, <1>9 DEF Fits, Proven
  <1>12. RowsFit'
    BY <1>10, <1>11, RegisterFits
  <1>13. workers' = [workers EXCEPT ![w] = r]
    BY DEF PublishBatch
  <1>14. /\ r.source = s /\ r.cold = q.cold /\ r.blocks = q.blocks \cup {Key(w)}
         /\ r.begin = Last(w) + 1 /\ r.step = step /\ r.stop = q.stop /\ r.start = q.start
    BY <1>2 DEF Formed, Fields
  <1> HIDE DEF r
  <1>15. ASSUME Last(w) + 1 # q.stop PROVE Batched(r)
    <2>1. Last(w) + 1 < q.stop /\ Last(w) + 1 \in Origins(s)
      BY <1>4, <1>5, <1>15
    <2>2. \A o \in Origins(s) : Last(w) + 1 <= o => q.begin <= o
      BY <1>4 DEF Origins
    <2> QED
      BY <1>2, <1>14, <2>1, <2>2 DEF Batched
  <1>16. Sound(r)
    BY <1>1, <1>3, <1>14, <1>15, NextIsSound
  <1> QED
    BY <1>10, <1>12, <1>13, <1>16, OwnSound

\* The blocks of a source, side by side, are the computation over its whole history.
LEMMA FinishIsSound == ASSUME VInv, XInv', NEW w \in Workers, Finish(w) PROVE VInv'
  <1> DEFINE q == workers[w]
             s == q.source
             key == ResultKey(s)
             whole == [t \in 1 .. Len(s) |-> WholeHistory(s, t)]
             r == [q EXCEPT !.step = "complete"]
  <1>1. q.step = "look" /\ ~ At(w, "idle") /\ q.begin > Len(s)
    BY DEF Finish, At
  <1>2. Formed(q) /\ Sound(q) /\ Settled /\ Lengths
    BY <1>1, LookFacts DEF VInv, Execution, Settled
  <1>3. s \in Seq(Contents) /\ Len(s) \in Nat /\ DOMAIN s = 1 .. Len(s)
    BY <1>2, LenProperties DEF Sound
  <1>4. \A o \in Origins(s) : o \in 1 .. Len(s) /\ BlockEnd(s, o) \in o .. Len(s)
    BY <1>2, <1>3, OriginsAreMultiples, NextOrigin
  <1>5. q.begin \in Int
    BY <1>2, <1>3, <1>4 DEF Formed
  <1>6. q.blocks = {BlockKey(s, o, BlockEnd(s, o)) : o \in Origins(s)}
    <2>1. {p \in Origins(s) : p < q.begin} = Origins(s)
      BY <1>1, <1>3, <1>4, <1>5
    <2> QED
      BY <1>2, <2>1 DEF Sound, BlocksBefore
  <1>7. ASSUME NEW k \in q.blocks, NEW t \in k.first .. k.last
        PROVE  t \in 1 .. Len(s) /\ rows[k].cells[t] = whole[t]
    <2>1. PICK o \in Origins(s) : k = BlockKey(s, o, BlockEnd(s, o))
      BY <1>6
    <2>2. k.kind = "block" /\ k.first = o /\ k.last = BlockEnd(s, o)
              /\ k.proof = HaloProof(s, o, BlockEnd(s, o))
      BY <2>1, BlockKeyFields
    <2>3. rows[k].cells = Proven(k)
      BY <2>2 DEF Finish, VInv, RowsFit, Fits
    <2>4. rows[k].cells[t] = Cells(k.proof, DOMAIN k.proof, t)
      BY <2>3 DEF Proven
    <2>5. BlockEnd(s, o) \in o .. BlockEnd(s, o) /\ t \in o .. BlockEnd(s, o) /\ t \in 1 .. Len(s)
      BY <1>3, <1>4, <1>7, <2>2
    <2>6. Cells(k.proof, DOMAIN k.proof, t) = WholeHistory(s, t)
      BY <1>2, <1>3, <2>2, <2>5, ProofGivesWholeHistory
    <2> QED
      BY <2>4, <2>5, <2>6
  <1>8. UNION {k.first .. k.last : k \in q.blocks} = 1 .. Len(s)
    <2>1. ASSUME NEW t \in 1 .. Len(s) PROVE \E k \in q.blocks : t \in k.first .. k.last
      <3>1. Origin(t) \in Origins(s) /\ t \in Origin(t) .. BlockEnd(s, Origin(t))
        BY <1>2, <1>3, SessionHasBlock
      <3>2. BlockKey(s, Origin(t), BlockEnd(s, Origin(t))) \in q.blocks
        BY <1>6, <3>1
      <3> QED
        BY <3>1, <3>2, BlockKeyFields
    <2> QED
      BY <1>7, <2>1
  <1>9. Composed(q.blocks) = whole
    <2>1. \A k \in q.blocks : \A t \in k.first .. k.last : rows[k].cells[t] = whole[t]
      BY <1>7
    <2>2. DOMAIN whole = UNION {k.first .. k.last : k \in q.blocks}
              /\ whole = [t \in DOMAIN whole |-> whole[t]]
      BY <1>8
    <2> HIDE DEF whole
    <2> QED
      BY <2>1, <2>2, Composition
  <1>10. key.kind = "result" /\ key.last = Len(s) /\ key.proof = s
    <2>1. [t \in DOMAIN s |-> s[t]] = s
      BY <1>3
    <2> QED
      BY <2>1 DEF ResultKey
  <1>11. ASSUME NEW t \in 1 .. Len(s) PROVE Reaches(s, t, whole[t])
    <2>1. Origin(t) \in Origins(s) /\ t \in Origin(t) .. BlockEnd(s, Origin(t))
      BY <1>2, <1>3, SessionHasBlock
    <2>2. BlockEnd(s, Origin(t)) \in Origin(t) .. BlockEnd(s, Origin(t))
      BY <1>4, <2>1
    <2> QED
      BY <1>2, <1>3, <2>1, <2>2, ProofGivesWholeHistory
  <1>12. Register(key, Composed(q.blocks), q.blocks)
    BY DEF Finish
  <1> HIDE DEF key
  <1>13. Fits(key, Composed(q.blocks))
    BY <1>9, <1>10, <1>11 DEF Fits
  <1>14. UNCHANGED <<scope, operation>> /\ RowsFit
    BY DEF Finish, VInv
  <1>15. RowsFit'
    BY <1>12, <1>13, <1>14, RegisterFits
  <1>16. workers' = [workers EXCEPT ![w] = r]
    BY DEF Finish, Goto
  <1>17. r.source = s /\ r.cold = q.cold /\ r.blocks = q.blocks /\ r.begin = q.begin
             /\ r.step = "complete"
    BY <1>2 DEF Formed, Fields
  <1> HIDE DEF r
  <1>18. Sound(r)
    BY <1>2, <1>17 DEF Sound
  <1> QED
    BY <1>14, <1>15, <1>16, <1>18, OwnSound

LEMMA EndIsSound == ASSUME VInv, XInv', NEW w \in Workers, Complete(w) \/ Interrupt(w) PROVE VInv'
  <1>1. workers' = [workers EXCEPT ![w] = Idle] /\ Idle.step = "idle"
    BY DEF Complete, Interrupt, Idle
  <1>2. RowsFit' /\ UNCHANGED <<scope, operation>>
    BY SameRowsFit DEF Complete, Interrupt, VInv
  <1> HIDE DEF Idle
  <1> QED
    BY <1>1, <1>2, OwnSound

LEMMA OthersAreSound ==
    ASSUME VInv, XInv', UNCHANGED <<scope, operation, workers>>, RowsFit'
    PROVE  VInv'
  <1>1. \A r : Sound(r)' = Sound(r)
    BY SoundStays
  <1>2. \A w \in Workers : (At(w, "idle") \/ Sound(workers[w]))'
    BY <1>1 DEF VInv, At
  <1> QED
    BY <1>2 DEF VInv, Settled, Lengths

LEMMA RetireFits == ASSUME VInv, NEW keys, Retire(keys) PROVE RowsFit'
  <1>1. \A k, c : Fits(k, c)' = Fits(k, c)
    BY FitsStay DEF Retire
  <1>2. rows' = [k \in DOMAIN rows \cap (DOMAIN rows \ keys) |-> rows[k]]
    BY DEF Retire, Restrict
  <1> QED
    BY <1>1, <1>2 DEF VInv, RowsFit

LEMMA VInvStep == VInv /\ [Next]_vars => VInv'
  <1> SUFFICES ASSUME VInv, [Next]_vars PROVE VInv'
    OBVIOUS
  <1>1. XInv /\ XInv'
    BY XInvStep DEF VInv
  <1>2. CASE \E w \in Workers : Execute(w)
    BY <1>1, <1>2, StartIsSound, ReuseIsSound, ResumeIsSound, ComputeIsSound, BatchIsSound, PublishIsSound,
       JoinIsSound, PublishBatchIsSound, FinishIsSound, EndIsSound DEF Execute
  <1>3. CASE \/ \E members \in SUBSET Assets : Observe(members) /\ UNCHANGED node
             \/ \E t \in DOMAIN source : Restate(t) /\ UNCHANGED node
    <2>1. UNCHANGED <<scope, operation, rows, workers>>
      BY <1>1, <1>3, SourceStays DEF node
    <2> QED
      BY <1>1, <2>1, SameRowsFit, OthersAreSound DEF VInv
  <1>4. CASE \E keys \in SUBSET DOMAIN rows : Retire(keys)
    BY <1>1, <1>4, RetireFits, OthersAreSound DEF Retire
  <1>5. CASE UNCHANGED vars
    BY <1>1, <1>5, SameRowsFit, OthersAreSound DEF vars, VInv
  <1> QED
    BY <1>2, <1>3, <1>4, <1>5 DEF Next

LEMMA VInvInit == Init => VInv
  <1> SUFFICES ASSUME Init PROVE VInv
    OBVIOUS
  <1>1. Settled
    BY ScopesAssumption, OperationsAssumption DEF Init, Settled, Lengths
  <1>2. RowsFit
    BY DEF Init, RowsFit
  <1>3. \A w \in Workers : At(w, "idle")
    BY DEF Init, At, Idle
  <1> QED
    BY <1>1, <1>2, <1>3, XInvInit DEF VInv

LEMMA VInvHolds == VInv => ResultsAreWholeHistory /\ BlocksFollowProofs
  <1> SUFFICES ASSUME VInv PROVE ResultsAreWholeHistory /\ BlocksFollowProofs
    OBVIOUS
  <1>1. ResultsAreWholeHistory
    BY DEF VInv, RowsFit, Fits, ResultsAreWholeHistory
  <1>2. ASSUME NEW k \in DOMAIN rows, k.kind # "result" PROVE rows[k].cells = Proven(k)
    BY <1>2 DEF VInv, RowsFit, Fits
  <1>3. BlocksFollowProofs
    BY <1>2, OutputFollows DEF BlocksFollowProofs, Proven
  <1> QED
    BY <1>1, <1>3

LEMMA PolicyVInv == PolicySpec => [](policy = "finite" => VInv)
  <1> DEFINE PInv == policy = "finite" => VInv
  <1>1. PolicyInit => PInv
    BY VInvInit DEF PolicyInit
  <1>2. PInv /\ [PolicyNext]_allVars => PInv'
    <2> SUFFICES ASSUME PInv, [PolicyNext]_allVars, (policy = "finite")' PROVE VInv'
      OBVIOUS
    <2>1. policy = "finite" /\ VInv
      BY DEF PolicyNext, allVars
    <2>2. [Next]_vars
      BY <2>1 DEF PolicyNext, allVars, finiteOnly, vars
    <2> QED
      BY <2>1, <2>2, VInvStep
  <1> HIDE DEF PInv
  <1>3. PolicySpec => []PInv
    BY <1>1, <1>2, PTL DEF PolicySpec
  <1> QED
    BY <1>3 DEF PInv

\* Every published result of a node with finite history is one computation over its whole
\* history, however it was cut into blocks, resumed, batched, restated, interrupted, retired or
\* computed side by side, for any Domain, window and block length.
THEOREM FiniteResultsHold == PolicySpec => []FiniteResultsAreWholeHistory
  <1>1. (policy = "finite" => VInv) => FiniteResultsAreWholeHistory
    BY VInvHolds DEF FiniteResultsAreWholeHistory
  <1> QED
    BY <1>1, PolicyVInv, PTL

\* The cells of blocks and fragments, published or about to be, are what their keys prove:
\* no two routes to a key ever disagree.
THEOREM FiniteBlocksHold == PolicySpec => []FiniteBlocksFollowProofs
  <1>1. (policy = "finite" => VInv) => FiniteBlocksFollowProofs
    BY VInvHolds DEF FiniteBlocksFollowProofs
  <1> QED
    BY <1>1, PolicyVInv, PTL


-----------------------------------------------------------------------------
(* Checkpoints: how completed history is continued. *)

ResultFields == {"key", "start", "through", "rows", "cells", "checkpoint", "proofs", "damaged"}

\* A result with state has the proof of all its rows, and its state ends within them.
CheckpointRow(r) ==
    /\ DOMAIN r = ResultFields
    /\ r.rows \in Seq(scope.cells) /\ r.through = Len(r.rows)
    /\ r.checkpoint # None =>
          /\ r.start = 1 /\ r.proofs = Checkpoint!Proof(r.rows, r.through)
          /\ r.checkpoint.through \in Int /\ r.checkpoint.through <= r.through

\* What an execution chose when it started is what it would choose again, until it
\* publishes; it continues a result of a prefix of its source.
Candidates == {r \in rows : Checkpoint!Usable(r, source)}
Chosen ==
    /\ work = Checkpoint!Idle \/ DOMAIN work = {"key", "previous", "step"}
    /\ work.step = "kernel" => Candidates = {} /\ completed = {}
    /\ work.step \in {"tail", "refer"} => work.previous \in Checkpoint!Newest(Candidates)
    /\ work.step \in {"tail", "join"} => work.previous.through \in 0 .. Len(source)

CInv ==
    /\ source \in Seq(scope.cells)
    /\ \A r \in rows : CheckpointRow(r) /\ r.through <= Len(source)
    /\ Chosen

\* What is proven of a prefix is proven of every source with that prefix.
LEMMA ProofOfPrefix ==
    ASSUME NEW C, NEW s \in Seq(C), NEW end \in 0 .. Len(s)
    PROVE  Checkpoint!Proof(SubSeq(s, 1, end), end) = Checkpoint!Proof(s, end)
  <1> DEFINE p == SubSeq(s, 1, end)
  <1>1. p \in Seq(C) /\ Len(p) = end /\ \A t \in 1 .. end : p[t] = s[t]
    BY SubSeqProperties
  <1>2. SubSeq(p, 1, end) = p
    BY <1>1
  <1> QED
    BY <1>1, <1>2 DEF Checkpoint!Proof

\* The state that a kernel leaves ends at the last session it read, or before.
LEMMA KernelCheckpoint ==
    ASSUME NEW C, NEW s \in Seq(C), NEW after \in 0 .. Len(s), NEW seed,
           LET k == Checkpoint!Kernel(s, after, seed) IN k.checkpoint # None
    PROVE  LET k == Checkpoint!Kernel(s, after, seed)
           IN  k.checkpoint.through \in Int /\ k.checkpoint.through <= Len(s)
  <1> DEFINE rs == Checkpoint!Rows(s, after + 1)
             k == Checkpoint!Kernel(s, after, seed)
  <1>0. Len(s) \in Nat
    BY LenProperties
  <1>1. DOMAIN rs \in SUBSET (1 .. Len(s))
    BY DEF Checkpoint!Rows, Checkpoint!Members
  <1>2. DOMAIN rs # {} => Checkpoint!Max(DOMAIN rs) \in Int /\ Checkpoint!Max(DOMAIN rs) <= Len(s)
    <2> HIDE DEF rs
    <2>1. DOMAIN rs \in SUBSET Nat /\ \A n \in DOMAIN rs : n <= Len(s)
      BY <1>0, <1>1
    <2>2. DOMAIN rs # {} => Max(DOMAIN rs) \in DOMAIN rs
      BY <1>0, <2>1, MaxOfBounded
    <2> QED
      BY <1>0, <2>1, <2>2, KernelBounds
  <1>3. CASE operation = "train"
    BY <1>0, <1>3 DEF Checkpoint!Kernel, Checkpoint!Training
  <1>4. CASE operation # "train"
    <2>1. k.checkpoint \in {None, [through |-> Len(s), state |-> Run(rs, seed).saved],
                            [through |-> Checkpoint!Max(DOMAIN rs), state |-> Run(rs, seed).saved]}
          /\ (k.checkpoint = [through |-> Checkpoint!Max(DOMAIN rs), state |-> Run(rs, seed).saved]
                => k.checkpoint = None \/ DOMAIN rs # {} \/ k.checkpoint.through = Len(s))
      BY <1>4 DEF Checkpoint!Kernel, Checkpoint!Continuation, Run
    <2> HIDE DEF k, rs
    <2> QED
      BY <1>0, <1>2, <2>1 DEF k
  <1> QED
    BY <1>3, <1>4

\* The results that executions and their maintenance publish.
LEMMA ResultIsRow ==
    ASSUME NEW key, NEW s \in Seq(scope.cells), NEW cells, NEW checkpoint, NEW proofs,
           checkpoint # None =>
               /\ proofs = Checkpoint!Proof(s, Len(s))
               /\ checkpoint.through \in Int /\ checkpoint.through <= Len(s)
    PROVE  CheckpointRow(Checkpoint!Result(key, s, cells, checkpoint, proofs))
  BY DEF Checkpoint!Result, CheckpointRow, ResultFields

LEMMA CInvAfter ==
    ASSUME CInv, UNCHANGED <<scope, operation>>,
           source' \in Seq(scope.cells), Len(source) <= Len(source'),
           \A r \in rows' : r \in rows \/ (CheckpointRow(r) /\ r.through <= Len(source')),
           Chosen'
    PROVE  CInv'
  <1>1. \A r : CheckpointRow(r) <=> CheckpointRow(r)'
    BY DEF CheckpointRow, Checkpoint!Proof, Checkpoint!LabelEnd, Checkpoint!Fits
  <1>2. ASSUME NEW r \in rows' PROVE CheckpointRow(r)' /\ r.through <= Len(source')
    <2>1. CASE r \in rows
      <3>1. CheckpointRow(r) /\ r.through <= Len(source)
        BY <2>1 DEF CInv
      <3>2. r.through \in Nat /\ Len(source) \in Nat /\ Len(source') \in Nat
        BY <3>1, LenProperties DEF CheckpointRow, CInv
      <3> QED
        BY <1>1, <3>1, <3>2
    <2> QED
      BY <1>1, <1>2, <2>1
  <1> QED
    BY <1>2 DEF CInv

\* Of an execution that is continued from a result, the result is a row.
LEMMA PreviousIsRow ==
    ASSUME CInv, work.step \in {"tail", "refer"}
    PROVE  /\ work.previous \in rows /\ Checkpoint!Usable(work.previous, source)
           /\ \A r \in Candidates : r.through <= work.previous.through
           /\ CheckpointRow(work.previous) /\ work.previous.through \in 0 .. Len(source)
  <1>1. work.previous \in Candidates /\ \A r \in Candidates : r.through <= work.previous.through
    BY DEF CInv, Chosen, Checkpoint!Newest
  <1>2. work.previous \in rows /\ Checkpoint!Usable(work.previous, source)
    BY <1>1 DEF Candidates
  <1>3. CheckpointRow(work.previous)
    BY <1>2 DEF CInv
  <1>4. work.previous.through \in Nat /\ work.previous.through <= Len(source)
    BY <1>2, <1>3, LenProperties DEF CheckpointRow, Checkpoint!Usable
  <1>5. Len(source) \in Nat
    BY LenProperties DEF CInv
  <1> QED
    BY <1>1, <1>2, <1>3, <1>4, <1>5

\* A completed history is continued: whatever would be usable has been considered.
LEMMA CInvContinues == ASSUME CInv PROVE Checkpoint!HistoryIsContinued
  <1> SUFFICES ASSUME work.step \in {"kernel", "tail"}
               PROVE  /\ completed # {} => work.step = "tail"
                      /\ \A r \in rows :
                            r.checkpoint # None /\ r.rows = SubSeq(source, 1, r.through) /\ ~ r.damaged =>
                                \/ r.checkpoint.through < r.through
                                \/ work.step = "tail" /\ work.previous.through >= r.through
    BY Zenon DEF Checkpoint!HistoryIsContinued
  <1>1. completed # {} => work.step = "tail"
    BY DEF CInv, Chosen
  <1>2. ASSUME NEW r \in rows, r.checkpoint # None, r.rows = SubSeq(source, 1, r.through), ~ r.damaged,
               ~ (r.checkpoint.through < r.through)
        PROVE  work.step = "tail" /\ work.previous.through >= r.through
    <2>1. CheckpointRow(r)
      BY DEF CInv
    <2>2. r.through \in Nat /\ r.checkpoint.through = r.through /\ r.start = 1
      <3>1. r.rows \in Seq(scope.cells) /\ r.through = Len(r.rows)
        BY <2>1 DEF CheckpointRow
      <3>2. r.through \in Nat
        BY <3>1, LenProperties
      <3>3. r.start = 1 /\ r.checkpoint.through \in Int /\ r.checkpoint.through <= r.through
        BY <1>2, <2>1 DEF CheckpointRow
      <3> QED
        BY <1>2, <3>2, <3>3
    <2>3. source \in Seq(scope.cells) /\ Len(source) \in Nat
      BY LenProperties DEF CInv
    <2>4. r.through <= Len(source)
      BY DEF CInv
    <2>5. r.proofs = Checkpoint!Proof(source, r.through)
      <3>1. r.through \in 0 .. Len(source)
        BY <2>2, <2>3, <2>4
      <3>2. r.proofs = Checkpoint!Proof(r.rows, r.through)
        BY <1>2, <2>1 DEF CheckpointRow
      <3> QED
        BY <1>2, <2>3, <3>1, <3>2, ProofOfPrefix
    <2>6. r \in Candidates
      BY <1>2, <2>2, <2>4, <2>5 DEF Candidates, Checkpoint!Usable
    <2>7. work.step = "tail"
      BY <2>6 DEF CInv, Chosen
    <2>8. r.through <= work.previous.through /\ work.previous.through \in Nat
      BY <2>6, <2>7, PreviousIsRow
    <2> QED
      BY <2>2, <2>7, <2>8
  <1> QED
    BY <1>1, <1>2

LEMMA CStartKeeps == ASSUME CInv, Checkpoint!Start PROVE CInv'
  <1>1. UNCHANGED <<scope, operation, source, rows, completed>>
    BY DEF Checkpoint!Start
  <1>2. Candidates' = Candidates
    BY <1>1 DEF Candidates, Checkpoint!Usable, Checkpoint!Proof, Checkpoint!LabelEnd, Checkpoint!Fits
  <1>3. /\ Candidates = {} => completed = {}
        /\ \E previous \in IF Candidates = {} THEN {None} ELSE Checkpoint!Newest(Candidates) :
             work' = [key |-> Checkpoint!Key(version, source), previous |-> previous,
                      step |-> IF Candidates = {} THEN "kernel"
                               ELSE IF previous.through = Len(source) THEN "refer" ELSE "tail"]
    BY DEF Checkpoint!Start, Candidates
  <1>4. Chosen'
    <2>1. CASE Candidates = {}
      <3>1. work'.step = "kernel" /\ DOMAIN work' = {"key", "previous", "step"}
        BY <1>3, <2>1
      <3> QED
        BY <1>1, <1>2, <1>3, <2>1, <3>1 DEF Chosen
    <2>2. CASE Candidates # {}
      <3>1. PICK previous \in Checkpoint!Newest(Candidates) :
                work' = [key |-> Checkpoint!Key(version, source), previous |-> previous,
                         step |-> IF previous.through = Len(source) THEN "refer" ELSE "tail"]
        BY <1>3, <2>2
      <3>2. /\ DOMAIN work' = {"key", "previous", "step"} /\ work'.previous = previous
            /\ work'.step \in {"tail", "refer"}
        BY <3>1
      <3>3. previous.through \in 0 .. Len(source)
        <4>1. previous \in rows /\ Checkpoint!Usable(previous, source)
          BY <3>1 DEF Checkpoint!Newest, Candidates
        <4>2. CheckpointRow(previous) /\ previous.through <= Len(source)
          BY <4>1 DEF CInv
        <4>3. previous.through \in Nat /\ Len(source) \in Nat
          BY <4>2, LenProperties DEF CheckpointRow, CInv
        <4> QED
          BY <4>2, <4>3
      <3>4. work'.previous \in Checkpoint!Newest(Candidates)'
        BY <1>2, <3>2 DEF Checkpoint!Newest
      <3> QED
        BY <1>1, <3>2, <3>3, <3>4 DEF Chosen
    <2> QED
      BY <2>1, <2>2
  <1>5. Len(source) <= Len(source')
    BY <1>1, LenProperties DEF CInv
  <1> QED
    BY <1>1, <1>4, <1>5, CInvAfter DEF CInv

\* Steps after which no execution is choosing, or about to continue.
LEMMA CRestKeeps ==
    ASSUME CInv, UNCHANGED <<scope, operation>>,
           source' \in Seq(scope.cells), Len(source) <= Len(source'),
           \A r \in rows' : r \in rows \/ (CheckpointRow(r) /\ r.through <= Len(source')),
           work' = Checkpoint!Idle \/ (DOMAIN work' = {"key", "previous", "step"} /\ work'.step = "complete")
    PROVE  CInv'
  <1>1. Chosen'
    BY DEF Chosen, Checkpoint!Idle
  <1> QED
    BY <1>1, CInvAfter

\* The result that an execution publishes under its own key.
LEMMA COwnResultKeeps ==
    ASSUME CInv, UNCHANGED <<scope, operation, source>>,
           NEW cells, NEW checkpoint,
           checkpoint # None => checkpoint.through \in Int /\ checkpoint.through <= Len(source),
           Checkpoint!Publish(Checkpoint!Result(work.key, source, cells, checkpoint,
                                                Checkpoint!Proof(source, Len(source)))),
           work.step \in {"refer", "kernel", "join"}, work' = [work EXCEPT !.step = "complete"]
    PROVE  CInv'
  <1> DEFINE r == Checkpoint!Result(work.key, source, cells, checkpoint, Checkpoint!Proof(source, Len(source)))
  <1>1. CheckpointRow(r) /\ r.through = Len(source)
    <2>1. CheckpointRow(r)
      BY ResultIsRow DEF CInv
    <2> QED
      BY <2>1 DEF Checkpoint!Result
  <1>2. rows' \subseteq rows \cup {r}
    BY DEF Checkpoint!Publish
  <1>3. DOMAIN work' = {"key", "previous", "step"} /\ work'.step = "complete"
    BY DEF CInv, Chosen, Checkpoint!Idle
  <1>4. Len(source) \in Nat /\ source' \in Seq(scope.cells)
    BY LenProperties DEF CInv
  <1> HIDE DEF r
  <1> QED
    BY <1>1, <1>2, <1>3, <1>4, CRestKeeps

LEMMA CPublicationsKeep ==
    ASSUME CInv, Checkpoint!Refer \/ Checkpoint!Compute \/ Checkpoint!PublishTail \/ Checkpoint!Join
    PROVE  CInv'
  <1>1. source \in Seq(scope.cells) /\ Len(source) \in Nat
    BY LenProperties DEF CInv
  <1>2. CASE Checkpoint!Refer
    <2>1. work.step = "refer"
      BY <1>2 DEF Checkpoint!Refer
    <2>2. work.previous.checkpoint.through \in Int /\ work.previous.checkpoint.through <= Len(source)
      <3>1. CheckpointRow(work.previous) /\ Checkpoint!Usable(work.previous, source)
            /\ work.previous.through \in 0 .. Len(source)
        BY <2>1, PreviousIsRow
      <3> QED
        BY <1>1, <3>1 DEF Checkpoint!Usable
    <2> QED
      BY <1>2, <2>1, <2>2, COwnResultKeeps DEF Checkpoint!Refer
  <1>3. CASE Checkpoint!Compute
    <2> DEFINE k == Checkpoint!WholeHistory(source)
    <2>1. k.checkpoint # None => k.checkpoint.through \in Int /\ k.checkpoint.through <= Len(source)
      BY <1>1, KernelCheckpoint DEF Checkpoint!WholeHistory
    <2>2. /\ work.step = "kernel" /\ UNCHANGED <<scope, operation, source>>
          /\ work' = [work EXCEPT !.step = "complete"]
          /\ Checkpoint!Publish(Checkpoint!Result(work.key, source, k.cells, k.checkpoint,
                                                  Checkpoint!Proof(source, Len(source))))
      BY <1>3 DEF Checkpoint!Compute
    <2> HIDE DEF k
    <2> QED
      BY <2>1, <2>2, COwnResultKeeps
  <1>4. CASE Checkpoint!PublishTail
    <2> DEFINE t == [Checkpoint!Result(Checkpoint!TailKey(work.key, work.previous.through), source,
                                       Checkpoint!Continued.cells, None, Checkpoint!Proof(source, Len(source)))
                     EXCEPT !.start = work.previous.through + 1]
    <2>1. /\ work.step = "tail" /\ UNCHANGED <<scope, operation, source>>
          /\ work' = [work EXCEPT !.step = "join"] /\ rows' \subseteq rows \cup {t}
      BY <1>4 DEF Checkpoint!PublishTail, Checkpoint!Publish
    <2>2. CheckpointRow(t) /\ t.through = Len(source)
      BY <1>1 DEF Checkpoint!Result, CheckpointRow, ResultFields
    <2>3. /\ DOMAIN work' = {"key", "previous", "step"} /\ work'.step = "join"
          /\ work'.previous.through \in 0 .. Len(source)
      BY <2>1 DEF CInv, Chosen, Checkpoint!Idle
    <2>4. Chosen'
      BY <2>1, <2>3 DEF Chosen
    <2> HIDE DEF t
    <2> QED
      BY <1>1, <2>1, <2>2, <2>4, CInvAfter
  <1>5. CASE Checkpoint!Join
    <2> DEFINE k == Checkpoint!Kernel(source, work.previous.through, work.previous.checkpoint.state)
    <2>1. /\ work.step = "join" /\ UNCHANGED <<scope, operation, source>>
          /\ work' = [work EXCEPT !.step = "complete"]
          /\ Checkpoint!Publish(Checkpoint!Result(work.key, source, work.previous.cells \o k.cells, k.checkpoint,
                                                  Checkpoint!Proof(source, Len(source))))
      BY <1>5 DEF Checkpoint!Join, Checkpoint!Continued
    <2>2. work.previous.through \in 0 .. Len(source)
      BY <2>1 DEF CInv, Chosen
    <2>3. k.checkpoint # None => k.checkpoint.through \in Int /\ k.checkpoint.through <= Len(source)
      BY <1>1, <2>2, KernelCheckpoint
    <2> HIDE DEF k
    <2> QED
      BY <2>1, <2>3, COwnResultKeeps
  <1> QED
    BY <1>2, <1>3, <1>4, <1>5

LEMMA COthersKeep ==
    ASSUME CInv,
           \/ Checkpoint!Reuse \/ Checkpoint!Complete \/ Checkpoint!Interrupt
           \/ Checkpoint!Certify \/ Checkpoint!Damage \/ Checkpoint!LegacyUpdate
           \/ \E cell \in scope.cells : Checkpoint!Observe(cell)
           \/ \E t \in DOMAIN source : \E cell \in scope.cells : Checkpoint!Restate(t, cell)
    PROVE  CInv'
  <1>1. source \in Seq(scope.cells) /\ Len(source) \in Nat
    BY LenProperties DEF CInv
  <1>2. CASE Checkpoint!Reuse
    <2>1. UNCHANGED <<scope, operation, source, rows>> /\ DOMAIN work' = {"key", "previous", "step"}
          /\ work'.step = "complete"
      BY <1>2 DEF Checkpoint!Reuse
    <2> QED
      BY <1>1, <2>1, CRestKeeps
  <1>3. CASE Checkpoint!Complete \/ Checkpoint!Interrupt
    <2>1. UNCHANGED <<scope, operation, source, rows>> /\ work' = Checkpoint!Idle
      BY <1>3 DEF Checkpoint!Complete, Checkpoint!Interrupt
    <2> QED
      BY <1>1, <2>1, CRestKeeps
  <1>4. CASE Checkpoint!Certify
    <2>1. PICK r \in rows :
              Checkpoint!Publish(Checkpoint!Result([r.key EXCEPT !.kind = "certified"], r.rows, r.cells,
                                                   [through |-> r.through, state |-> Checkpoint!DerivedState(r)],
                                                   Checkpoint!Proof(r.rows, r.through)))
      BY <1>4 DEF Checkpoint!Certify
    <2>2. CheckpointRow(r) /\ r.through <= Len(source)
      BY DEF CInv
    <2>3. r.rows \in Seq(scope.cells) /\ r.through = Len(r.rows) /\ Len(r.rows) \in Nat
      BY <2>2, LenProperties DEF CheckpointRow
    <2> DEFINE state == [through |-> r.through, state |-> Checkpoint!DerivedState(r)]
               c == Checkpoint!Result([r.key EXCEPT !.kind = "certified"], r.rows, r.cells, state,
                                      Checkpoint!Proof(r.rows, r.through))
    <2>4. state.through = r.through
      OBVIOUS
    <2> HIDE DEF state
    <2>5. CheckpointRow(c)
      BY <2>3, <2>4, ResultIsRow
    <2>6. c.through = r.through
      BY <2>3 DEF Checkpoint!Result
    <2>7. rows' \subseteq rows \cup {c}
      BY <2>1 DEF Checkpoint!Publish, state
    <2>8. UNCHANGED <<scope, operation, source>> /\ work' = Checkpoint!Idle
      BY <1>4 DEF Checkpoint!Certify
    <2> HIDE DEF c
    <2> QED
      BY <1>1, <2>2, <2>5, <2>6, <2>7, <2>8, CRestKeeps
  <1>5. CASE Checkpoint!Damage
    <2>1. PICK r \in rows : rows' = (rows \ {r}) \cup {[r EXCEPT !.damaged = TRUE]}
      BY <1>5 DEF Checkpoint!Damage
    <2>2. CheckpointRow(r) /\ r.through <= Len(source)
      BY DEF CInv
    <2> DEFINE d == [r EXCEPT !.damaged = TRUE]
    <2>3. CheckpointRow(d) /\ d.through = r.through
      <3>1. /\ DOMAIN d = ResultFields /\ d.rows = r.rows /\ d.through = r.through /\ d.start = r.start
            /\ d.proofs = r.proofs /\ d.checkpoint = r.checkpoint
        BY <2>2 DEF CheckpointRow, ResultFields
      <3> HIDE DEF d
      <3> QED
        BY <2>2, <3>1 DEF CheckpointRow
    <2>4. UNCHANGED <<scope, operation, source>> /\ work' = Checkpoint!Idle
      BY <1>5 DEF Checkpoint!Damage
    <2>5. rows' \subseteq rows \cup {d}
      BY <2>1
    <2> HIDE DEF d
    <2> QED
      BY <1>1, <2>2, <2>3, <2>4, <2>5, CRestKeeps
  <1>6. CASE Checkpoint!LegacyUpdate
    <2> DEFINE r == Checkpoint!Result(Checkpoint!Key(version, source), source, Checkpoint!WholeHistory(source).cells,
                                      None, None)
    <2>1. rows' = {r} /\ UNCHANGED <<scope, operation, source>> /\ work' = Checkpoint!Idle
      BY <1>6 DEF Checkpoint!LegacyUpdate
    <2>2. CheckpointRow(r) /\ r.through = Len(source)
      BY <1>1 DEF Checkpoint!Result, CheckpointRow, ResultFields
    <2> HIDE DEF r
    <2> QED
      BY <1>1, <2>1, <2>2, CRestKeeps
  <1>7. CASE \E cell \in scope.cells : Checkpoint!Observe(cell)
    <2>1. PICK cell \in scope.cells : Checkpoint!Observe(cell)
      BY <1>7
    <2>2. source' = Append(source, cell) /\ UNCHANGED <<scope, operation, rows>> /\ work' = Checkpoint!Idle
      BY <2>1 DEF Checkpoint!Observe
    <2>3. source' \in Seq(scope.cells) /\ Len(source') = Len(source) + 1
      BY <1>1, <2>2, AppendProperties
    <2> QED
      BY <1>1, <2>2, <2>3, CRestKeeps
  <1>8. CASE \E t \in DOMAIN source : \E cell \in scope.cells : Checkpoint!Restate(t, cell)
    <2>1. PICK t \in DOMAIN source, cell \in scope.cells : Checkpoint!Restate(t, cell)
      BY <1>8
    <2>2. source' = [source EXCEPT ![t] = cell] /\ UNCHANGED <<scope, operation, rows>> /\ work' = Checkpoint!Idle
      BY <2>1 DEF Checkpoint!Restate
    <2>3. source' \in Seq(scope.cells) /\ Len(source') = Len(source)
      <3>1. t \in 1 .. Len(source)
        BY <1>1
      <3> QED
        <4>1. cell \in scope.cells
          OBVIOUS
        <4>2. \A S, s, i, e : s \in Seq(S) /\ i \in 1 .. Len(s) /\ e \in S =>
                  [s EXCEPT ![i] = e] \in Seq(S) /\ Len([s EXCEPT ![i] = e]) = Len(s)
          BY ExceptSeq
        <4>3. PICK C, s : C = scope.cells /\ s = source
          OBVIOUS
        <4>4. [s EXCEPT ![t] = cell] \in Seq(C) /\ Len([s EXCEPT ![t] = cell]) = Len(s)
          <5>1. s \in Seq(C) /\ t \in 1 .. Len(s) /\ cell \in C
            BY <1>1, <3>1, <4>1, <4>3
          <5> QED
            BY <4>2, <5>1
        <4>5. [source EXCEPT ![t] = cell] \in Seq(scope.cells) /\ Len([source EXCEPT ![t] = cell]) = Len(source)
          BY <4>3, <4>4
        <4> QED
          BY <2>2, <4>5
    <2> QED
      BY <1>1, <2>2, <2>3, CRestKeeps
  <1> QED
    BY <1>2, <1>3, <1>4, <1>5, <1>6, <1>7, <1>8

LEMMA CInvInit == Checkpoint!Init => CInv
  <1> SUFFICES ASSUME Checkpoint!Init PROVE CInv
    OBVIOUS
  <1>1. source = <<>> /\ rows = {} /\ work = Checkpoint!Idle
    BY DEF Checkpoint!Init
  <1> QED
    BY <1>1 DEF CInv, Chosen, Checkpoint!Idle

LEMMA CInvStep == CInv /\ [Checkpoint!Next]_(Checkpoint!vars) => CInv'
  <1> SUFFICES ASSUME CInv, [Checkpoint!Next]_(Checkpoint!vars) PROVE CInv'
    OBVIOUS
  <1>1. CASE UNCHANGED Checkpoint!vars
    <2>1. UNCHANGED <<scope, operation, source, rows, completed, work>>
      BY <1>1 DEF Checkpoint!vars
    <2>2. Candidates' = Candidates
      BY <2>1 DEF Candidates, Checkpoint!Usable, Checkpoint!Proof, Checkpoint!LabelEnd, Checkpoint!Fits
    <2>3. Chosen'
      BY <2>1, <2>2 DEF CInv, Chosen, Checkpoint!Newest, Checkpoint!Idle
    <2>4. Len(source) <= Len(source')
      BY <2>1, LenProperties DEF CInv
    <2> QED
      BY <2>1, <2>3, <2>4, CInvAfter DEF CInv
  <1>2. CASE Checkpoint!Start
    BY <1>2, CStartKeeps
  <1>3. CASE Checkpoint!Refer \/ Checkpoint!Compute \/ Checkpoint!PublishTail \/ Checkpoint!Join
    BY <1>3, CPublicationsKeep
  <1>4. CASE \/ Checkpoint!Reuse \/ Checkpoint!Complete \/ Checkpoint!Interrupt
             \/ Checkpoint!Certify \/ Checkpoint!Damage \/ Checkpoint!LegacyUpdate
             \/ \E cell \in scope.cells : Checkpoint!Observe(cell)
             \/ \E t \in DOMAIN source : \E cell \in scope.cells : Checkpoint!Restate(t, cell)
    BY <1>4, COthersKeep
  <1> QED
    BY <1>1, <1>2, <1>3, <1>4 DEF Checkpoint!Next, Checkpoint!Execute

\* An execution over completed history reads on from retained state, and starts at no session that
\* a readable state over the same rows has consumed: for any source, estimator, restatements,
\* interruptions, damage and certified results (incremental.py, execute_checkpoint_node).
THEOREM CheckpointsContinueHistory == PolicySpec => []CheckpointHistoryIsContinued
  <1> DEFINE PInv == policy = "checkpoint" => CInv
  <1>1. PolicyInit => PInv
    BY CInvInit DEF PolicyInit
  <1>2. PInv /\ [PolicyNext]_allVars => PInv'
    <2> SUFFICES ASSUME PInv, [PolicyNext]_allVars, (policy = "checkpoint")' PROVE CInv'
      OBVIOUS
    <2>1. policy = "checkpoint" /\ CInv
      BY DEF PolicyNext, allVars
    <2>2. [Checkpoint!Next]_(Checkpoint!vars)
      BY <2>1 DEF PolicyNext, allVars, Checkpoint!vars
    <2> QED
      BY <2>1, <2>2, CInvStep
  <1>3. PInv => CheckpointHistoryIsContinued
    BY CInvContinues DEF CheckpointHistoryIsContinued
  <1> HIDE DEF PInv
  <1> QED
    BY <1>1, <1>2, <1>3, PTL DEF PolicySpec

-----------------------------------------------------------------------------
(* Checkpoints: what is resumed is a whole history. *)

\* What proves a prefix says that the rows before agree, as far as the kernel reads them.
LEMMA ProofAgrees ==
    ASSUME NEW s \in Seq(Cell), NEW k \in 0 .. Len(s), NEW p \in Seq(Cell), Len(p) = k,
           Absent \notin [value : Int \cup {Null}, trace : Int \cup {Null}],
           Checkpoint!Proof(p, k) = Checkpoint!Proof(s, k)
    PROVE  /\ operation # "train" => \A t \in 1 .. k : p[t] = s[t]
           /\ operation = "train" => Agreeing(scope.training, p, s, k)
  <1>0. Len(s) \in Nat /\ k \in Nat /\ k <= Len(s)
    BY LenProperties
  <1>1. ASSUME operation # "train" PROVE \A t \in 1 .. k : p[t] = s[t]
    <2>1. SubSeq(p, 1, k) = SubSeq(s, 1, k)
      BY <1>1 DEF Checkpoint!Proof
    <2>2. \A t \in 1 .. k : SubSeq(p, 1, k)[t] = p[t] /\ SubSeq(s, 1, k)[t] = s[t]
      BY <1>0
    <2> QED
      BY <2>1, <2>2
  <1>2. ASSUME operation = "train" PROVE Agreeing(scope.training, p, s, k)
    <2> DEFINE l == Checkpoint!LabelEnd(scope.training, k)
               proven(x, t) == IF x[t] = Absent \/ t <= l THEN x[t] ELSE [x[t] EXCEPT !.trace = Null]
    <2>1. [t \in 1 .. k |-> proven(p, t)] = [t \in 1 .. k |-> proven(s, t)]
      BY <1>2 DEF Checkpoint!Proof
    <2> SUFFICES ASSUME NEW t \in 1 .. k
                 PROVE  /\ p[t] = Absent <=> s[t] = Absent
                        /\ p[t] # Absent => p[t].value = s[t].value
                        /\ t <= l => p[t] = s[t]
      BY DEF Agreeing
    <2>2. proven(p, t) = proven(s, t)
      <3> HIDE DEF proven
      <3>1. [u \in 1 .. k |-> proven(p, u)][t] = proven(p, t) /\ [u \in 1 .. k |-> proven(s, u)][t] = proven(s, t)
        OBVIOUS
      <3> QED
        BY <2>1, <3>1
    <2>3. p[t] \in Cell /\ s[t] \in Cell
      <3>1. t \in 1 .. Len(p) /\ t \in 1 .. Len(s)
        BY <1>0
      <3> QED
        BY <3>1, ElementOfSeq
    <2>4. ASSUME NEW x \in [value : Int \cup {Null}, trace : Int \cup {Null}]
          PROVE  /\ [x EXCEPT !.trace = Null] \in [value : Int \cup {Null}, trace : Int \cup {Null}]
                 /\ [x EXCEPT !.trace = Null].value = x.value
      OBVIOUS
    <2>5. CASE t <= l
      BY <2>2, <2>5
    <2>6. CASE ~ (t <= l)
      <3>1. \A x \in Cell \ {Absent} : /\ [x EXCEPT !.trace = Null] # Absent
                                       /\ [x EXCEPT !.trace = Null].value = x.value
        BY <2>4 DEF Cell
      <3>2. (IF p[t] = Absent THEN p[t] ELSE [p[t] EXCEPT !.trace = Null])
            = (IF s[t] = Absent THEN s[t] ELSE [s[t] EXCEPT !.trace = Null])
        BY <2>2, <2>6
      <3> QED
        BY <2>3, <2>6, <3>1, <3>2
    <2> QED
      BY <2>5, <2>6
  <1> QED
    BY <1>1, <1>2

\* A result of a whole history, and the state that this history leaves.
Resumed(r) ==
    r.start = 1 =>
        /\ r.cells = Checkpoint!WholeHistory(r.rows).cells
        /\ r.checkpoint # None =>
              Leaves(r.rows) /\ r.checkpoint.state = Checkpoint!WholeHistory(r.rows).checkpoint.state

\* A usable result and the kernel that reads on from its state give the whole history.
LEMMA UsableContinues ==
    ASSUME Null \notin Int, Absent \notin [value : Int \cup {Null}, trace : Int \cup {Null}],
           operation = "train" => Estimator(scope.training),
           NEW s \in Seq(Cell), NEW r, r.rows \in Seq(Cell), r.through = Len(r.rows),
           r.proofs = Checkpoint!Proof(r.rows, r.through),
           Checkpoint!Usable(r, s), Resumed(r)
    PROVE  LET b == Checkpoint!WholeHistory(s)
               c == Checkpoint!Kernel(s, r.through, r.checkpoint.state)
           IN  /\ r.cells \o c.cells = b.cells
               /\ c.checkpoint # None => Leaves(s) /\ c.checkpoint.state = b.checkpoint.state
               /\ r.through = Len(s) => r.cells = b.cells /\ Leaves(s) /\ r.checkpoint.state = b.checkpoint.state
  <1> DEFINE p == r.rows
             k == r.through
             a == Checkpoint!WholeHistory(p)
             b == Checkpoint!WholeHistory(s)
             c == Checkpoint!Kernel(s, k, r.checkpoint.state)
  <1>1. /\ r.start = 1 /\ k <= Len(s) /\ r.checkpoint # None /\ r.proofs = Checkpoint!Proof(s, k)
    BY DEF Checkpoint!Usable
  <1>2. r.cells = a.cells /\ Leaves(p) /\ r.checkpoint.state = a.checkpoint.state
    BY <1>1 DEF Resumed
  <1>3. k \in 0 .. Len(s) /\ p \in Seq(Cell) /\ Len(p) = k
    BY <1>1, LenProperties
  <1>4. Checkpoint!Proof(p, k) = Checkpoint!Proof(s, k)
    BY <1>1
  <1>5. c = Checkpoint!Kernel(s, k, a.checkpoint.state)
    BY <1>2
  <1> HIDE DEF p, k
  <1>6. /\ operation # "train" => \A t \in 1 .. k : p[t] = s[t]
        /\ operation = "train" => Agreeing(scope.training, p, s, k)
    BY <1>3, <1>4, ProofAgrees
  <1> DEFINE z == Checkpoint!Kernel(s, k, a.checkpoint.state)
  <1>7. /\ a.cells \o z.cells = b.cells
        /\ z.checkpoint # None => Leaves(s) /\ z.checkpoint.state = b.checkpoint.state
        /\ k = Len(s) => a.cells = b.cells /\ Leaves(s) /\ a.checkpoint.state = b.checkpoint.state
    <2>1. CASE operation # "train"
      BY <1>2, <1>3, <1>6, <2>1, ContinuationContinues
    <2>2. CASE operation = "train"
      <3>1. Leaves(s)
        BY <2>2 DEF Leaves
      <3>2. /\ a.cells \o z.cells = b.cells
            /\ z.checkpoint.state = b.checkpoint.state
            /\ k = Len(s) => a.cells = b.cells /\ a.checkpoint.state = b.checkpoint.state
        BY <1>3, <1>6, <2>2, TrainingContinues
      <3> HIDE DEF a, b, z
      <3> QED
        BY <3>1, <3>2
    <2> QED
      BY <2>1, <2>2
  <1>8. c = z
    BY <1>5
  <1> HIDE DEF a, b, c, z
  <1>9. /\ r.cells \o c.cells = b.cells
        /\ c.checkpoint # None => Leaves(s) /\ c.checkpoint.state = b.checkpoint.state
        /\ k = Len(s) => r.cells = b.cells /\ Leaves(s) /\ r.checkpoint.state = b.checkpoint.state
    BY <1>2, <1>7, <1>8
  <1> QED
    BY <1>9 DEF b, c, k

\* Two rows say what the last movement was.
LEMMA DerivedDirection ==
    ASSUME NEW rs, Bounded(DOMAIN rs), DOMAIN rs # {}, NEW x,
           DOMAIN x = {t \in DOMAIN rs : Cardinality({u \in DOMAIN rs : u > t}) < 2},
           \A t \in DOMAIN x : x[t] = rs[t], NEW seed
    PROVE  Checkpoint!Directions(x, seed)[Max(DOMAIN rs)] = Checkpoint!Directions(rs, seed)[Max(DOMAIN rs)]
  <1> DEFINE D == DOMAIN rs
             T == DOMAIN x
             l == Max(D)
             over(t) == {u \in D : u > t}
             E == {u \in D : u < l}
  <1>0. T = {t \in D : Cardinality(over(t)) < 2}
    OBVIOUS
  <1>1. l \in D /\ l \in Nat /\ (\A t \in D : t <= l) /\ D \in SUBSET Nat
    BY MaxOfSessions DEF Bounded
  <1> HIDE DEF l
  <1>2. l \in T
    <2>1. over(l) = {}
      BY <1>1
    <2>2. Cardinality(over(l)) = 0
      BY <2>1, FS_EmptySet
    <2> HIDE DEF over, T
    <2> QED
      BY <1>0, <1>1, <2>2
  <1>3. T \in SUBSET D
    BY <1>0
  <1>4. Bounded(T)
    BY <1>3, BoundedSubset
  <1>5. DOMAIN Values(rs) = D /\ DOMAIN Values(x) = T /\ (\A t \in T : Values(x)[t] = Values(rs)[t])
    BY <1>3 DEF Values
  <1>6. Checkpoint!Shifted(Values(x), seed.value)[l] = Checkpoint!Shifted(Values(rs), seed.value)[l]
    <2>1. CASE E = {}
      <3>1. {u \in T : u < l} = {}
        BY <1>3, <2>1
      <3> QED
        BY <1>1, <1>2, <1>4, <1>5, <2>1, <3>1, ShiftedIs
    <2>2. CASE E # {}
      <3> DEFINE m == Max(E)
      <3>1. m \in D /\ m < l /\ \A v \in D : v < l => v <= m
        <4>1. E \in SUBSET D
          OBVIOUS
        <4>2. Bounded(E)
          BY <4>1, BoundedSubset
        <4>3. m \in E /\ \A v \in E : v <= m
          BY <2>2, <4>2, MaxOfSessions
        <4> QED
          BY <4>3
      <3> HIDE DEF m
      <3>2. over(m) = {l}
        BY <1>1, <3>1
      <3>3. Cardinality(over(m)) = 1
        BY <3>2, FS_Singleton
      <3>4. m \in T
        BY <1>0, <3>1, <3>3
      <3>5. \A v \in T : v < l => v <= m
        BY <1>3, <3>1
      <3>6. Checkpoint!Shifted(Values(x), seed.value)[l] = Values(x)[m]
        <4> DEFINE f == Values(x)
        <4>1. DOMAIN f = T /\ Bounded(DOMAIN f)
          BY <1>4, <1>5
        <4> HIDE DEF f, T
        <4> QED
          BY <1>2, <3>1, <3>4, <3>5, <4>1, ShiftedIs DEF f
      <3>7. Checkpoint!Shifted(Values(rs), seed.value)[l] = Values(rs)[m]
        BY <1>1, <1>5, <3>1, ShiftedIs
      <3> QED
        BY <1>5, <3>4, <3>6, <3>7
    <2> QED
      BY <2>1, <2>2
  <1>7. Values(x)[l] = Values(rs)[l]
    BY <1>2, <1>5
  <1>8. Checkpoint!Directions(x, seed)[l] = Checkpoint!Directions(rs, seed)[l]
    BY <1>1, <1>2, <1>6, <1>7, DirectionsAre
  <1> QED
    BY <1>8 DEF l

\* The state that maintenance derives from a whole history is the one it would have left.
LEMMA DerivedIsLeft ==
    ASSUME operation = "reset", NEW r, r.rows \in Seq(Cell),
           r.cells = Checkpoint!WholeHistory(r.rows).cells
    PROVE  Checkpoint!DerivedState(r) = Checkpoint!WholeHistory(r.rows).checkpoint.state
  <1> DEFINE s == r.rows
             rs == Checkpoint!Rows(s, 1)
             D == {t \in 1 .. Len(s) : s[t] # Absent}
             seed == Checkpoint!NoSeed
             b == Checkpoint!WholeHistory(s)
             w == Checkpoint!State(rs, seed, TRUE)
             counts == Checkpoint!Counts(rs, w, seed, TRUE)
             traces == Checkpoint!RunTraces(rs, w, seed)
             l == Max(D)
             tail == {t \in D : Cardinality({u \in D : u > t}) < 2}
             x == [t \in tail |-> s[t]]
  <1>0. Len(s) \in Nat
    BY LenProperties
  <1>1. StreakRows(rs) /\ DOMAIN rs = D /\ \A t \in D : rs[t] = s[t]
    BY AllRows
  <1>2. Checkpoint!Members(s, 1) = D
    BY <1>1 DEF Checkpoint!Rows
  <1>3. Bounded(D)
    BY <1>1 DEF StreakRows
  <1>4. /\ b.cells = [i \in 1 .. Len(s) |-> IF s[i] = Absent THEN Absent ELSE [value |-> counts[i], trace |-> traces[i]]]
        /\ b.checkpoint.state = IF D = {} THEN seed ELSE Row(rs, w, counts, traces, l)
    <2> DEFINE run == Checkpoint!Streak(rs, seed, TRUE)
    <2>1. ContinuesAt(b, s, 0, Checkpoint!Rows(s, 0 + 1), seed)
      BY ContinuationIs DEF Checkpoint!WholeHistory, Checkpoint!Unseeded
    <2>2. 0 + 1 = 1 /\ Len(s) - 0 = Len(s) /\ \A i \in 1 .. Len(s) : 0 + i = i
      BY <1>0
    <2>3. Run(rs, seed) = run
      <3>1. (operation = "reset") = TRUE /\ operation # "ewm"
        OBVIOUS
      <3>2. Run(rs, seed) = Checkpoint!Streak(rs, seed, operation = "reset")
        BY <3>1 DEF Run
      <3> QED
        BY <3>1, <3>2
    <2>0. TRUE \in BOOLEAN
      OBVIOUS
    <2>4. run = [output |-> [t \in DOMAIN rs |-> [value |-> counts[t], trace |-> traces[t]]],
                 saved |-> IF DOMAIN rs = {} THEN seed ELSE Row(rs, w, counts, traces, Max(DOMAIN rs))]
      BY StreakIs
    <2> HIDE DEF run, b, rs, seed, w, counts, traces
    <2>5. run.saved = IF D = {} THEN seed ELSE Row(rs, w, counts, traces, l)
      BY <1>1, <2>4
    <2>6. \A t \in D : run.output[t] = [value |-> counts[t], trace |-> traces[t]]
      BY <1>1, <2>4
    <2> HIDE DEF l
    <2>7. /\ b.cells = [i \in 1 .. Len(s) - 0 |-> IF s[0 + i] = Absent THEN Absent ELSE run.output[0 + i]]
          /\ b.checkpoint.state = run.saved
      BY <2>1, <2>2, <2>3 DEF ContinuesAt, rs
    <2> QED
      BY <2>2, <2>5, <2>6, <2>7
  <1>5. Checkpoint!DerivedState(r) =
          IF D = {} THEN seed
          ELSE [value |-> s[l].value, direction |-> Checkpoint!Directions(x, seed)[l],
                count |-> r.cells[l].value, previous_trace |-> s[l].trace, run_trace |-> r.cells[l].trace]
    <2>1. Checkpoint!Members(r.rows, 1) = D /\ \A S : Checkpoint!Max(S) = Max(S) /\ Checkpoint!Cardinality(S) = Cardinality(S)
      BY <1>2, KernelBounds, KernelCounts
    <2> HIDE DEF D
    <2> QED
      BY <2>1 DEF Checkpoint!DerivedState
  <1>6. CASE D = {}
    BY <1>4, <1>5, <1>6
  <1>7. CASE D # {}
    <2>1. l \in D
      BY <1>3, <1>7, MaxOfSessions
    <2>2. r.cells[l] = [value |-> counts[l], trace |-> traces[l]]
      BY <1>4, <2>1
    <2>3. Checkpoint!Directions(x, seed)[l] = w.direction[l]
      <3>1. DOMAIN x = {t \in DOMAIN rs : Cardinality({u \in DOMAIN rs : u > t}) < 2} /\ \A t \in DOMAIN x : x[t] = rs[t]
        BY <1>1
      <3>2. w.direction = Checkpoint!Directions(rs, seed)
        BY ResettingIs DEF Checkpoint!State
      <3>3. Bounded(DOMAIN rs) /\ DOMAIN rs # {} /\ l = Max(DOMAIN rs)
        BY <1>1, <1>3, <1>7
      <3> HIDE DEF x, rs, seed, w, l, D
      <3> QED
        BY <3>1, <3>2, <3>3, DerivedDirection
    <2>4. rs[l] = s[l]
      BY <1>1, <2>1
    <2> HIDE DEF D, l, x, w, counts, traces, seed, rs, b
    <2>5. b.checkpoint.state = Row(rs, w, counts, traces, l)
      BY <1>4, <1>7
    <2>6. Checkpoint!DerivedState(r) = Row(rs, w, counts, traces, l)
      BY <1>5, <1>7, <2>2, <2>3, <2>4 DEF Row
    <2> QED
      BY <2>5, <2>6 DEF b
  <1> QED
    BY <1>6, <1>7

-----------------------------------------------------------------------------
(* Checkpoints: the invariant of what is published. *)

\* Executions are of results, and so are completed keys; what starts later is a tail.
Keyed ==
    /\ work # Checkpoint!Idle =>
          work.key.kind = "result" /\ DOMAIN work.key = {"kind", "version", "through", "after"}
    /\ \A key \in completed : key.kind = "result"
OfResult(r) == r.start = 1 \/ r.key.kind = "tail"

\* What is being continued can be: it is published, and its proof is that of the source.
Continuable ==
    /\ work.step \in {"refer", "kernel", "tail", "join"} => source # <<>>
    /\ work.step \in {"refer", "tail", "join"} =>
          work.previous \in rows /\ Checkpoint!Usable(work.previous, source)
    /\ work.step = "refer" => work.previous.through = Len(source)

WholeResult(r) == Resumed(r) /\ OfResult(r) /\ r.rows # <<>>

HInv ==
    /\ CInv
    /\ scope \in CheckpointScopes /\ operation \in scope.operations
    /\ Keyed /\ Continuable
    /\ \A r \in rows : WholeResult(r)

LEMMA CellsAreTyped ==
    ASSUME scope \in CheckpointScopes, operation \in scope.operations
    PROVE  /\ Null \notin Int /\ Absent \notin [value : Int \cup {Null}, trace : Int \cup {Null}]
           /\ operation = "train" => Estimator(scope.training)
           /\ \A s \in Seq(scope.cells) : s \in Seq(Cell)
  <1>1. scope.cells \subseteq Cell
    BY CheckpointScopesAssumption DEF Cell
  <1>2. ASSUME NEW s \in Seq(scope.cells) PROVE s \in Seq(Cell)
    <2> DEFINE C == scope.cells
    <2>1. s \in Seq(C) /\ C \subseteq Cell
      BY <1>1
    <2> HIDE DEF C
    <2>2. Len(s) \in Nat /\ s \in [1 .. Len(s) -> C]
      BY <2>1, LenProperties
    <2>3. s \in [1 .. Len(s) -> Cell]
      BY <2>1, <2>2
    <2> QED
      BY <2>2, <2>3
  <1> QED
    BY <1>2, CheckpointScopesAssumption DEF Estimator

LEMMA WholeResultStays ==
    ASSUME UNCHANGED <<scope, operation>>, NEW r
    PROVE  WholeResult(r) <=> WholeResult(r)'
  BY DEF WholeResult, OfResult, Resumed, Leaves, Checkpoint!WholeHistory, Checkpoint!Kernel, Checkpoint!Training,
         Checkpoint!Continuation, Checkpoint!Unseeded

LEMMA HInvAfter ==
    ASSUME HInv, CInv', UNCHANGED <<scope, operation>>, Keyed', Continuable',
           \A r \in rows' : r \in rows \/ WholeResult(r)
    PROVE  HInv'
  <1>1. \A r \in rows' : WholeResult(r)
    BY DEF HInv
  <1>2. \A r \in rows' : WholeResult(r)'
    BY <1>1, WholeResultStays
  <1> QED
    BY <1>2 DEF HInv

\* Steps after which nothing is being continued.
LEMMA HRestKeeps ==
    ASSUME HInv, CInv', UNCHANGED <<scope, operation>>,
           \A key \in completed' : key.kind = "result",
           \A r \in rows' : r \in rows \/ WholeResult(r),
           \/ work' = Checkpoint!Idle
           \/ /\ work'.step = "complete" /\ work'.key.kind = "result"
              /\ DOMAIN work'.key = {"kind", "version", "through", "after"}
    PROVE  HInv'
  <1>1. Keyed'
    BY DEF Keyed, Checkpoint!Idle
  <1>2. Continuable'
    BY DEF Continuable, Checkpoint!Idle
  <1> QED
    BY <1>1, <1>2, HInvAfter

\* The result that an execution publishes under its own key.
LEMMA HOwnResultKeeps ==
    ASSUME HInv, CInv', UNCHANGED <<scope, operation, source, completed>>, NEW cells, NEW checkpoint, NEW proofs,
           cells = Checkpoint!WholeHistory(source).cells,
           checkpoint # None =>
               Leaves(source) /\ checkpoint.state = Checkpoint!WholeHistory(source).checkpoint.state,
           Checkpoint!Publish(Checkpoint!Result(work.key, source, cells, checkpoint, proofs)),
           work.step \in {"refer", "kernel", "join"}, work' = [work EXCEPT !.step = "complete"]
    PROVE  HInv'
  <1> DEFINE r == Checkpoint!Result(work.key, source, cells, checkpoint, proofs)
  <1>1. r.start = 1 /\ r.rows = source /\ r.cells = cells /\ r.checkpoint = checkpoint
    BY DEF Checkpoint!Result
  <1>2. rows' \subseteq rows \cup {r}
    BY DEF Checkpoint!Publish
  <1>3. source # <<>>
    BY DEF HInv, Continuable
  <1> HIDE DEF r
  <1>4. WholeResult(r)
    BY <1>1, <1>3 DEF WholeResult, Resumed, OfResult
  <1>5. work # Checkpoint!Idle /\ DOMAIN work = {"key", "previous", "step"}
    BY DEF HInv, CInv, Chosen, Checkpoint!Idle
  <1>6. work'.step = "complete" /\ work'.key = work.key
    BY <1>5
  <1>7. work.key.kind = "result" /\ DOMAIN work.key = {"kind", "version", "through", "after"}
        /\ \A key \in completed : key.kind = "result"
    BY <1>5 DEF HInv, Keyed
  <1> QED
    BY <1>2, <1>4, <1>6, <1>7, HRestKeeps

\* What an execution continues gives its whole history.
LEMMA PreviousContinues ==
    ASSUME HInv, work.step \in {"refer", "tail", "join"}
    PROVE  LET b == Checkpoint!WholeHistory(source)
               c == Checkpoint!Continued
               r == work.previous
           IN  /\ r.cells \o c.cells = b.cells
               /\ c.checkpoint # None => Leaves(source) /\ c.checkpoint.state = b.checkpoint.state
               /\ r.through = Len(source) =>
                     r.cells = b.cells /\ Leaves(source) /\ r.checkpoint.state = b.checkpoint.state
               /\ r.through \in Nat \ {0}
  <1> DEFINE r == work.previous
  <1>1. r \in rows /\ Checkpoint!Usable(r, source)
    BY DEF HInv, Continuable
  <1>2. CheckpointRow(r) /\ Resumed(r) /\ r.rows # <<>>
    BY <1>1 DEF HInv, CInv, WholeResult
  <1>3. r.rows \in Seq(scope.cells) /\ r.through = Len(r.rows) /\ r.checkpoint # None
        /\ r.proofs = Checkpoint!Proof(r.rows, r.through)
    BY <1>1, <1>2 DEF CheckpointRow, Checkpoint!Usable
  <1>4. /\ Null \notin Int /\ Absent \notin [value : Int \cup {Null}, trace : Int \cup {Null}]
        /\ operation = "train" => Estimator(scope.training)
        /\ source \in Seq(Cell) /\ r.rows \in Seq(Cell)
    <2>1. scope \in CheckpointScopes /\ operation \in scope.operations /\ source \in Seq(scope.cells)
      BY DEF HInv, CInv
    <2> HIDE DEF r
    <2> QED
      BY <1>3, <2>1, CellsAreTyped
  <1>5. r.through \in Nat \ {0}
    <2> DEFINE p == r.rows
    <2>1. p \in Seq(Cell) /\ p # <<>> /\ r.through = Len(p)
      BY <1>2, <1>3, <1>4
    <2> HIDE DEF p, r
    <2>2. Len(p) \in Nat /\ Len(p) # 0
      BY <2>1, LenProperties, EmptySeq
    <2> QED
      BY <2>1, <2>2
  <1> HIDE DEF r
  <1> DEFINE b == Checkpoint!WholeHistory(source)
             c == Checkpoint!Kernel(source, r.through, r.checkpoint.state)
  <1>6. /\ r.cells \o c.cells = b.cells
        /\ c.checkpoint # None => Leaves(source) /\ c.checkpoint.state = b.checkpoint.state
        /\ r.through = Len(source) => r.cells = b.cells /\ Leaves(source) /\ r.checkpoint.state = b.checkpoint.state
    BY <1>1, <1>2, <1>3, <1>4, UsableContinues
  <1>7. c = Checkpoint!Continued
    BY DEF Checkpoint!Continued, r
  <1> HIDE DEF b, c
  <1> QED
    BY <1>5, <1>6, <1>7 DEF b, r

LEMMA HStartKeeps == ASSUME HInv, CInv', Checkpoint!Start PROVE HInv'
  <1> DEFINE usable == {r \in rows : Checkpoint!Usable(r, source)}
  <1>1. UNCHANGED <<scope, operation, source, rows, completed>> /\ source # <<>>
    BY DEF Checkpoint!Start
  <1>2. \E previous \in IF usable = {} THEN {None} ELSE Checkpoint!Newest(usable) :
           work' = [key |-> Checkpoint!Key(version, source), previous |-> previous,
                    step |-> IF usable = {} THEN "kernel"
                             ELSE IF previous.through = Len(source) THEN "refer" ELSE "tail"]
    BY DEF Checkpoint!Start
  <1>3. Keyed'
    <2>1. work'.key = Checkpoint!Key(version, source)
      BY <1>2
    <2>2. work'.key.kind = "result" /\ DOMAIN work'.key = {"kind", "version", "through", "after"}
      BY <2>1 DEF Checkpoint!Key
    <2> QED
      BY <1>1, <2>2 DEF HInv, Keyed
  <1>4. \A r : Checkpoint!Usable(r, source)' <=> Checkpoint!Usable(r, source)
    BY <1>1 DEF Checkpoint!Usable, Checkpoint!Proof, Checkpoint!LabelEnd, Checkpoint!Fits
  <1>5. Continuable'
    <2>1. CASE usable = {}
      <3>1. work'.step = "kernel"
        BY <1>2, <2>1
      <3> QED
        BY <1>1, <3>1 DEF Continuable
    <2>2. CASE usable # {}
      <3>1. PICK previous \in Checkpoint!Newest(usable) :
                work' = [key |-> Checkpoint!Key(version, source), previous |-> previous,
                         step |-> IF previous.through = Len(source) THEN "refer" ELSE "tail"]
        BY <1>2, <2>2
      <3>2. previous \in rows /\ Checkpoint!Usable(previous, source)
        BY <3>1 DEF Checkpoint!Newest
      <3>3. work'.previous = previous /\ work'.step \in {"refer", "tail"}
            /\ (work'.step = "refer" => previous.through = Len(source))
        BY <3>1
      <3>4. Checkpoint!Usable(work'.previous, source')
        BY <1>1, <1>4, <3>2, <3>3 DEF Checkpoint!Usable, Checkpoint!Proof, Checkpoint!LabelEnd, Checkpoint!Fits
      <3> QED
        BY <1>1, <3>2, <3>3, <3>4 DEF Continuable, Checkpoint!Usable, Checkpoint!Proof, Checkpoint!LabelEnd, Checkpoint!Fits
    <2> QED
      BY <2>1, <2>2
  <1> QED
    BY <1>1, <1>3, <1>5, HInvAfter

LEMMA HPublicationsKeep ==
    ASSUME HInv, CInv', Checkpoint!Refer \/ Checkpoint!Compute \/ Checkpoint!PublishTail \/ Checkpoint!Join
    PROVE  HInv'
  <1>1. CASE Checkpoint!Refer
    <2>1. /\ work.step = "refer" /\ UNCHANGED <<scope, operation, source, completed>>
          /\ work' = [work EXCEPT !.step = "complete"]
          /\ Checkpoint!Publish(Checkpoint!Result(work.key, source, work.previous.cells, work.previous.checkpoint,
                                                  Checkpoint!Proof(source, Len(source))))
      BY <1>1 DEF Checkpoint!Refer
    <2>2. work.previous.through = Len(source)
      BY <2>1 DEF HInv, Continuable
    <2>3. /\ work.previous.cells = Checkpoint!WholeHistory(source).cells /\ Leaves(source)
          /\ work.previous.checkpoint.state = Checkpoint!WholeHistory(source).checkpoint.state
      BY <2>1, <2>2, PreviousContinues
    <2> QED
      BY <2>1, <2>3, HOwnResultKeeps
  <1>2. CASE Checkpoint!Compute
    <2> DEFINE b == Checkpoint!WholeHistory(source)
    <2>1. /\ work.step = "kernel" /\ UNCHANGED <<scope, operation, source, completed>>
          /\ work' = [work EXCEPT !.step = "complete"]
          /\ Checkpoint!Publish(Checkpoint!Result(work.key, source, b.cells, b.checkpoint,
                                                  Checkpoint!Proof(source, Len(source))))
      BY <1>2 DEF Checkpoint!Compute
    <2>2. b.checkpoint # None => Leaves(source)
      <3>1. CASE operation = "train"
        BY <3>1 DEF Leaves
      <3>2. CASE operation # "train"
        <4>1. ContinuesAt(b, source, 0, Checkpoint!Rows(source, 0 + 1), Checkpoint!Unseeded)
          BY <3>2, ContinuationIs DEF Checkpoint!WholeHistory
        <4>2. DOMAIN Checkpoint!Rows(source, 0 + 1) = Checkpoint!Members(source, 0 + 1) /\ 0 + 1 = 1
          BY DEF Checkpoint!Rows
        <4> HIDE DEF b
        <4> QED
          BY <4>1, <4>2 DEF ContinuesAt, Leaves
      <3> QED
        BY <3>1, <3>2
    <2> QED
      BY <2>1, <2>2, HOwnResultKeeps
  <1>3. CASE Checkpoint!PublishTail
    <2> DEFINE t == [Checkpoint!Result(Checkpoint!TailKey(work.key, work.previous.through), source,
                                       Checkpoint!Continued.cells, None, Checkpoint!Proof(source, Len(source)))
                     EXCEPT !.start = work.previous.through + 1]
    <2>1. /\ work.step = "tail" /\ UNCHANGED <<scope, operation, source, completed>>
          /\ work' = [work EXCEPT !.step = "join"] /\ rows \subseteq rows' /\ rows' \subseteq rows \cup {t}
      BY <1>3 DEF Checkpoint!PublishTail, Checkpoint!Publish
    <2>2. work # Checkpoint!Idle /\ DOMAIN work = {"key", "previous", "step"}
      BY <2>1 DEF HInv, CInv, Chosen, Checkpoint!Idle
    <2>3. work.key.kind = "result" /\ DOMAIN work.key = {"kind", "version", "through", "after"}
      BY <2>2 DEF HInv, Keyed
    <2>4. t.start = work.previous.through + 1 /\ t.rows = source /\ t.key.kind = "tail"
      BY <2>3 DEF Checkpoint!Result, Checkpoint!TailKey
    <2>5. t.start # 1
      <3>1. work.previous.through \in Nat \ {0}
        BY <2>1, PreviousContinues
      <3> HIDE DEF t
      <3> QED
        BY <2>4, <3>1
    <2> HIDE DEF t
    <2>6. WholeResult(t)
      BY <2>1, <2>4, <2>5 DEF WholeResult, Resumed, OfResult, HInv, Continuable
    <2>7. work'.step = "join" /\ work'.key = work.key /\ work'.previous = work.previous
      BY <2>1, <2>2
    <2>8. Keyed'
      BY <2>1, <2>3, <2>7 DEF HInv, Keyed
    <2>9. Continuable'
      BY <2>1, <2>7 DEF HInv, Continuable, Checkpoint!Usable, Checkpoint!Proof, Checkpoint!LabelEnd, Checkpoint!Fits
    <2> QED
      BY <2>1, <2>6, <2>8, <2>9, HInvAfter
  <1>4. CASE Checkpoint!Join
    <2> DEFINE c == Checkpoint!Continued
    <2>1. /\ work.step = "join" /\ UNCHANGED <<scope, operation, source, completed>>
          /\ work' = [work EXCEPT !.step = "complete"]
          /\ Checkpoint!Publish(Checkpoint!Result(work.key, source, work.previous.cells \o c.cells, c.checkpoint,
                                                  Checkpoint!Proof(source, Len(source))))
      BY <1>4 DEF Checkpoint!Join
    <2>2. /\ work.previous.cells \o c.cells = Checkpoint!WholeHistory(source).cells
          /\ c.checkpoint # None =>
                Leaves(source) /\ c.checkpoint.state = Checkpoint!WholeHistory(source).checkpoint.state
      BY <2>1, PreviousContinues
    <2> HIDE DEF c
    <2> QED
      BY <2>1, <2>2, HOwnResultKeeps
  <1> QED
    BY <1>1, <1>2, <1>3, <1>4

LEMMA HOthersKeep ==
    ASSUME HInv, CInv',
           \/ Checkpoint!Reuse \/ Checkpoint!Complete \/ Checkpoint!Interrupt
           \/ Checkpoint!Certify \/ Checkpoint!Damage \/ Checkpoint!LegacyUpdate
           \/ \E cell \in scope.cells : Checkpoint!Observe(cell)
           \/ \E t \in DOMAIN source : \E cell \in scope.cells : Checkpoint!Restate(t, cell)
    PROVE  HInv'
  <1>1. \A key \in completed : key.kind = "result"
    BY DEF HInv, Keyed
  <1>2. CASE Checkpoint!Reuse
    <2>1. UNCHANGED <<scope, operation, rows, completed>> /\ work'.step = "complete"
          /\ work'.key = Checkpoint!Key(version, source)
      BY <1>2 DEF Checkpoint!Reuse
    <2>2. work'.key.kind = "result" /\ DOMAIN work'.key = {"kind", "version", "through", "after"}
      BY <2>1 DEF Checkpoint!Key
    <2> QED
      BY <1>1, <2>1, <2>2, HRestKeeps
  <1>3. CASE Checkpoint!Complete
    <2>1. UNCHANGED <<scope, operation, rows>> /\ work' = Checkpoint!Idle
          /\ completed' = completed \cup {work.key} /\ work.step = "complete"
      BY <1>3 DEF Checkpoint!Complete
    <2>2. work.key.kind = "result"
      BY <2>1 DEF HInv, Keyed, Checkpoint!Idle
    <2> QED
      BY <1>1, <2>1, <2>2, HRestKeeps
  <1>4. CASE Checkpoint!Interrupt
    <2>1. UNCHANGED <<scope, operation, rows, completed>> /\ work' = Checkpoint!Idle
      BY <1>4 DEF Checkpoint!Interrupt
    <2> QED
      BY <1>1, <2>1, HRestKeeps
  <1>5. CASE Checkpoint!Certify
    <2>1. PICK r \in rows :
              /\ r.key \in completed
              /\ Checkpoint!Publish(Checkpoint!Result([r.key EXCEPT !.kind = "certified"], r.rows, r.cells,
                                                      [through |-> r.through, state |-> Checkpoint!DerivedState(r)],
                                                      Checkpoint!Proof(r.rows, r.through)))
      BY <1>5 DEF Checkpoint!Certify
    <2>2. UNCHANGED <<scope, operation, completed>> /\ work' = Checkpoint!Idle /\ operation = "reset"
      BY <1>5 DEF Checkpoint!Certify
    <2>3. r.start = 1 /\ Resumed(r) /\ r.rows # <<>> /\ r.rows \in Seq(Cell)
      <3>1. WholeResult(r) /\ CheckpointRow(r) /\ scope \in CheckpointScopes /\ operation \in scope.operations
        BY DEF HInv, CInv
      <3>2. r.key.kind = "result"
        BY <1>1, <2>1
      <3>3. r.rows \in Seq(scope.cells)
        BY <3>1 DEF CheckpointRow
      <3> QED
        BY <3>1, <3>2, <3>3, CellsAreTyped DEF WholeResult, OfResult
    <2>4. r.cells = Checkpoint!WholeHistory(r.rows).cells
      BY <2>3 DEF Resumed
    <2>5. Checkpoint!DerivedState(r) = Checkpoint!WholeHistory(r.rows).checkpoint.state
      BY <2>2, <2>3, <2>4, DerivedIsLeft
    <2> DEFINE state == [through |-> r.through, state |-> Checkpoint!DerivedState(r)]
               d == Checkpoint!Result([r.key EXCEPT !.kind = "certified"], r.rows, r.cells, state,
                                      Checkpoint!Proof(r.rows, r.through))
    <2>6. d.start = 1 /\ d.rows = r.rows /\ d.cells = r.cells /\ d.checkpoint.state = Checkpoint!DerivedState(r)
      BY DEF Checkpoint!Result
    <2>7. rows' \subseteq rows \cup {d}
      BY <2>1 DEF Checkpoint!Publish
    <2> HIDE DEF d
    <2>8. WholeResult(d)
      BY <2>2, <2>3, <2>4, <2>5, <2>6 DEF WholeResult, Resumed, OfResult, Leaves
    <2> QED
      BY <1>1, <2>2, <2>7, <2>8, HRestKeeps
  <1>6. CASE Checkpoint!Damage
    <2>1. PICK r \in rows : rows' = (rows \ {r}) \cup {[r EXCEPT !.damaged = TRUE]}
      BY <1>6 DEF Checkpoint!Damage
    <2> DEFINE d == [r EXCEPT !.damaged = TRUE]
    <2>2. WholeResult(r) /\ DOMAIN r = ResultFields
      BY DEF HInv, CInv, CheckpointRow
    <2>3. d.start = r.start /\ d.rows = r.rows /\ d.cells = r.cells /\ d.checkpoint = r.checkpoint /\ d.key = r.key
      BY <2>2 DEF ResultFields
    <2> HIDE DEF d
    <2>4. WholeResult(d)
      BY <2>2, <2>3 DEF WholeResult, Resumed, OfResult
    <2>5. UNCHANGED <<scope, operation, completed>> /\ work' = Checkpoint!Idle
      BY <1>6 DEF Checkpoint!Damage
    <2> QED
      BY <1>1, <2>1, <2>4, <2>5, HRestKeeps DEF d
  <1>7. CASE Checkpoint!LegacyUpdate
    <2> DEFINE r == Checkpoint!Result(Checkpoint!Key(version, source), source, Checkpoint!WholeHistory(source).cells,
                                      None, None)
    <2>1. /\ rows' = {r} /\ UNCHANGED <<scope, operation>> /\ work' = Checkpoint!Idle /\ source # <<>>
          /\ completed' = {Checkpoint!Key(version, source)}
      BY <1>7 DEF Checkpoint!LegacyUpdate
    <2>2. WholeResult(r)
      BY <2>1 DEF Checkpoint!Result, WholeResult, Resumed, OfResult
    <2>3. \A key \in completed' : key.kind = "result"
      BY <2>1 DEF Checkpoint!Key
    <2> HIDE DEF r
    <2> QED
      BY <2>1, <2>2, <2>3, HRestKeeps
  <1>8. CASE \/ \E cell \in scope.cells : Checkpoint!Observe(cell)
             \/ \E t \in DOMAIN source : \E cell \in scope.cells : Checkpoint!Restate(t, cell)
    <2>1. UNCHANGED <<scope, operation, rows, completed>> /\ work' = Checkpoint!Idle
      BY <1>8 DEF Checkpoint!Observe, Checkpoint!Restate
    <2> QED
      BY <1>1, <2>1, HRestKeeps
  <1> QED
    BY <1>2, <1>3, <1>4, <1>5, <1>6, <1>7, <1>8

LEMMA HInvInit == Checkpoint!Init => HInv
  <1> SUFFICES ASSUME Checkpoint!Init PROVE HInv
    OBVIOUS
  <1>1. /\ rows = {} /\ completed = {} /\ work = Checkpoint!Idle
        /\ scope \in CheckpointScopes /\ operation \in scope.operations
    BY DEF Checkpoint!Init
  <1> QED
    BY <1>1, CInvInit DEF HInv, Keyed, Continuable, Checkpoint!Idle

LEMMA HInvStep == HInv /\ [Checkpoint!Next]_(Checkpoint!vars) => HInv'
  <1> SUFFICES ASSUME HInv, [Checkpoint!Next]_(Checkpoint!vars) PROVE HInv'
    OBVIOUS
  <1>0. CInv'
    BY CInvStep DEF HInv
  <1>1. CASE UNCHANGED Checkpoint!vars
    <2>1. UNCHANGED <<scope, operation, source, rows, completed, work>>
      BY <1>1 DEF Checkpoint!vars
    <2>2. Keyed'
      BY <2>1 DEF HInv, Keyed, Checkpoint!Idle
    <2>3. Continuable'
      BY <2>1 DEF HInv, Continuable, Checkpoint!Usable, Checkpoint!Proof, Checkpoint!LabelEnd, Checkpoint!Fits
    <2> QED
      BY <1>0, <2>1, <2>2, <2>3, HInvAfter
  <1>2. CASE Checkpoint!Start
    BY <1>0, <1>2, HStartKeeps
  <1>3. CASE Checkpoint!Refer \/ Checkpoint!Compute \/ Checkpoint!PublishTail \/ Checkpoint!Join
    BY <1>0, <1>3, HPublicationsKeep
  <1>4. CASE \/ Checkpoint!Reuse \/ Checkpoint!Complete \/ Checkpoint!Interrupt
             \/ Checkpoint!Certify \/ Checkpoint!Damage \/ Checkpoint!LegacyUpdate
             \/ \E cell \in scope.cells : Checkpoint!Observe(cell)
             \/ \E t \in DOMAIN source : \E cell \in scope.cells : Checkpoint!Restate(t, cell)
    BY <1>0, <1>4, HOthersKeep
  <1> QED
    BY <1>1, <1>2, <1>3, <1>4 DEF Checkpoint!Next, Checkpoint!Execute

\* Whatever an execution resumes from, and however updates cut, interrupt and repeat the history of
\* a node, every result holds the cells and leaves the state of one execution over its whole source:
\* for any values, estimator and length of history, certified and damaged results included.
THEOREM CheckpointsResume == PolicySpec => []CheckpointResumedIsWholeHistory
  <1> DEFINE PInv == policy = "checkpoint" => HInv
  <1>1. PolicyInit => PInv
    BY HInvInit DEF PolicyInit
  <1>2. PInv /\ [PolicyNext]_allVars => PInv'
    <2> SUFFICES ASSUME PInv, [PolicyNext]_allVars, (policy = "checkpoint")' PROVE HInv'
      OBVIOUS
    <2>1. policy = "checkpoint" /\ HInv
      BY DEF PolicyNext, allVars
    <2>2. [Checkpoint!Next]_(Checkpoint!vars)
      BY <2>1 DEF PolicyNext, allVars, Checkpoint!vars
    <2> QED
      BY <2>1, <2>2, HInvStep
  <1>3. PInv => CheckpointResumedIsWholeHistory
    <2> SUFFICES ASSUME HInv PROVE Checkpoint!ResumedIsWholeHistory
      BY DEF CheckpointResumedIsWholeHistory
    <2>1. \A r \in rows : Resumed(r)
      BY DEF HInv, WholeResult
    <2> QED
      BY <2>1 DEF Resumed, Checkpoint!ResumedIsWholeHistory
  <1> HIDE DEF PInv
  <1> QED
    BY <1>1, <1>2, <1>3, PTL DEF PolicySpec

-----------------------------------------------------------------------------
(* Maintenance: how its windows are those of the other policies. *)

\* Maintenance uses the same windows and kernels.
LEMMA MaintenanceWindows ==
    /\ \A s, W, t : Maintenance!Cells(s, W, t) = Cells(s, W, t)
    /\ \A s, t : Maintenance!WholeHistory(s, t) = WholeHistory(s, t)
    /\ \A s, first, last : Maintenance!ParentWindow(s, first, last) = ParentWindow(s, first, last)
    /\ \A s, first, last, o : Maintenance!NumericalStart(s, first, last, o) = NumericalStart(s, first, last, o)
    /\ \A s, o : Maintenance!Halo(s, o) = Halo(s, o)
    /\ \A s, o : Maintenance!BlockEnd(s, o) = BlockEnd(s, o)
    /\ \A s : Maintenance!Origins(s) = Origins(s)
    /\ Maintenance!CanonicalSessions = CanonicalSessions
    /\ Maintenance!Contents = Contents
    /\ \A S : Maintenance!Cardinality(S) = Cardinality(S)
  <1>1. /\ Maintenance!History = History /\ Maintenance!CanonicalSessions = CanonicalSessions
        /\ Maintenance!Contents = Contents
    BY DEF Maintenance!History, History, Maintenance!Observations, Observations,
           Maintenance!CanonicalSessions, CanonicalSessions, Maintenance!Contents, Contents
  <1>2. /\ \A S : Maintenance!Min(S) = Min(S)
        /\ \A S : Maintenance!Max(S) = Max(S)
    BY DEF Maintenance!Min, Min, Maintenance!Max, Max
  <1>0. \A S : Maintenance!Cardinality(S) = Cardinality(S)
    BY DEF Maintenance!Cardinality, Cardinality, Maintenance!IsFiniteSet, IsFiniteSet
  <1>3. /\ \A S, k : Maintenance!Latest(S, k) = Latest(S, k)
        /\ \A s, a, t : Maintenance!Observed(s, a, t) = Observed(s, a, t)
    BY <1>0 DEF Maintenance!Latest, Latest, Maintenance!Observed, Observed
  <1>4. \A s, o : Maintenance!Halo(s, o) = Halo(s, o)
    BY <1>1, <1>2, <1>3 DEF Maintenance!Halo, Halo
  <1>5. \A s, W, a, t : Maintenance!Consumed(s, W, a, t) = Consumed(s, W, a, t)
    BY <1>1, <1>3 DEF Maintenance!Consumed, Consumed
  <1>6. \A s, W, t : Maintenance!Cells(s, W, t) = Cells(s, W, t)
    BY <1>5 DEF Maintenance!Cells, Cells
  <1>7. \A t : Maintenance!Origin(t) = Origin(t)
    BY <1>1 DEF Maintenance!Origin, Origin
  <1>8. /\ \A s, o : Maintenance!BlockEnd(s, o) = BlockEnd(s, o)
        /\ \A s : Maintenance!Origins(s) = Origins(s)
    BY <1>1, <1>2, <1>7 DEF Maintenance!BlockEnd, BlockEnd, Maintenance!Origins, Origins
  <1>9. \A s, first, last, o : Maintenance!NumericalStart(s, first, last, o) = NumericalStart(s, first, last, o)
    BY <1>1, <1>2, <1>3, <1>4 DEF Maintenance!NumericalStart, NumericalStart
  <1>10. \A s, first, last : Maintenance!ParentWindow(s, first, last) = ParentWindow(s, first, last)
    BY <1>1, <1>2, <1>7, <1>8 DEF Maintenance!ParentWindow, ParentWindow
  <1>11. \A s, t : Maintenance!WholeHistory(s, t) = WholeHistory(s, t)
    BY <1>4, <1>6, <1>7 DEF Maintenance!WholeHistory, WholeHistory
  <1> QED
    BY <1>0, <1>1, <1>4, <1>6, <1>8, <1>9, <1>10, <1>11

\* Where reading starts to compute one session whole suffices for it, and so does the first session.
LEMMA SessionAlone ==
    ASSUME Settled, NEW s \in Seq(Contents), NEW t \in 1 .. Len(s), NEW last \in t .. Len(s),
           operation # "canonical"
    PROVE  /\ Suffices(s, t, 1, t)
           /\ Cells(s, ParentWindow(s, NumericalStart(s, t, last, t), last), t) = Cells(s, 1 .. last, t)
           /\ WholeHistory(s, t) = Cells(s, 1 .. last, t)
  <1> DEFINE start == NumericalStart(s, t, last, t)
  <1>1. Len(s) \in Nat /\ t \in Nat \ {0} /\ t \in t .. last /\ last \in Nat /\ t \in t .. Len(s)
    BY LenProperties
  <1>2. Suffices(s, t, start, t)
    BY <1>1, StartSuffices
  <1>3. Suffices(s, t, 1, t)
    <2>1. 1 <= start
      BY <1>2 DEF Suffices
    <2> HIDE DEF start
    <2> QED
      BY <1>1, <1>2, <2>1, EarlierSuffices
  <1>4. start \in 1 .. t
    BY <1>2 DEF Suffices
  <1> HIDE DEF start
  <1>5. ParentWindow(s, start, last) = start .. last
    BY <1>1, <1>4, WindowIsInterval DEF Settled
  <1>6. \A a \in s[t].members : /\ Consumed(s, start .. last, a, t) = Needed(s, t, a, t)
                                /\ Consumed(s, 1 .. last, a, t) = Needed(s, t, a, t)
                                /\ Consumed(s, 1 .. t, a, t) = Needed(s, t, a, t)
    BY <1>1, <1>2, <1>3, ConsumedIsNeeded
  <1>7. /\ Cells(s, start .. last, t) = Cells(s, 1 .. last, t)
        /\ Cells(s, 1 .. t, t) = Cells(s, 1 .. last, t)
    BY <1>6 DEF Cells
  <1>8. WholeHistory(s, t) = Cells(s, 1 .. t, t)
    BY DEF WholeHistory
  <1> QED
    BY <1>3, <1>5, <1>7, <1>8 DEF start

\* Without an accumulator, what sessions give depends on nothing that follows them.
LEMMA PrefixGives ==
    ASSUME NEW s \in Seq(Contents), NEW q \in Seq(Contents), Len(s) = Len(q), Settled,
           NEW m \in 0 .. Len(s), \A u \in 1 .. m : s[u] = q[u], NEW t \in 1 .. m,
           operation \in {"pointwise", "exact"}
    PROVE  /\ Cells(s, DOMAIN s, t) = Cells(q, DOMAIN q, t)
           /\ WholeHistory(s, t) = WholeHistory(q, t)
  <1>1. /\ Len(s) \in Nat /\ DOMAIN s = 1 .. Len(s) /\ DOMAIN q = 1 .. Len(s) /\ t \in Nat /\ m \in Nat
        /\ s[t] = q[t] /\ t \in 1 .. Len(s) /\ t \in 1 .. Len(q)
    BY LenProperties
  <1>2. ASSUME NEW a PROVE Observed(s, a, t) = Observed(q, a, t)
    BY <1>1 DEF Observed
  <1>3. ASSUME NEW W, NEW a
        PROVE  /\ Consumed(s, W, a, t) = Consumed(q, W, a, t)
               /\ \A u \in Consumed(s, W, a, t) : u \in 1 .. m
    <2>1. Consumed(s, W, a, t) = Consumed(q, W, a, t)
      BY <1>2 DEF Consumed
    <2>2. \A u \in Observed(s, a, t) : u \in 1 .. m
      BY <1>1 DEF Observed
    <2>3. \A u \in Consumed(s, W, a, t) : u = t \/ u \in Observed(s, a, t)
      BY DEF Consumed, Latest
    <2> QED
      BY <2>1, <2>2, <2>3
  <1>4. ASSUME NEW W PROVE Cells(s, W, t) = Cells(q, W, t)
    BY <1>1, <1>3 DEF Cells
  <1> QED
    BY <1>1, <1>4 DEF WholeHistory

\* Windows over observations: a block of one computation from the first session on is what the
\* block computes by itself.
LEMMA BlockOfWhole ==
    ASSUME Settled, operation = "exact", NEW s \in Seq(Contents), NEW o \in Origins(s),
           NEW t \in o .. BlockEnd(s, o)
    PROVE  LET p == HaloProof(s, o, BlockEnd(s, o)) IN
           Cells(s, DOMAIN s, t) = Cells(p, DOMAIN p, t)
  <1>1. Len(s) \in Nat /\ o \in 1 .. Len(s) /\ Lengths /\ DOMAIN s = 1 .. Len(s)
    BY LenProperties, OriginsAreMultiples DEF Settled
  <1>2. BlockEnd(s, o) \in o .. Len(s)
    BY <1>1, NextOrigin
  <1> DEFINE e == BlockEnd(s, o)
  <1>3. e \in o .. e /\ e \in Nat
    BY <1>1, <1>2
  <1>4. t \in 1 .. Len(s) /\ Len(s) \in t .. Len(s)
    BY <1>1, <1>2
  <1>5. WholeHistory(s, t) = Cells(s, DOMAIN s, t)
    BY <1>1, <1>4, SessionAlone
  <1> QED
    BY <1>3, <1>5, ProofGivesWholeHistory

-----------------------------------------------------------------------------
(* Maintenance: what keys, rows and plans say. *)

KeyFields == {"kind", "policy", "first", "last", "content", "format", "cutoff"}

\* A key has the content of its sessions; only blocks have less than all of it.
Bound(k) ==
    /\ DOMAIN k = KeyFields
    /\ k.kind \in {"result", "fragment", "block"}
    /\ k.content = [t \in DOMAIN k.content |-> k.content[t]]
    /\ k.kind # "block" =>
          k.content \in Seq(Contents) /\ k.last = Len(k.content) /\ k.policy \in {"generic", "finite"}
    /\ k.kind = "result" => k.first = 1

MRows == \A k \in DOMAIN rows : Bound(k) /\ rows[k].cells = Maintenance!Meaning(k)

\* New proofs, or a lower cutoff, of the same input.
AliasPlan(p) ==
    /\ p.mode \in {"rebinding", "normalization"} /\ p.entries = <<p.target>>
    /\ Bound(p.target)
    /\ p.target.kind = p.original.kind /\ p.target.policy = p.original.policy
    /\ p.target.first = p.original.first /\ p.target.last = p.original.last
    /\ p.target.content = p.original.content

\* The same input up to the final session, and nothing accumulates.
RepairPlan(p) ==
    /\ p.mode = "repair" /\ operation \in {"pointwise", "exact"}
    /\ p.entries = <<[p.target EXCEPT !.kind = "fragment", !.first = p.target.last], p.target>>
    /\ Bound(p.target) /\ p.target.kind = "result" /\ p.original.kind = "result"
    /\ p.original.policy = p.target.policy /\ p.original.last = p.target.last
    /\ p.target.last > 1
    /\ \A t \in 1 .. p.target.last - 1 : p.target.content[t] = p.original.content[t]

\* A block of a whole input, under any proofs.
BlockOf(k, content, o) ==
    /\ Bound(k) /\ k.kind = "block"
    /\ k.first = o /\ k.last = BlockEnd(content, o) /\ k.content = HaloProof(content, o, k.last)

\* All blocks of the original, and then itself under its new policy.
ContractPlan(p) ==
    LET n == Len(p.entries) IN
    /\ p.mode = "contract" /\ operation = "exact"
    /\ Bound(p.target) /\ p.target.kind = "result" /\ p.original.kind = "result"
    /\ p.original.policy = "generic" /\ p.target.policy = "finite"
    /\ p.target.content = p.original.content
    /\ n \in Nat \ {0} /\ DOMAIN p.entries = 1 .. n /\ p.entries[n] = p.target
    /\ \A i \in 1 .. n - 1 : \E o \in Origins(p.target.content) : BlockOf(p.entries[i], p.target.content, o)
    /\ \A o \in Origins(p.target.content) : \E i \in 1 .. n - 1 : p.entries[i].first = o

Admissible(p) == AliasPlan(p) \/ RepairPlan(p) \/ ContractPlan(p)
MPlans == \E S : plans \in Seq(S) /\ \A p \in S : Admissible(p)

MInv == Settled /\ source \in Seq(Contents) /\ MRows /\ MPlans

\* What keys mean and plans promise depends on what no step changes.
LEMMA MeaningStays ==
    ASSUME UNCHANGED <<scope, operation>>
    PROVE  /\ \A k : Maintenance!Meaning(k)' = Maintenance!Meaning(k)
           /\ \A k : Bound(k)' = Bound(k)
           /\ \A p : Admissible(p)' = Admissible(p)
           /\ Settled' = Settled
  <1>1. \A t : Origin(t)' = Origin(t)
    BY DEF Origin, CanonicalSessions
  <1>2. \A s, t : WholeHistory(s, t)' = WholeHistory(s, t)
    BY <1>1, CellsStay DEF WholeHistory
  <1>3. \A s, W, t : Maintenance!Cells(s, W, t)' = Maintenance!Cells(s, W, t)
    <2>1. Maintenance!History' = Maintenance!History
      BY DEF Maintenance!History, Maintenance!Observations
    <2> QED
      BY <2>1 DEF Maintenance!Cells, Maintenance!Consumed, Maintenance!Latest, Maintenance!Observed
  <1>4. \A s, t : Maintenance!WholeHistory(s, t)' = Maintenance!WholeHistory(s, t)
    <2>1. Maintenance!History' = Maintenance!History
      BY DEF Maintenance!History, Maintenance!Observations
    <2>2. \A s, o : Maintenance!Halo(s, o)' = Maintenance!Halo(s, o)
      BY <2>1 DEF Maintenance!Halo, Maintenance!Latest, Maintenance!Observed
    <2>3. \A t : Maintenance!Origin(t)' = Maintenance!Origin(t)
      BY DEF Maintenance!Origin, Maintenance!CanonicalSessions
    <2> QED
      BY <1>3, <2>2, <2>3 DEF Maintenance!WholeHistory
  <1>5. \A k : Maintenance!Meaning(k)' = Maintenance!Meaning(k)
    BY <1>3, <1>4 DEF Maintenance!Meaning
  <1>6. \A s, o : BlockEnd(s, o)' = BlockEnd(s, o)
    BY DEF BlockEnd, CanonicalSessions
  <1>7. \A s : Origins(s)' = Origins(s)
    BY <1>1 DEF Origins
  <1>8. \A s, o, e : HaloProof(s, o, e)' = HaloProof(s, o, e)
    BY CellsStay DEF HaloProof
  <1>9. \A k : Bound(k)' = Bound(k)
    BY DEF Bound
  <1>10. \A k, c, o : BlockOf(k, c, o)' = BlockOf(k, c, o)
    BY <1>6, <1>8, <1>9 DEF BlockOf
  <1>11. \A p : /\ AliasPlan(p)' = AliasPlan(p) /\ RepairPlan(p)' = RepairPlan(p)
                /\ ContractPlan(p)' = ContractPlan(p)
    <2>1. \A p : AliasPlan(p)' = AliasPlan(p)
      BY <1>9 DEF AliasPlan
    <2>2. \A p : RepairPlan(p)' = RepairPlan(p)
      BY <1>9 DEF RepairPlan
    <2>3. \A p : ContractPlan(p)' = ContractPlan(p)
      BY <1>7, <1>9, <1>10 DEF ContractPlan
    <2> QED
      BY <2>1, <2>2, <2>3
  <1>12. Settled' = Settled
    BY DEF Settled, Lengths
  <1> QED
    BY <1>5, <1>9, <1>11, <1>12 DEF Admissible

\* What is registered has the meaning of its key.
LEMMA RegisteredMeans ==
    ASSUME MRows, UNCHANGED <<scope, operation>>, NEW more, rows' = Maintenance!Registered(more),
           \A k \in DOMAIN more : Bound(k) /\ more[k].cells = Maintenance!Meaning(k)
    PROVE  MRows'
  <1>1. DOMAIN rows' = DOMAIN rows \cup DOMAIN more
    BY DEF Maintenance!Registered
  <1>2. \A k \in DOMAIN rows' : rows'[k] = IF k \in DOMAIN rows THEN rows[k] ELSE more[k]
    BY DEF Maintenance!Registered, Maintenance!Known
  <1>3. \A k \in DOMAIN rows' : Bound(k) /\ rows'[k].cells = Maintenance!Meaning(k)
    BY <1>1, <1>2 DEF MRows
  <1> QED
    BY <1>3, MeaningStays DEF MRows

\* Rows that lie side by side, composed.
LEMMA MaintenanceComposition ==
    ASSUME NEW keys, NEW from, NEW f, f = [t \in DOMAIN f |-> f[t]],
           DOMAIN f = UNION {k.first .. k.last : k \in keys},
           \A k \in keys : \A t \in k.first .. k.last : from[k].cells[t] = f[t]
    PROVE  Maintenance!Composed(keys, from) = f
  <1> DEFINE covering(t) == CHOOSE k \in keys : t \in k.first .. k.last
  <1>1. ASSUME NEW t \in DOMAIN f PROVE from[covering(t)].cells[t] = f[t]
    <2>1. \E k \in keys : t \in k.first .. k.last
      OBVIOUS
    <2>2. covering(t) \in keys /\ t \in covering(t).first .. covering(t).last
      BY <2>1
    <2> HIDE DEF covering
    <2> QED
      BY <2>2
  <1>2. Maintenance!Composed(keys, from) = [t \in DOMAIN f |-> from[covering(t)].cells[t]]
    BY DEF Maintenance!Composed
  <1> HIDE DEF covering
  <1> QED
    BY <1>1, <1>2

\* The blocks of a source, composed, are one computation over it.
LEMMA BlocksCompose ==
    ASSUME Settled, NEW s \in Seq(Contents), NEW keys, NEW from,
           \A k \in keys : /\ \E o \in Origins(s) : BlockOf(k, s, o)
                           /\ from[k].cells = Maintenance!Meaning(k),
           \A o \in Origins(s) : \E k \in keys : k.first = o
    PROVE  Maintenance!Composed(keys, from) = [t \in 1 .. Len(s) |-> WholeHistory(s, t)]
  <1> DEFINE f == [t \in 1 .. Len(s) |-> WholeHistory(s, t)]
  <1>1. Len(s) \in Nat /\ Lengths
    BY LenProperties DEF Settled
  <1>2. ASSUME NEW k \in keys, NEW t \in k.first .. k.last
        PROVE  t \in 1 .. Len(s) /\ from[k].cells[t] = f[t]
    <2>1. PICK o \in Origins(s) : BlockOf(k, s, o)
      OBVIOUS
    <2>2. /\ o \in 1 .. Len(s) /\ BlockEnd(s, o) \in o .. Len(s)
          /\ k.kind = "block" /\ k.first = o /\ k.last = BlockEnd(s, o)
          /\ k.content = HaloProof(s, o, BlockEnd(s, o))
      BY <1>1, <2>1, OriginsAreMultiples, NextOrigin DEF BlockOf
    <2>3. BlockEnd(s, o) \in o .. BlockEnd(s, o) /\ t \in o .. BlockEnd(s, o)
      BY <2>2
    <2>4. Cells(k.content, DOMAIN k.content, t) = WholeHistory(s, t)
      BY <2>2, <2>3, ProofGivesWholeHistory
    <2>5. from[k].cells = Maintenance!Meaning(k)
      OBVIOUS
    <2>6. from[k].cells[t] = Cells(k.content, DOMAIN k.content, t)
      BY <2>2, <2>5, MaintenanceWindows DEF Maintenance!Meaning
    <2>7. t \in 1 .. Len(s)
      BY <1>1, <2>2, <2>3
    <2> QED
      BY <2>4, <2>6, <2>7
  <1>3. ASSUME NEW t \in 1 .. Len(s) PROVE \E k \in keys : t \in k.first .. k.last
    <2>1. Origin(t) \in Origins(s) /\ t \in Origin(t) .. BlockEnd(s, Origin(t))
      BY <1>1, SessionHasBlock
    <2>2. PICK k \in keys : k.first = Origin(t)
      BY <2>1
    <2>3. PICK o \in Origins(s) : BlockOf(k, s, o)
      BY <2>2
    <2> QED
      BY <2>1, <2>2, <2>3 DEF BlockOf
  <1>4. DOMAIN f = UNION {k.first .. k.last : k \in keys}
    BY <1>2, <1>3
  <1>5. f = [t \in DOMAIN f |-> f[t]]
    OBVIOUS
  <1>6. \A k \in keys : \A t \in k.first .. k.last : from[k].cells[t] = f[t]
    BY <1>2
  <1> HIDE DEF f
  <1>7. Maintenance!Composed(keys, from) = f
    BY <1>4, <1>5, <1>6, MaintenanceComposition
  <1> QED
    BY <1>7 DEF f

\* Blocks are as many as multiples of their length that a calendar has.
LEMMA OriginsCounted ==
    ASSUME Lengths, NEW s, Len(s) \in Nat
    PROVE  LET n == Cardinality(Origins(s)) IN
           /\ n \in Nat
           /\ \A i \in 1 .. n : (i - 1) * CanonicalSessions + 1 \in Origins(s)
           /\ \A o \in Origins(s) : \E i \in 1 .. n : (i - 1) * CanonicalSessions + 1 = o
  <1> DEFINE c == CanonicalSessions
             d == (Len(s) - 1) \div c
             n == IF Len(s) = 0 THEN 0 ELSE d + 1
             at(i) == (i - 1) * c + 1
             f == [i \in 1 .. n |-> at(i)]
  <1>1. c \in Nat \ {0}
    BY DEF Lengths, CanonicalSessions
  <1>2. \A t \in 1 .. Len(s) : t \in Origins(s) <=> (t - 1) % c = 0
    <2>1. \A t \in 1 .. Len(s) : (t - 1) % c \in Int
      BY <1>1
    <2> QED
      BY <2>1 DEF Origins, Origin
  <1> HIDE DEF c
  <1>3. Len(s) > 0 => d \in Nat /\ c * d <= Len(s) - 1 /\ Len(s) - 1 < c * d + c
    BY <1>1
  <1>4. n \in Nat
    BY <1>3
  <1>5. ASSUME NEW i \in 1 .. n PROVE at(i) \in Origins(s)
    <2>1. Len(s) > 0 /\ i - 1 \in 0 .. d /\ d \in Nat
      BY <1>3
    <2> DEFINE j == i - 1
    <2>2. j \in Nat /\ j <= d
      BY <2>1
    <2> HIDE DEF j, d
    <2>3. j * c <= d * c /\ j * c \in Nat /\ d * c = c * d
      BY <1>1, <2>1, <2>2
    <2>4. j * c + 1 \in 1 .. Len(s)
      BY <1>1, <1>3, <2>1, <2>2, <2>3
    <2>5. (j * c) % c = 0
      BY <1>1, <2>2
    <2> QED
      BY <1>2, <2>3, <2>4, <2>5 DEF j
  <1>6. ASSUME NEW o \in Origins(s) PROVE \E i \in 1 .. n : at(i) = o
    <2>1. o \in 1 .. Len(s)
      BY DEF Origins
    <2>2. (o - 1) % c = 0
      BY <1>2, <2>1
    <2> DEFINE q == (o - 1) \div c
    <2>3. q \in Nat /\ o - 1 = c * q /\ c * q = q * c
      BY <1>1, <2>1, <2>2
    <2>4. Len(s) > 0
      BY <2>1
    <2> HIDE DEF q, d
    <2>5. q <= d
      <3>1. CASE q > d
        <4>1. q >= d + 1 /\ d + 1 \in Nat
          BY <1>3, <2>3, <2>4, <3>1
        <4>2. c * q >= c * (d + 1) /\ c * (d + 1) = c * d + c
          BY <1>1, <1>3, <2>3, <2>4, <4>1
        <4>3. c * d \in Nat /\ c * q \in Nat
          BY <1>1, <1>3, <2>3, <2>4
        <4> QED
          BY <1>1, <1>3, <2>1, <2>3, <2>4, <4>2, <4>3
      <3> QED
        BY <1>3, <2>3, <2>4, <3>1
    <2>6. q + 1 \in 1 .. n
      BY <1>3, <2>3, <2>4, <2>5
    <2>7. at(q + 1) = o
      <3>1. (q + 1) - 1 = q
        BY <2>3
      <3> QED
        BY <2>1, <2>3, <3>1
    <2> QED
      BY <2>6, <2>7
  <1>7. \A i, j \in 1 .. n : at(i) = at(j) => i = j
    <2> SUFFICES ASSUME NEW i \in 1 .. n, NEW j \in 1 .. n, at(i) = at(j) PROVE i = j
      OBVIOUS
    <2>1. (i - 1) * c = (j - 1) * c
      BY <1>1, <1>4
    <2>2. i - 1 \in Int /\ j - 1 \in Int
      BY <1>4
    <2>3. \A x, y \in Int : x * c = y * c => x = y
      BY <1>1
    <2> HIDE DEF n
    <2> QED
      BY <1>4, <2>1, <2>2, <2>3
  <1> HIDE DEF n, at
  <1>8. f \in Bijection(1 .. n, Origins(s))
    <2>1. f \in [1 .. n -> Origins(s)]
      BY <1>5
    <2> QED
      BY <1>6, <1>7, <2>1 DEF Bijection, Injection, Surjection, IsInjective
  <1>9. IsFiniteSet(1 .. n) /\ Cardinality(1 .. n) = n
    BY <1>4, FS_Interval
  <1>10. Cardinality(Origins(s)) = n
    BY <1>8, <1>9, FS_Bijection DEF ExistsBijection
  <1> QED
    BY <1>4, <1>5, <1>6, <1>10 DEF at, c

-----------------------------------------------------------------------------
(* Maintenance: its steps. *)

\* Steps that publish nothing and admit nothing.
LEMMA MaintenanceKeeps ==
    ASSUME MInv, UNCHANGED <<scope, operation>>, source' \in Seq(Contents), MRows', plans' = plans
    PROVE  MInv'
  <1>1. Settled' /\ (\A p : Admissible(p)' = Admissible(p))
    BY MeaningStays DEF MInv
  <1>2. PICK S : plans \in Seq(S) /\ \A p \in S : Admissible(p)
    BY DEF MInv, MPlans
  <1>3. plans' \in Seq(S) /\ \A p \in S : Admissible(p)'
    BY <1>1, <1>2
  <1>4. MPlans'
    BY <1>3 DEF MPlans
  <1> QED
    BY <1>1, <1>4 DEF MInv, Contents

LEMMA RowsStay == ASSUME MRows, UNCHANGED <<scope, operation, rows>> PROVE MRows'
  BY MeaningStays DEF MRows

\* A plan that is admitted.
LEMMA AdmitKeeps ==
    ASSUME MInv, NEW p, Maintenance!Admit(p), Admissible(p)
    PROVE  MInv'
  <1>1. UNCHANGED <<scope, operation, source, rows>> /\ plans' = Append(plans, p)
    BY DEF Maintenance!Admit
  <1>2. Settled' /\ (\A q : Admissible(q)' = Admissible(q))
    BY <1>1, MeaningStays DEF MInv
  <1>3. PICK S : plans \in Seq(S) /\ \A q \in S : Admissible(q)
    BY DEF MInv, MPlans
  <1> DEFINE T == S \cup {p}
  <1>4. plans \in Seq(T)
    BY <1>3, SeqDef, LenProperties
  <1>5. plans' \in Seq(T) /\ \A q \in T : Admissible(q)'
    BY <1>1, <1>2, <1>3, <1>4, AppendProperties
  <1>6. MPlans'
    BY <1>5 DEF MPlans
  <1> QED
    BY <1>1, <1>2, <1>6, RowsStay DEF MInv, Contents

\* What the owner of the source, a release and a lower cutoff change.
LEMMA ProvidersKeep ==
    ASSUME MInv,
           \/ \E members \in SUBSET Assets : Maintenance!Observe(members) /\ UNCHANGED <<rows, plans>>
           \/ \E t \in DOMAIN source : Maintenance!Restate(t) /\ UNCHANGED <<rows, plans>>
           \/ Maintenance!Reformat \/ Maintenance!Declare \/ Maintenance!Adopt
           \/ \E later \in SUBSET {t \in DOMAIN source : source[t].edition = 1} : Maintenance!LowerCutoff(later)
    PROVE  MInv'
  <1>1. source \in Seq(Contents) /\ DOMAIN source = 1 .. Len(source) /\ Len(source) \in Nat
    BY LenProperties DEF MInv
  <1>2. ASSUME NEW members \in SUBSET Assets, Maintenance!Observe(members) PROVE source' \in Seq(Contents)
    <2>1. [members |-> members, edition |-> 0] \in Contents
      BY DEF Contents
    <2> QED
      BY <1>1, <1>2, <2>1, AppendProperties DEF Maintenance!Observe
  <1>3. ASSUME NEW t \in DOMAIN source, Maintenance!Restate(t) PROVE source' \in Seq(Contents)
    <2>1. source[t] \in Contents
      BY <1>1, ElementOfSeq
    <2> DEFINE content == [source[t] EXCEPT !.edition = 1]
    <2>2. content \in Contents
      BY <2>1 DEF Contents
    <2>3. source' = [source EXCEPT ![t] = content]
      BY <1>3 DEF Maintenance!Restate
    <2> HIDE DEF content
    <2> QED
      BY <1>1, <2>2, <2>3, ExceptSeq
  <1>4. ASSUME NEW later, Maintenance!LowerCutoff(later) PROVE source' \in Seq(Contents)
    <2> DEFINE cell(t) == IF t \in later THEN [source[t] EXCEPT !.edition = 0] ELSE source[t]
    <2>1. source' = [t \in 1 .. Len(source) |-> cell(t)]
      BY <1>1, <1>4 DEF Maintenance!LowerCutoff
    <2>2. \A t \in 1 .. Len(source) : cell(t) \in Contents
      <3>1. \A t \in 1 .. Len(source) : source[t] \in Contents
        BY <1>1, ElementOfSeq
      <3> QED
        BY <3>1 DEF Contents
    <2> HIDE DEF cell
    <2> QED
      BY <1>1, <2>1, <2>2, SeqDef
  <1>5. UNCHANGED <<scope, operation, rows, plans>> /\ source' \in Seq(Contents)
    BY <1>1, <1>2, <1>3, <1>4
       DEF Maintenance!Observe, Maintenance!Restate, Maintenance!Reformat, Maintenance!Declare,
           Maintenance!Adopt, Maintenance!LowerCutoff
  <1>6. MRows'
    BY <1>5, RowsStay DEF MInv
  <1> QED
    BY <1>5, <1>6, MaintenanceKeeps

\* What nothing refers to is retired.
LEMMA RetireKeeps == ASSUME MInv, NEW key, Maintenance!Retire(key) PROVE MInv'
  <1>1. /\ rows' = [k \in DOMAIN rows \ {key} |-> rows[k]]
        /\ UNCHANGED <<scope, operation, source, plans>>
    BY DEF Maintenance!Retire, Maintenance!Restrict
  <1>2. \A k \in DOMAIN rows' : Bound(k) /\ rows'[k].cells = Maintenance!Meaning(k)
    BY <1>1 DEF MInv, MRows
  <1>3. MRows'
    BY <1>1, <1>2, MeaningStays DEF MRows
  <1>4. source' \in Seq(Contents)
    BY <1>1 DEF MInv
  <1> QED
    BY <1>1, <1>3, <1>4, MaintenanceKeeps

\* The keys of a source.
LEMMA KeysOfSource ==
    ASSUME NEW s \in Seq(Contents), NEW at
    PROVE  /\ \A by \in {"generic", "finite"} :
                 LET k == Maintenance!ResultKey(s, by, at) IN
                 /\ Bound(k) /\ k.kind = "result" /\ k.policy = by /\ k.content = s
                 /\ k.first = 1 /\ k.last = Len(s)
           /\ \A o : LET k == Maintenance!BlockKey(s, o, BlockEnd(s, o), at) IN BlockOf(k, s, o)
  <1>1. s = [t \in DOMAIN s |-> s[t]]
    BY SeqDef
  <1>2. ASSUME NEW o
        PROVE  LET k == Maintenance!BlockKey(s, o, BlockEnd(s, o), at) IN BlockOf(k, s, o)
    <2> DEFINE k == Maintenance!BlockKey(s, o, BlockEnd(s, o), at)
    <2>1. /\ DOMAIN k = KeyFields /\ k.kind = "block" /\ k.first = o /\ k.last = BlockEnd(s, o)
          /\ k.content = HaloProof(s, o, BlockEnd(s, o))
      BY MaintenanceWindows DEF Maintenance!BlockKey, KeyFields, HaloProof
    <2> HIDE DEF k
    <2>2. k.content = [t \in DOMAIN k.content |-> k.content[t]]
      BY <2>1 DEF HaloProof
    <2>3. BlockOf(k, s, o)
      BY <2>1, <2>2 DEF BlockOf, Bound
    <2> QED
      BY <2>3 DEF k
  <1>3. ASSUME NEW by \in {"generic", "finite"}
        PROVE  LET k == Maintenance!ResultKey(s, by, at) IN
               /\ Bound(k) /\ k.kind = "result" /\ k.policy = by /\ k.content = s
               /\ k.first = 1 /\ k.last = Len(s)
    <2> DEFINE k == Maintenance!ResultKey(s, by, at)
    <2>1. /\ DOMAIN k = KeyFields /\ k.kind = "result" /\ k.policy = by /\ k.first = 1
          /\ k.last = Len(s) /\ k.content = s
      BY <1>1 DEF Maintenance!ResultKey, KeyFields
    <2> HIDE DEF k
    <2>2. Bound(k)
      BY <1>1, <2>1 DEF Bound
    <2> QED
      BY <2>1, <2>2 DEF k
  <1> QED
    BY <1>2, <1>3

\* A run publishes its blocks, as they are there or computed, and what they compose.
LEMMA RunKeeps == ASSUME MInv, Maintenance!Run PROVE MInv'
  <1> DEFINE result == Maintenance!ResultKey(source, Maintenance!Policy, version)
             blocks == IF version.declared THEN Maintenance!Blocks(source, version) ELSE {}
             made == [k \in blocks |-> IF Maintenance!Known(k) THEN rows[k]
                                       ELSE Maintenance!Row(Maintenance!Computed(k), {}, None)]
             whole == IF version.declared
                      THEN Maintenance!Row(Maintenance!Composed(blocks, made), blocks, None)
                      ELSE Maintenance!Row([t \in DOMAIN source |-> Maintenance!Cells(source, DOMAIN source, t)],
                                           {}, None)
             more == [k \in blocks \cup {result} |-> IF k = result THEN whole ELSE made[k]]
  <1>1. rows' = Maintenance!Registered(more) /\ UNCHANGED <<scope, operation, source, plans>>
    BY DEF Maintenance!Run
  <1>2. /\ Settled /\ Lengths /\ source \in Seq(Contents) /\ Len(source) \in Nat
        /\ DOMAIN source = 1 .. Len(source)
    BY LenProperties DEF MInv, Settled
  <1>3. Maintenance!Policy = IF version.declared THEN "finite" ELSE "generic"
    BY DEF Maintenance!Policy
  <1>4. /\ Bound(result) /\ result.kind = "result" /\ result.policy = Maintenance!Policy
        /\ result.content = source /\ result.first = 1 /\ result.last = Len(source)
    BY <1>2, <1>3, KeysOfSource
  <1>5. ASSUME NEW k \in blocks
        PROVE  \E o \in Origins(source) : BlockOf(k, source, o)
    <2>1. PICK o \in Origins(source) : k = Maintenance!BlockKey(source, o, BlockEnd(source, o), version)
      BY <1>5, MaintenanceWindows DEF Maintenance!Blocks
    <2> QED
      BY <1>2, <2>1, KeysOfSource
  <1>6. version.declared => \A o \in Origins(source) : \E k \in blocks : k.first = o
    <2> SUFFICES ASSUME version.declared, NEW o \in Origins(source) PROVE \E k \in blocks : k.first = o
      OBVIOUS
    <2>1. Maintenance!BlockKey(source, o, BlockEnd(source, o), version) \in blocks
      BY MaintenanceWindows DEF Maintenance!Blocks
    <2>2. BlockOf(Maintenance!BlockKey(source, o, BlockEnd(source, o), version), source, o)
      BY <1>2, KeysOfSource
    <2> QED
      BY <2>1, <2>2 DEF BlockOf
  <1>7. ASSUME NEW k \in blocks PROVE made[k].cells = Maintenance!Meaning(k)
    <2>1. CASE Maintenance!Known(k)
      BY <2>1 DEF MInv, MRows, Maintenance!Known
    <2>2. CASE ~ Maintenance!Known(k)
      <3>1. PICK o \in Origins(source) : BlockOf(k, source, o)
        BY <1>5
      <3>2. /\ o \in 1 .. Len(source) /\ BlockEnd(source, o) \in o .. Len(source)
            /\ k.kind = "block" /\ k.first = o /\ k.last = BlockEnd(source, o)
            /\ k.content = HaloProof(source, o, BlockEnd(source, o))
        BY <1>2, <3>1, OriginsAreMultiples, NextOrigin DEF BlockOf
      <3> DEFINE e == BlockEnd(source, o)
                 start == NumericalStart(source, o, e, o)
      <3>3. ASSUME NEW t \in o .. e
            PROVE  Cells(source, ParentWindow(source, start, e), t) = Cells(k.content, DOMAIN k.content, t)
        <4>1. /\ e \in o .. Len(source) /\ o \in o .. Len(source) /\ t \in o .. e /\ e \in t .. Len(source)
          BY <1>2, <3>2
        <4>2. Suffices(source, o, start, t)
          BY <1>2, <3>2, <4>1, StartSuffices
        <4>3. start \in Nat \ {0} /\ e \in start .. Len(source)
          BY <4>1, <4>2 DEF Suffices
        <4> HIDE DEF start
        <4>4. ParentWindow(source, start, e) = start .. e
          BY <1>2, <4>3, WindowIsInterval
        <4>5. Cells(source, start .. e, t) = Cells(HaloProof(source, o, e), DOMAIN HaloProof(source, o, e), t)
          BY <1>2, <3>2, <4>1, <4>2, ProofDetermines
        <4> QED
          BY <3>2, <4>4, <4>5
      <3>4. Maintenance!Computed(k) = [t \in o .. e |-> Cells(source, ParentWindow(source, start, e), t)]
        BY <3>2, MaintenanceWindows DEF Maintenance!Computed
      <3>5. Maintenance!Meaning(k) = [t \in o .. e |-> Cells(k.content, DOMAIN k.content, t)]
        BY <3>2, MaintenanceWindows DEF Maintenance!Meaning
      <3> HIDE DEF start
      <3>6. Maintenance!Computed(k) = Maintenance!Meaning(k)
        BY <3>3, <3>4, <3>5
      <3> QED
        BY <2>2, <3>6 DEF Maintenance!Row
    <2> QED
      BY <2>1, <2>2
  <1>8. whole.cells = Maintenance!Meaning(result)
    <2>1. CASE version.declared
      <3> HIDE DEF blocks, made
      <3>1. \A k \in blocks : /\ \E o \in Origins(source) : BlockOf(k, source, o)
                              /\ made[k].cells = Maintenance!Meaning(k)
        BY <1>5, <1>7
      <3>2. Maintenance!Composed(blocks, made) = [t \in 1 .. Len(source) |-> WholeHistory(source, t)]
        BY <1>2, <1>6, <2>1, <3>1, BlocksCompose
      <3>3. whole.cells = Maintenance!Composed(blocks, made)
        BY <2>1 DEF Maintenance!Row
      <3> HIDE DEF result, whole
      <3>4. Maintenance!Meaning(result) = [t \in 1 .. Len(source) |-> WholeHistory(source, t)]
        BY <1>3, <1>4, <2>1, MaintenanceWindows DEF Maintenance!Meaning
      <3> QED
        BY <3>2, <3>3, <3>4
    <2>2. CASE ~ version.declared
      <3>1. whole.cells = [t \in 1 .. Len(source) |-> Cells(source, DOMAIN source, t)]
        BY <1>2, <2>2, MaintenanceWindows DEF Maintenance!Row
      <3> HIDE DEF result, whole
      <3>2. Maintenance!Meaning(result) = [t \in 1 .. Len(source) |-> Cells(source, DOMAIN source, t)]
        BY <1>3, <1>4, <2>2, MaintenanceWindows DEF Maintenance!Meaning
      <3> QED
        BY <3>1, <3>2
    <2> QED
      BY <2>1, <2>2
  <1> HIDE DEF result, blocks, made, whole
  <1>9. \A k \in DOMAIN more : Bound(k) /\ more[k].cells = Maintenance!Meaning(k)
    BY <1>4, <1>5, <1>7, <1>8 DEF BlockOf
  <1> HIDE DEF more
  <1>10. MRows'
    BY <1>1, <1>9, RegisteredMeans DEF MInv
  <1> QED
    BY <1>1, <1>2, <1>10, MaintenanceKeeps

\* An original whose input is proven anew, or whose cutoff is lowered over the same input.
LEMMA AliasesAreAdmissible ==
    ASSUME MInv, NEW original \in DOMAIN rows,
           \/ Maintenance!PlanRebinding(original)
           \/ original.kind = "result" /\ Maintenance!PlanNormalization(original)
    PROVE  MInv'
  <1>1. Bound(original) /\ source \in Seq(Contents)
    BY DEF MInv, MRows
  <1>2. CASE Maintenance!PlanRebinding(original)
    <2> DEFINE target == [original EXCEPT !.format = version.format,
                                          !.content = [t \in DOMAIN original.content |-> source[t]]]
               p == Maintenance!Plan("rebinding", original, target, <<target>>)
    <2>1. original.kind = "block" /\ Maintenance!Admit(p)
      BY <1>2 DEF Maintenance!PlanRebinding
    <2>2. \A t \in DOMAIN original.content : source[t] = original.content[t]
      BY <1>2 DEF Maintenance!PlanRebinding, Maintenance!SameConsumed
    <2>3. [t \in DOMAIN original.content |-> source[t]] = original.content
      BY <1>1, <2>2 DEF Bound
    <2>4. /\ DOMAIN target = KeyFields /\ target.kind = original.kind /\ target.policy = original.policy
          /\ target.first = original.first /\ target.last = original.last
          /\ target.content = original.content
      BY <1>1, <2>3 DEF Bound, KeyFields
    <2> HIDE DEF target
    <2>5. Bound(target)
      BY <1>1, <2>1, <2>4 DEF Bound
    <2>6. p.mode = "rebinding" /\ p.original = original /\ p.target = target /\ p.entries = <<target>>
      BY DEF Maintenance!Plan
    <2> HIDE DEF p
    <2>7. Admissible(p)
      BY <2>4, <2>5, <2>6 DEF Admissible, AliasPlan
    <2> QED
      BY <2>1, <2>7, AdmitKeeps
  <1>3. CASE original.kind = "result" /\ Maintenance!PlanNormalization(original)
    <2> DEFINE target == Maintenance!ResultKey(source, Maintenance!Policy, version)
               p == Maintenance!Plan("normalization", original, target, <<target>>)
    <2>1. /\ Maintenance!Admit(p) /\ original.policy = Maintenance!Policy /\ original.last = Len(source)
          /\ \A t \in DOMAIN original.content : source[t] = original.content[t]
      BY <1>3 DEF Maintenance!PlanNormalization, Maintenance!Lowered, Maintenance!SameConsumed
    <2>2. /\ original.content \in Seq(Contents) /\ Len(original.content) = Len(source)
          /\ original.first = 1
      BY <1>1, <1>3, <2>1 DEF Bound
    <2>3. original.content = source
      BY <1>1, <2>1, <2>2, SeqDef, LenProperties
    <2>4. /\ Bound(target) /\ target.kind = "result" /\ target.policy = Maintenance!Policy
          /\ target.content = source /\ target.first = 1 /\ target.last = Len(source)
      BY <1>1, KeysOfSource DEF Maintenance!Policy
    <2> HIDE DEF target
    <2>5. p.mode = "normalization" /\ p.original = original /\ p.target = target /\ p.entries = <<target>>
      BY DEF Maintenance!Plan
    <2> HIDE DEF p
    <2>6. Admissible(p)
      BY <1>3, <2>1, <2>2, <2>3, <2>4, <2>5 DEF Admissible, AliasPlan
    <2> QED
      BY <2>1, <2>6, AdmitKeeps
  <1> QED
    BY <1>2, <1>3

\* A result whose prefix is the same, under a lower cutoff.
LEMMA RepairsAreAdmissible ==
    ASSUME MInv, NEW original \in DOMAIN rows, original.kind = "result", Maintenance!PlanRepair(original)
    PROVE  MInv'
  <1> DEFINE target == Maintenance!ResultKey(source, Maintenance!Policy, version)
             fragment == [target EXCEPT !.kind = "fragment", !.first = target.last]
             p == Maintenance!Plan("repair", original, target, <<fragment, target>>)
  <1>1. Bound(original) /\ source \in Seq(Contents) /\ Len(source) \in Nat
    BY LenProperties DEF MInv, MRows
  <1>2. /\ Maintenance!Admit(p) /\ original.policy = Maintenance!Policy /\ original.last = Len(source)
        /\ operation \in {"pointwise", "exact"} /\ original.last > 1
        /\ \A t \in 1 .. original.last - 1 : source[t] = original.content[t]
    BY DEF Maintenance!PlanRepair, Maintenance!Lowered, Maintenance!RepairHistory, Maintenance!SamePrefix
  <1>3. /\ Bound(target) /\ target.kind = "result" /\ target.policy = Maintenance!Policy
        /\ target.content = source /\ target.first = 1 /\ target.last = Len(source)
    BY <1>1, KeysOfSource DEF Maintenance!Policy
  <1> HIDE DEF target
  <1>4. /\ p.mode = "repair" /\ p.original = original /\ p.target = target
        /\ p.entries = <<[target EXCEPT !.kind = "fragment", !.first = target.last], target>>
    BY DEF Maintenance!Plan
  <1> HIDE DEF p, fragment
  <1>5. RepairPlan(p)
    BY <1>1, <1>2, <1>3, <1>4 DEF RepairPlan
  <1> QED
    BY <1>2, <1>5, AdmitKeeps DEF Admissible

\* A generic result whose operation has a finite history now.
LEMMA ContractsAreAdmissible ==
    ASSUME MInv, NEW original \in DOMAIN rows, original.kind = "result", Maintenance!PlanContract(original)
    PROVE  MInv'
  <1> DEFINE target == [original EXCEPT !.policy = "finite"]
             content == original.content
             at(i) == (i - 1) * CanonicalSessions + 1
             block(i) == Maintenance!BlockKey(content, at(i), BlockEnd(content, at(i)), version)
             count == Cardinality(Origins(content))
             blocks == [i \in 1 .. count |-> block(i)]
             p == Maintenance!Plan("contract", original, target, blocks \o <<target>>)
  <1>1. Bound(original) /\ content \in Seq(Contents) /\ Len(content) \in Nat /\ original.first = 1
        /\ original.last = Len(content) /\ Lengths
    BY LenProperties DEF MInv, MRows, Bound, Settled
  <1>2. Maintenance!Admit(p) /\ operation = "exact" /\ original.policy = "generic"
    <2> DEFINE first(i) == (i - 1) * Maintenance!CanonicalSessions + 1
               stated == [i \in 1 .. Maintenance!Cardinality(Maintenance!Origins(content)) |->
                             Maintenance!BlockKey(content, first(i), Maintenance!BlockEnd(content, first(i)), version)]
    <2>1. /\ Maintenance!Admit(Maintenance!Plan("contract", original, target, stated \o <<target>>))
          /\ operation = "exact" /\ original.policy = "generic"
      BY DEF Maintenance!PlanContract, Maintenance!Equivalent
    <2>2. Maintenance!Origins(content) = Origins(content) /\ (\A i : first(i) = at(i))
        /\ Maintenance!Cardinality(Origins(content)) = count
      BY MaintenanceWindows
    <2>3. \A i : Maintenance!BlockEnd(content, first(i)) = BlockEnd(content, at(i))
      BY <2>2, MaintenanceWindows
    <2>4. stated = blocks
      BY <2>2, <2>3
    <2> HIDE DEF stated, blocks
    <2> QED
      BY <2>1, <2>4
  <1>3. /\ count \in Nat
        /\ \A i \in 1 .. count : at(i) \in Origins(content)
        /\ \A o \in Origins(content) : \E i \in 1 .. count : at(i) = o
    BY <1>1, OriginsCounted
  <1>4. ASSUME NEW i \in 1 .. count
        PROVE BlockOf(block(i), content, at(i)) /\ block(i).first = at(i)
    <2>1. BlockOf(block(i), content, at(i))
      BY <1>1, KeysOfSource
    <2> QED
      BY <2>1 DEF BlockOf
  <1>5. /\ DOMAIN target = KeyFields /\ target.kind = "result" /\ target.policy = "finite"
        /\ target.content = content /\ target.first = 1 /\ target.last = Len(content)
    BY <1>1 DEF Bound, KeyFields
  <1> HIDE DEF target
  <1>6. Bound(target)
    BY <1>1, <1>5 DEF Bound
  <1>7. /\ p.mode = "contract" /\ p.original = original /\ p.target = target
        /\ p.entries = blocks \o <<target>>
    BY DEF Maintenance!Plan
  <1> HIDE DEF p, count, at, block
  <1>8. /\ Len(p.entries) = count + 1 /\ DOMAIN p.entries = 1 .. count + 1
        /\ p.entries[count + 1] = target /\ \A i \in 1 .. count : p.entries[i] = block(i)
    <2> DEFINE K == {block(i) : i \in 1 .. count} \cup {target}
    <2>1. blocks \in Seq(K) /\ Len(blocks) = count /\ <<target>> \in Seq(K) /\ Len(<<target>>) = 1
      BY <1>3, SeqDef
    <2>2. /\ blocks \o <<target>> \in Seq(K) /\ Len(blocks \o <<target>>) = count + 1
          /\ (blocks \o <<target>>)[count + 1] = target
          /\ \A i \in 1 .. count : (blocks \o <<target>>)[i] = blocks[i]
      BY <1>3, <2>1, ConcatProperties
    <2>3. DOMAIN (blocks \o <<target>>) = 1 .. count + 1
      BY <2>2, LenProperties
    <2> QED
      BY <1>7, <2>2, <2>3
  <1> HIDE DEF blocks
  <1>9. count + 1 \in Nat \ {0} /\ (count + 1) - 1 = count
    BY <1>3
  <1>10. ASSUME NEW i \in 1 .. count
         PROVE  \E o \in Origins(content) : BlockOf(p.entries[i], content, o)
    BY <1>3, <1>4, <1>8
  <1>11. ASSUME NEW o \in Origins(content) PROVE \E i \in 1 .. count : p.entries[i].first = o
    BY <1>3, <1>4, <1>8
  <1> HIDE DEF content
  <1>12. ContractPlan(p)
    <2>1. p.target.content = p.original.content /\ p.original.policy = "generic" /\ p.original.kind = "result"
      BY <1>2, <1>5, <1>7 DEF content
    <2> QED
      BY <1>2, <1>5, <1>6, <1>7, <1>8, <1>9, <1>10, <1>11, <2>1 DEF ContractPlan
  <1> QED
    BY <1>2, <1>12, AdmitKeeps DEF Admissible

\* What is published for an entry of a plan is what the entry's key means.
LEMMA ReferenceMeans ==
    ASSUME MInv, NEW p, Admissible(p), Maintenance!Verified(p), NEW i \in DOMAIN p.entries,
           \A j \in 1 .. i - 1 : Maintenance!Known(p.entries[j])
    PROVE  LET k == p.entries[i] IN
           Bound(k) /\ Maintenance!Reference(p, k).cells = Maintenance!Meaning(k)
  <1>1. Settled
    BY DEF MInv
  <1>2. /\ p.original \in DOMAIN rows /\ Bound(p.original)
        /\ rows[p.original].cells = Maintenance!Meaning(p.original)
    BY DEF Maintenance!Verified, Maintenance!Known, MInv, MRows
  <1>3. CASE AliasPlan(p)
    <2>1. p.entries[i] = p.target
      BY <1>3 DEF AliasPlan
    <2>2. Maintenance!Reference(p, p.target).cells = rows[p.original].cells
      BY <1>3 DEF AliasPlan, Maintenance!Reference, Maintenance!AliasRow, Maintenance!Row
    <2>3. Maintenance!Meaning(p.target) = Maintenance!Meaning(p.original)
      BY <1>3 DEF AliasPlan, Maintenance!Meaning
    <2> QED
      BY <1>2, <1>3, <2>1, <2>2, <2>3 DEF AliasPlan
  <1>4. CASE RepairPlan(p)
    <2> DEFINE target == p.target
               fragment == [target EXCEPT !.kind = "fragment", !.first = target.last]
               c == target.content
               d == p.original.content
               n == target.last
    <2>1. /\ Bound(target) /\ target.kind = "result" /\ p.original.kind = "result"
          /\ p.original.policy = target.policy /\ p.original.last = n
          /\ operation \in {"pointwise", "exact"} /\ operation # "canonical"
          /\ p.entries = <<fragment, target>> /\ n > 1
          /\ \A t \in 1 .. n - 1 : c[t] = d[t]
      BY <1>4 DEF RepairPlan
    <2>2. /\ c \in Seq(Contents) /\ d \in Seq(Contents) /\ n = Len(c) /\ n = Len(d) /\ n \in Nat
          /\ target.first = 1 /\ p.original.first = 1 /\ DOMAIN c = 1 .. n /\ DOMAIN d = 1 .. n
          /\ target.policy \in {"generic", "finite"}
      BY <1>2, <2>1, LenProperties DEF Bound
    <2>3. /\ DOMAIN fragment = KeyFields /\ fragment.kind = "fragment" /\ fragment.first = n
          /\ fragment.last = n /\ fragment.content = c /\ fragment.policy = target.policy
      BY <2>1 DEF Bound, KeyFields
    <2> HIDE DEF target, fragment, c, d, n
    <2>4. Bound(fragment)
      BY <2>1, <2>2, <2>3 DEF Bound, c, n
    <2>5. n \in 1 .. n /\ n \in n .. Len(c)
      BY <2>1, <2>2
    <2>6. /\ Cells(c, ParentWindow(c, NumericalStart(c, n, n, n), n), n) = Cells(c, 1 .. n, n)
          /\ WholeHistory(c, n) = Cells(c, 1 .. n, n)
      BY <1>1, <2>1, <2>2, <2>5, SessionAlone
    <2> DEFINE Of(s, t) == IF target.policy = "generic" THEN Cells(s, DOMAIN s, t) ELSE WholeHistory(s, t)
    <2>7. Maintenance!Meaning(fragment) = [t \in n .. n |-> Of(c, t)]
      BY <2>1, <2>3, MaintenanceWindows DEF Maintenance!Meaning
    <2>8. Maintenance!Meaning(target) = [t \in 1 .. n |-> Of(c, t)]
      BY <2>1, <2>2, MaintenanceWindows DEF Maintenance!Meaning, c, n
    <2>9. Maintenance!Meaning(p.original) = [t \in 1 .. n |-> Of(d, t)]
      BY <2>1, <2>2, MaintenanceWindows DEF Maintenance!Meaning, d
    <2>10. ASSUME NEW t \in 1 .. n - 1 PROVE Of(c, t) = Of(d, t)
      <3>1. n - 1 \in 0 .. Len(c) /\ Len(c) = Len(d)
        BY <2>1, <2>2
      <3>2. Cells(c, DOMAIN c, t) = Cells(d, DOMAIN d, t) /\ WholeHistory(c, t) = WholeHistory(d, t)
        BY <1>1, <2>1, <2>2, <3>1, PrefixGives
      <3> QED
        BY <3>2
    <2>11. Of(c, n) = Cells(c, 1 .. n, n)
      BY <2>2, <2>6
    <2>12. CASE i = 1
      <3>1. p.entries[i] = fragment /\ p.entries[1] = fragment
        BY <2>1, <2>12
      <3>2. Maintenance!Reference(p, fragment).cells =
                [t \in {n} |-> Cells(c, ParentWindow(c, NumericalStart(c, n, n, n), n), t)]
        BY <1>4, <2>3, <3>1, MaintenanceWindows
           DEF RepairPlan, Maintenance!Reference, Maintenance!RepairRow, Maintenance!Row, Maintenance!Start
      <3>3. n .. n = {n}
        BY <2>2
      <3> HIDE DEF Of
      <3> QED
        BY <2>4, <2>6, <2>7, <2>11, <3>1, <3>2, <3>3
    <2>13. CASE i = 2
      <3>1. p.entries[i] = target /\ p.entries[1] = fragment /\ 1 \in 1 .. i - 1
        BY <2>1, <2>13
      <3>2. fragment \in DOMAIN rows
        BY <3>1 DEF Maintenance!Known
      <3>3. rows[fragment].cells = Maintenance!Meaning(fragment)
        BY <3>2 DEF MInv, MRows
      <3>4. target # fragment
        BY <2>1, <2>3
      <3>5. Maintenance!Reference(p, target).cells =
                [t \in 1 .. n |-> IF t = n THEN rows[fragment].cells[t] ELSE rows[p.original].cells[t]]
        BY <1>4, <3>1, <3>4
           DEF RepairPlan, Maintenance!Reference, Maintenance!RepairRow, Maintenance!Row, n
      <3> HIDE DEF Of
      <3>6. ASSUME NEW t \in 1 .. n
            PROVE  (IF t = n THEN rows[fragment].cells[t] ELSE rows[p.original].cells[t]) = Of(c, t)
        <4>1. CASE t = n
          BY <2>2, <2>7, <3>3, <4>1
        <4>2. CASE t # n
          <5>1. t \in 1 .. n - 1
            BY <2>2, <4>2
          <5> QED
            BY <1>2, <2>9, <2>10, <4>2, <5>1
        <4> QED
          BY <4>1, <4>2
      <3> QED
        BY <2>1, <2>8, <3>1, <3>5, <3>6
    <2> QED
      BY <2>1, <2>12, <2>13
  <1>5. CASE ContractPlan(p)
    <2> DEFINE target == p.target
               c == target.content
               n == Len(p.entries)
    <2>1. /\ p.mode = "contract" /\ operation = "exact"
          /\ Bound(target) /\ target.kind = "result" /\ p.original.kind = "result"
          /\ p.original.policy = "generic" /\ target.policy = "finite" /\ c = p.original.content
          /\ n \in Nat \ {0} /\ DOMAIN p.entries = 1 .. n /\ p.entries[n] = target
          /\ \A j \in 1 .. n - 1 : \E o \in Origins(c) : BlockOf(p.entries[j], c, o)
          /\ \A o \in Origins(c) : \E j \in 1 .. n - 1 : p.entries[j].first = o
      BY <1>5 DEF ContractPlan
    <2>2. /\ c \in Seq(Contents) /\ target.first = 1 /\ target.last = Len(c) /\ p.original.first = 1
          /\ p.original.last = Len(c) /\ Len(c) \in Nat /\ Lengths /\ DOMAIN c = 1 .. Len(c)
      BY <1>1, <1>2, <2>1, LenProperties DEF Bound, Settled
    <2> HIDE DEF target, c, n
    <2>3. CASE i = n
      <3> DEFINE blocks == {p.entries[j] : j \in 1 .. n - 1}
      <3>1. p.entries[i] = target
        BY <2>1, <2>3
      <3>2. Maintenance!Reference(p, target).cells = Maintenance!Composed(blocks, rows)
        BY <2>1 DEF Maintenance!Reference, Maintenance!ContractRow, Maintenance!Row, n, target
      <3>3. \A k \in blocks : /\ \E o \in Origins(c) : BlockOf(k, c, o)
                              /\ rows[k].cells = Maintenance!Meaning(k)
        BY <2>1, <2>3 DEF Maintenance!Known, MInv, MRows
      <3>4. \A o \in Origins(c) : \E k \in blocks : k.first = o
        BY <2>1
      <3> HIDE DEF blocks
      <3>5. Maintenance!Composed(blocks, rows) = [t \in 1 .. Len(c) |-> WholeHistory(c, t)]
        BY <1>1, <2>2, <3>3, <3>4, BlocksCompose
      <3>6. Maintenance!Meaning(target) = [t \in 1 .. Len(c) |-> WholeHistory(c, t)]
        BY <2>1, <2>2, MaintenanceWindows DEF Maintenance!Meaning, c
      <3> QED
        BY <2>1, <3>1, <3>2, <3>5, <3>6
    <2>4. CASE i # n
      <3> DEFINE k == p.entries[i]
      <3>1. i \in 1 .. n - 1
        BY <2>1, <2>4
      <3>2. PICK o \in Origins(c) : BlockOf(k, c, o)
        BY <2>1, <3>1
      <3>3. /\ Bound(k) /\ k.kind = "block" /\ k # target
            /\ k.first = o /\ k.last = BlockEnd(c, o) /\ k.content = HaloProof(c, o, BlockEnd(c, o))
            /\ o \in 1 .. Len(c) /\ BlockEnd(c, o) \in o .. Len(c)
        BY <2>1, <2>2, <3>2, OriginsAreMultiples, NextOrigin DEF BlockOf
      <3> HIDE DEF k
      <3>4. Maintenance!Reference(p, k).cells = [t \in o .. BlockEnd(c, o) |-> rows[p.original].cells[t]]
        BY <2>1, <3>3
           DEF Maintenance!Reference, Maintenance!ContractRow, Maintenance!Row, Maintenance!Restrict, target
      <3>5. Maintenance!Meaning(k) = [t \in o .. BlockEnd(c, o) |-> Cells(k.content, DOMAIN k.content, t)]
        BY <3>3, MaintenanceWindows DEF Maintenance!Meaning
      <3>6. Maintenance!Meaning(p.original) = [t \in 1 .. Len(c) |-> Cells(c, DOMAIN c, t)]
        BY <2>1, <2>2, MaintenanceWindows DEF Maintenance!Meaning
      <3>7. ASSUME NEW t \in o .. BlockEnd(c, o)
            PROVE  rows[p.original].cells[t] = Cells(k.content, DOMAIN k.content, t)
        <4>1. t \in 1 .. Len(c)
          BY <2>2, <3>3
        <4>2. Cells(c, DOMAIN c, t) = Cells(k.content, DOMAIN k.content, t)
          BY <1>1, <2>1, <2>2, <3>3, BlockOfWhole
        <4> QED
          BY <1>2, <3>6, <4>1, <4>2
      <3>8. Maintenance!Reference(p, k).cells = Maintenance!Meaning(k)
        BY <3>4, <3>5, <3>7
      <3> QED
        BY <3>3, <3>8 DEF k
    <2> QED
      BY <2>3, <2>4
  <1> QED
    BY <1>3, <1>4, <1>5 DEF Admissible

\* A publication of a plan.
LEMMA ApplyKeeps == ASSUME MInv, NEW j \in DOMAIN plans, Maintenance!Apply(plans[j]) PROVE MInv'
  <1>1. PICK S : plans \in Seq(S) /\ \A q \in S : Admissible(q)
    BY DEF MInv, MPlans
  <1>2. PICK p : p = plans[j]
    OBVIOUS
  <1>3. Admissible(p)
    <2>1. j \in 1 .. Len(plans)
      BY <1>1, LenProperties
    <2>2. plans[j] \in S
      BY <1>1, <2>1, ElementOfSeq
    <2> QED
      BY <1>1, <1>2, <2>2
  <1>4. Maintenance!Verified(p) /\ UNCHANGED <<scope, operation, source, plans>>
    BY <1>2 DEF Maintenance!Apply
  <1>5. PICK i \in DOMAIN p.entries :
          /\ \A n \in 1 .. i - 1 : Maintenance!Known(p.entries[n])
          /\ rows' = Maintenance!Registered([k \in {p.entries[i]} |-> Maintenance!Reference(p, k)])
    BY <1>2 DEF Maintenance!Apply
  <1> DEFINE key == p.entries[i]
             more == [k \in {key} |-> Maintenance!Reference(p, k)]
  <1>6. Bound(key) /\ Maintenance!Reference(p, key).cells = Maintenance!Meaning(key)
    BY <1>3, <1>4, <1>5, ReferenceMeans
  <1> HIDE DEF key
  <1>7. \A k \in DOMAIN more : Bound(k) /\ more[k].cells = Maintenance!Meaning(k)
    BY <1>6
  <1>8. rows' = Maintenance!Registered(more)
    BY <1>5 DEF key
  <1> HIDE DEF more
  <1>9. MRows'
    BY <1>4, <1>7, <1>8, RegisteredMeans DEF MInv
  <1>10. source' \in Seq(Contents)
    BY <1>4 DEF MInv
  <1> QED
    BY <1>4, <1>9, <1>10, MaintenanceKeeps

LEMMA MInvInit == Maintenance!Init => MInv
  <1> SUFFICES ASSUME Maintenance!Init PROVE MInv
    OBVIOUS
  <1>1. Settled
    BY MaintenanceScopesAssumption, OperationsAssumption DEF Maintenance!Init, Settled, Lengths
  <1>2. source = <<>> /\ rows = <<>> /\ plans = <<>>
    BY DEF Maintenance!Init
  <1>3. source \in Seq(Contents) /\ plans \in Seq({}) /\ DOMAIN rows = {}
    BY <1>2, EmptySeq
  <1>4. MPlans
    BY <1>3 DEF MPlans
  <1> QED
    BY <1>1, <1>3, <1>4 DEF MInv, MRows

LEMMA MInvStep == MInv /\ [Maintenance!Next]_(Maintenance!vars) => MInv'
  <1> SUFFICES ASSUME MInv, [Maintenance!Next]_(Maintenance!vars) PROVE MInv'
    OBVIOUS
  <1>1. CASE UNCHANGED Maintenance!vars
    <2>1. UNCHANGED <<scope, operation, source, rows, plans>>
      BY <1>1 DEF Maintenance!vars
    <2>2. MRows' /\ source' \in Seq(Contents)
      BY <2>1, RowsStay DEF MInv
    <2> QED
      BY <2>1, <2>2, MaintenanceKeeps
  <1>2. CASE \/ \E members \in SUBSET Assets : Maintenance!Observe(members) /\ UNCHANGED <<rows, plans>>
             \/ \E t \in DOMAIN source : Maintenance!Restate(t) /\ UNCHANGED <<rows, plans>>
             \/ Maintenance!Reformat \/ Maintenance!Declare \/ Maintenance!Adopt
             \/ \E later \in SUBSET {t \in DOMAIN source : source[t].edition = 1} : Maintenance!LowerCutoff(later)
    BY <1>2, ProvidersKeep
  <1>3. CASE Maintenance!Run
    BY <1>3, RunKeeps
  <1>4. ASSUME NEW original \in DOMAIN rows,
               \/ original.kind = "result" /\ (\/ Maintenance!PlanContract(original)
                                               \/ Maintenance!PlanNormalization(original)
                                               \/ Maintenance!PlanRepair(original))
               \/ Maintenance!PlanRebinding(original)
               \/ Maintenance!Retire(original)
        PROVE  MInv'
    <2>1. CASE original.kind = "result" /\ Maintenance!PlanContract(original)
      BY <2>1, ContractsAreAdmissible
    <2>2. CASE original.kind = "result" /\ Maintenance!PlanRepair(original)
      BY <2>2, RepairsAreAdmissible
    <2>3. CASE \/ Maintenance!PlanRebinding(original)
               \/ original.kind = "result" /\ Maintenance!PlanNormalization(original)
      BY <2>3, AliasesAreAdmissible
    <2>4. CASE Maintenance!Retire(original)
      BY <2>4, RetireKeeps
    <2> QED
      BY <1>4, <2>1, <2>2, <2>3, <2>4
  <1>5. ASSUME NEW i \in DOMAIN plans, Maintenance!Apply(plans[i]) PROVE MInv'
    BY <1>5, ApplyKeeps
  <1> QED
    BY <1>1, <1>2, <1>3, <1>4, <1>5 DEF Maintenance!Next

\* What maintenance publishes under a key, block by block, by reference or computed, is what a
\* computation over the input of that key gives: for any Domain, source, lengths, releases and
\* plans, interleaved with runs, restatements, lowered cutoffs and retirements.
THEOREM MaintenanceHolds == PolicySpec => []MaintainedIsComputed
  <1> DEFINE PInv == policy = "maintenance" => MInv
  <1>1. PolicyInit => PInv
    BY MInvInit DEF PolicyInit
  <1>2. PInv /\ [PolicyNext]_allVars => PInv'
    <2> SUFFICES ASSUME PInv, [PolicyNext]_allVars, (policy = "maintenance")' PROVE MInv'
      OBVIOUS
    <2>1. policy = "maintenance" /\ MInv
      BY DEF PolicyNext, allVars
    <2>2. [Maintenance!Next]_(Maintenance!vars)
      BY <2>1 DEF PolicyNext, allVars, Maintenance!vars
    <2> QED
      BY <2>1, <2>2, MInvStep
  <1>3. PInv => MaintainedIsComputed
    BY DEF MaintainedIsComputed, Maintenance!MaintainedIsComputed, MInv, MRows
  <1> HIDE DEF PInv
  <1> QED
    BY <1>1, <1>2, <1>3, PTL DEF PolicySpec


-----------------------------------------------------------------------------
(* Periods: what was known on a day. *)

\* The sample that a proof is of.
SampleOf(proof) == [feature |-> proof.features, target |-> proof.targets, at |-> proof.availability]

\* The records of periods as they are at the end of a calendar, and those that a day knows.
RecordsOf(proofs, end) == [d \in DOMAIN proofs |-> Period!PeriodRecord(SampleOf(proofs[d]), end)]
KnownOn(proofs, day) ==
    [d \in {e \in DOMAIN proofs : e <= day} |-> Period!PeriodRecord(SampleOf(proofs[d]), day)]

\* Proofs of numbered days that mature on numbered days.
Dated(proofs) ==
    /\ DOMAIN proofs \subseteq Nat \ {0}
    /\ \A d \in DOMAIN proofs : proofs[d].availability \in Nat \ {0}

WindowsHaveLength == scope.window \in Nat \ {0}

LEMMA PeriodBounds ==
    /\ \A S : Period!Max(S) = Max(S) /\ Period!Min(S) = Min(S)
    /\ \A S : Period!Cardinality(S) = Cardinality(S)
  <1>1. \A S : Period!Max(S) = Max(S) /\ Period!Min(S) = Min(S)
    BY DEF Period!Max, Max, Period!Min, Min
  <1>2. \A S : Period!Cardinality(S) = Cardinality(S)
    BY DEF Period!Cardinality, Cardinality, Period!IsFiniteSet, IsFiniteSet
  <1> QED
    BY <1>1, <1>2

\* The periods that a day may use are those that come before it and had matured.
Usable(periods, day) ==
    {p \in DOMAIN periods : periods[p].status = "fitted" /\ p < day /\ periods[p].available_at <= day}

\* Periods that agree up to a day give it the same window.
LEMMA SameWindow ==
    ASSUME WindowsHaveLength, NEW day \in Nat, NEW P, NEW Q,
           DOMAIN P \subseteq Nat, DOMAIN Q \subseteq Nat,
           \A p \in Nat : p < day => (p \in DOMAIN P <=> p \in DOMAIN Q),
           \A p \in DOMAIN P \cap DOMAIN Q : p < day => (p \in Usable(P, day) <=> p \in Usable(Q, day))
    PROVE  Period!AvailableHistory(P, day) = Period!AvailableHistory(Q, day)
  <1> DEFINE lastOf(E) == {p \in E : Period!Cardinality({q \in E : q > p}) < scope.window}
             broken(R, S) == \E d \in DOMAIN R \ S : d > Period!Min(S) /\ d < Period!Max(S)
             window(R, S) == IF Period!Cardinality(S) < scope.window \/ broken(R, S) THEN None ELSE S
  <1>1. /\ Period!AvailableHistory(P, day) = window(P, lastOf(Usable(P, day)))
        /\ Period!AvailableHistory(Q, day) = window(Q, lastOf(Usable(Q, day)))
    BY DEF Period!AvailableHistory, Usable
  <1>2. Usable(P, day) = Usable(Q, day)
    <2>1. \A p \in Usable(P, day) : p \in DOMAIN P /\ p < day /\ p \in Nat
      BY DEF Usable
    <2>2. \A p \in Usable(Q, day) : p \in DOMAIN Q /\ p < day /\ p \in Nat
      BY DEF Usable
    <2> QED
      BY <2>1, <2>2
  <1> DEFINE S == lastOf(Usable(P, day))
  <1>3. \A p \in S : p \in Nat /\ p <= day /\ p < day
    BY DEF Usable
  <1>6. /\ Period!AvailableHistory(P, day) = window(P, S)
        /\ Period!AvailableHistory(Q, day) = window(Q, S)
    BY <1>1, <1>2
  <1> HIDE DEF S, lastOf
  <1>4. CASE S = {}
    <2>1. Period!Cardinality(S) = 0
      BY <1>4, PeriodBounds, FS_EmptySet
    <2>2. window(P, S) = None /\ window(Q, S) = None
      BY <2>1 DEF WindowsHaveLength
    <2> QED
      BY <1>6, <2>2
  <1>5. CASE S # {}
    <2>1. Period!Max(S) < day /\ Period!Max(S) \in Nat
      BY <1>3, <1>5, MaxOfBounded, PeriodBounds
    <2>2. broken(P, S) <=> broken(Q, S)
      BY <1>3, <2>1
    <2>3. window(P, S) = window(Q, S)
      BY <2>2
    <2> QED
      BY <1>6, <2>3
  <1> QED
    BY <1>4, <1>5

\* A window is none, or of periods that its day may use.
LEMMA WindowIsUsable ==
    ASSUME NEW P, NEW day, Period!AvailableHistory(P, day) # None
    PROVE  Period!AvailableHistory(P, day) \subseteq Usable(P, day)
  BY DEF Period!AvailableHistory, Usable

LEMMA RecordFacts ==
    ASSUME NEW sample, NEW end
    PROVE  LET r == Period!PeriodRecord(sample, end) IN
           /\ r.status = "fitted" <=> Period!Training(sample) /\ sample.at <= end
           /\ r.status # "fitted" => r.status = "pending"
           /\ r.available_at = IF Period!Training(sample) THEN sample.at ELSE None
           /\ r.status = "fitted" => r.statistics = <<sample.feature, sample.target>>
           /\ r.has_features = (sample.feature # None)
  BY DEF Period!PeriodRecord

\* What a day knows is what the whole calendar knows of the periods it may use.
LEMMA WholeCalendarKnows ==
    ASSUME WindowsHaveLength, NEW proofs, Dated(proofs), NEW end \in Nat,
           NEW day \in DOMAIN proofs, day <= end
    PROVE  LET R == RecordsOf(proofs, end) IN
           Period!OnItsDay(proofs, day)
               = Period!Predicted(SampleOf(proofs[day]), R, Period!AvailableHistory(R, day))
  <1> DEFINE R == RecordsOf(proofs, end)
             K == KnownOn(proofs, day)
             h == Period!AvailableHistory(R, day)
  <1>1. /\ DOMAIN R = DOMAIN proofs /\ DOMAIN K = {e \in DOMAIN proofs : e <= day}
        /\ DOMAIN proofs \subseteq Nat /\ day \in Nat
    BY DEF RecordsOf, KnownOn, Dated
  <1>2. /\ \A p \in DOMAIN R : R[p] = Period!PeriodRecord(SampleOf(proofs[p]), end)
        /\ \A p \in DOMAIN K : K[p] = Period!PeriodRecord(SampleOf(proofs[p]), day)
    BY DEF RecordsOf, KnownOn
  <1> HIDE DEF R, K
  <1>3. ASSUME NEW p \in DOMAIN R \cap DOMAIN K
        PROVE  /\ p \in Usable(R, day) <=> p \in Usable(K, day)
               /\ p \in Usable(R, day) => R[p].statistics = K[p].statistics
    <2> DEFINE s == SampleOf(proofs[p])
    <2>1. s.at \in Nat
      BY <1>1 DEF Dated, SampleOf
    <2> HIDE DEF s
    <2>2. /\ R[p].status = "fitted" <=> Period!Training(s) /\ s.at <= end
          /\ R[p].available_at = IF Period!Training(s) THEN s.at ELSE None
          /\ R[p].status = "fitted" => R[p].statistics = <<s.feature, s.target>>
          /\ K[p].status = "fitted" <=> Period!Training(s) /\ s.at <= day
          /\ K[p].available_at = IF Period!Training(s) THEN s.at ELSE None
          /\ K[p].status = "fitted" => K[p].statistics = <<s.feature, s.target>>
      BY <1>2, RecordFacts DEF s
    <2> QED
      BY <1>1, <2>1, <2>2 DEF Usable
  <1>4. h = Period!AvailableHistory(K, day)
    BY <1>1, <1>3, SameWindow
  <1>5. Period!OnItsDay(proofs, day) = Period!Predicted(SampleOf(proofs[day]), K, Period!AvailableHistory(K, day))
    BY DEF Period!OnItsDay, SampleOf, K, KnownOn
  <1>6. h # None => \A p \in h : R[p].statistics = K[p].statistics
    <2> SUFFICES ASSUME h # None, NEW p \in h PROVE R[p].statistics = K[p].statistics
      OBVIOUS
    <2>1. p \in Usable(R, day) /\ p \in Usable(K, day)
      BY <1>4, WindowIsUsable
    <2>2. p \in DOMAIN R \cap DOMAIN K
      BY <2>1 DEF Usable
    <2> QED
      BY <1>3, <2>1, <2>2
  <1> HIDE DEF h
  <1>7. Period!Predicted(SampleOf(proofs[day]), K, h) = Period!Predicted(SampleOf(proofs[day]), R, h)
    BY <1>6 DEF Period!Predicted
  <1> QED
    BY <1>4, <1>5, <1>7 DEF R, h

-----------------------------------------------------------------------------
(* Periods: what an update of statistics gives. *)

\* The statistics and windows of all periods of a calendar.
StateOf(state, proofs) ==
    /\ state.records = RecordsOf(proofs, Period!Max(DOMAIN proofs))
    /\ state.fit_windows = [d \in DOMAIN proofs |-> Period!AvailableHistory(state.records, d)]

\* What differs between proofs is among changes, with the roles that differ.
ChangesBetween(changes, old, new) ==
    \A d \in DOMAIN old \cap DOMAIN new :
        /\ d \notin DOMAIN changes => new[d] = old[d]
        /\ d \in DOMAIN changes /\ "features" \notin changes[d] => new[d].features = old[d].features

\* A record that no later end of the calendar has matured stays what it is.
LEMMA RecordStays ==
    ASSUME NEW sample, sample.at \in Nat \ {0}, NEW early \in Nat, NEW end \in Nat, early <= end,
           LET r == Period!PeriodRecord(sample, early) IN
               ~ (r.status = "pending" /\ r.available_at \in 1 .. end)
    PROVE  Period!PeriodRecord(sample, early) = Period!PeriodRecord(sample, end)
  <1>1. CASE ~ Period!Training(sample)
    BY <1>1 DEF Period!PeriodRecord
  <1>2. CASE Period!Training(sample)
    <2>1. sample.at <= early \/ ~ (sample.at <= end)
      BY <1>2 DEF Period!PeriodRecord
    <2>2. sample.at <= early <=> sample.at <= end
      BY <2>1
    <2> QED
      BY <1>2, <2>2 DEF Period!PeriodRecord
  <1> QED
    BY <1>1, <1>2

\* A window ahead of whatever changed is that of the records as they are now.
LEMMA WindowKept ==
    ASSUME WindowsHaveLength, NEW old, NEW days, days \subseteq Nat, NEW requested, requested \subseteq days,
           NEW periods, DOMAIN periods = days, DOMAIN old.records \subseteq Nat,
           \A p \in days \ requested : p \in DOMAIN old.records /\ periods[p] = old.records[p],
           \A p \in days : periods[p].status = "fitted" => periods[p].available_at \in Nat,
           \A p \in DOMAIN old.records :
               old.records[p].status = "fitted" => old.records[p].available_at \in Nat,
           NEW day \in Nat,
           LET influences == Period!Influences(old, days, requested, periods) IN
               influences = {} \/ day < Period!Min(influences)
    PROVE  Period!AvailableHistory(old.records, day) = Period!AvailableHistory(periods, day)
  <1> DEFINE records == old.records
             influences == Period!Influences(old, days, requested, periods)
             first(d, r) == Period!Max({d + 1, r.available_at})
  <1>1. \A p : p \in influences <=>
            \/ p \in (DOMAIN records \ days) \cup (days \ DOMAIN records)
            \/ \E d \in requested :
                  \/ periods[d].status = "fitted" /\ p = first(d, periods[d])
                  \/ d \in DOMAIN records /\ records[d].status = "fitted" /\ p = first(d, records[d])
    <2> DEFINE of(d) == {q \in {periods[d]} \cup (IF d \in DOMAIN records THEN {records[d]} ELSE {}) :
                           q.status = "fitted"}
               firsts(d) == {first(d, r) : r \in of(d)}
    <2>1. influences = ((DOMAIN records \ days) \cup (days \ DOMAIN records)) \cup UNION {firsts(d) : d \in requested}
      BY DEF Period!Influences, Period!SymDiff
    <2>2. \A d, p : p \in firsts(d) <=>
              \/ periods[d].status = "fitted" /\ p = first(d, periods[d])
              \/ d \in DOMAIN records /\ records[d].status = "fitted" /\ p = first(d, records[d])
      <3> HIDE DEF first, records
      <3> QED
        OBVIOUS
    <2>3. \A p : p \in influences <=>
              p \in (DOMAIN records \ days) \cup (days \ DOMAIN records) \/ \E d \in requested : p \in firsts(d)
      <3> HIDE DEF firsts, influences, records
      <3> QED
        BY <2>1
    <2> HIDE DEF firsts, influences, records, first
    <2> QED
      BY <2>2, <2>3
  <1> HIDE DEF records, influences
  <1>2. \A d \in Nat, a \in Nat : Period!Max({d + 1, a}) = IF d + 1 <= a THEN a ELSE d + 1
    BY MaxOfTwo, PeriodBounds
  <1>3. /\ \A d \in requested : periods[d].status = "fitted" => first(d, periods[d]) \in Nat
        /\ \A d \in requested \cap DOMAIN records : records[d].status = "fitted" => first(d, records[d]) \in Nat
    BY <1>2 DEF records
  <1>4. influences \subseteq Nat
    <2> SUFFICES ASSUME NEW p \in influences PROVE p \in Nat
      OBVIOUS
    <2>1. DOMAIN records \subseteq Nat
      BY DEF records
    <2> HIDE DEF first
    <2> QED
      BY <1>1, <1>3, <2>1
  <1>5. \A p \in influences : day < p
    <2> SUFFICES ASSUME NEW p \in influences PROVE day < p
      OBVIOUS
    <2>1. influences # {} /\ day < Period!Min(influences)
      BY DEF influences
    <2>2. Min(influences) \in influences /\ Min(influences) <= p
      BY <1>4, <2>1, MinOfNumbers
    <2> QED
      BY <1>4, <2>1, <2>2, PeriodBounds
  <1>6. \A p \in Nat : p < day => (p \in DOMAIN records <=> p \in DOMAIN periods)
    BY <1>1, <1>5
  <1>7. ASSUME NEW p \in DOMAIN records \cap DOMAIN periods, p < day
        PROVE  p \in Usable(records, day) <=> p \in Usable(periods, day)
    <2>1. CASE p \notin requested
      <3>1. periods[p] = records[p]
        BY <2>1 DEF records
      <3> QED
        BY <1>7, <3>1 DEF Usable
    <2>2. CASE p \in requested
      <3>1. p \in Nat
        BY DEF records
      <3>2. p \notin Usable(records, day)
        <4> SUFFICES ASSUME records[p].status = "fitted", records[p].available_at <= day PROVE FALSE
          BY DEF Usable
        <4>0. PICK f : f = first(p, records[p])
          OBVIOUS
        <4>1. f \in influences
          BY <1>1, <1>7, <2>2, <4>0
        <4>2. records[p].available_at \in Nat
          BY <1>7 DEF records
        <4>3. f <= day
          <5>1. f = IF p + 1 <= records[p].available_at THEN records[p].available_at ELSE p + 1
            BY <1>2, <3>1, <4>0, <4>2
          <5> QED
            BY <1>7, <3>1, <4>2, <5>1
        <4> QED
          BY <1>4, <1>5, <4>1, <4>3
      <3>3. p \notin Usable(periods, day)
        <4> SUFFICES ASSUME periods[p].status = "fitted", periods[p].available_at <= day PROVE FALSE
          BY DEF Usable
        <4>0. PICK f : f = first(p, periods[p])
          OBVIOUS
        <4>1. f \in influences
          BY <1>1, <2>2, <4>0
        <4>2. periods[p].available_at \in Nat
          BY <1>7
        <4>3. f <= day
          <5>1. f = IF p + 1 <= periods[p].available_at THEN periods[p].available_at ELSE p + 1
            BY <1>2, <3>1, <4>0, <4>2
          <5> QED
            BY <1>7, <3>1, <4>2, <5>1
        <4> QED
          BY <1>4, <1>5, <4>1, <4>3
      <3> QED
        BY <3>2, <3>3
    <2> QED
      BY <2>1, <2>2
  <1>8. DOMAIN records \subseteq Nat /\ DOMAIN periods \subseteq Nat
    BY DEF records
  <1> QED
    BY <1>6, <1>7, <1>8, SameWindow DEF records

\* The calendar as the sources of a version have it.
CalendarKnown == calendar \subseteq 1 .. Len(source) /\ Len(source) \in Nat

LEMMA CalendarEnds ==
    ASSUME NEW days, days \in SUBSET Nat, days # {}, NEW n \in Nat, \A d \in days : d <= n
    PROVE  /\ Period!Max(days) \in days /\ Period!Max(days) \in Nat /\ Period!Max(days) <= n
           /\ \A d \in days : d <= Period!Max(days)
  BY MaxOfBounded, PeriodBounds

\* What an update gives: the statistics and windows of the calendar, and predictions that it
\* leaves alone stay what they were.
LEMMA UpdateGives ==
    ASSUME WindowsHaveLength, CalendarKnown, calendar # {}, Dated(Period!Proofs),
           NEW old, NEW prev, NEW changes,
           old # None => /\ Dated(prev) /\ StateOf(old, prev) /\ DOMAIN prev # {}
                         /\ DOMAIN prev \subseteq 1 .. Len(source)
                         /\ Period!Max(DOMAIN prev) <= Period!Max(calendar)
                         /\ ChangesBetween(changes, prev, Period!Proofs),
           DOMAIN changes \subseteq calendar
    PROVE  LET requested == Period!PeriodWork(old, calendar, changes)
               u == Period!Update(old, calendar, requested, changes)
           IN  /\ StateOf(u, Period!Proofs) /\ u.repaired \subseteq calendar
               /\ \A d \in calendar \ u.repaired :
                     /\ old # None /\ d \in DOMAIN prev
                     /\ Period!OnItsDay(Period!Proofs, d) = Period!OnItsDay(prev, d)
  <1> DEFINE new == Period!Proofs
             end == Period!Max(calendar)
             early == Period!Max(DOMAIN prev)
             requested == Period!PeriodWork(old, calendar, changes)
             u == Period!Update(old, calendar, requested, changes)
             kept(d, influences) == /\ old # None /\ d \in DOMAIN old.fit_windows
                                    /\ influences = {} \/ d < Period!Min(influences)
             influences == IF old = None THEN {} ELSE Period!Influences(old, calendar, requested, u.records)
  <1>1. /\ DOMAIN new = calendar
        /\ \A d \in calendar : new[d] = [features |-> source[d].feature, targets |-> source[d].target,
                                         availability |-> source[d].at]
    BY DEF Period!Proofs
  <1>2. /\ end \in Nat /\ \A d \in calendar : d \in Nat /\ d <= end
        /\ end \in calendar
    <2>1. calendar \in SUBSET Nat /\ \A d \in calendar : d <= Len(source)
      BY DEF CalendarKnown
    <2> QED
      BY <2>1, CalendarEnds DEF CalendarKnown
  <1>3. old # None => /\ early \in Nat /\ early <= end
                      /\ \A d \in DOMAIN prev : d \in Nat /\ d <= early
    <2> SUFFICES ASSUME old # None
                 PROVE  early \in Nat /\ early <= end /\ \A d \in DOMAIN prev : d \in Nat /\ d <= early
      OBVIOUS
    <2>1. DOMAIN prev \in SUBSET Nat /\ \A d \in DOMAIN prev : d <= Len(source)
      BY DEF CalendarKnown
    <2> QED
      BY <2>1, CalendarEnds DEF CalendarKnown
  <1>4. /\ u.records = [d \in calendar |-> IF d \in requested THEN Period!PeriodRecord(source[d], end)
                                           ELSE old.records[d]]
        /\ u.fit_windows = [d \in calendar |-> IF kept(d, influences) THEN old.fit_windows[d]
                                               ELSE Period!AvailableHistory(u.records, d)]
    BY DEF Period!Update
  <1>5. \A d \in calendar : d \in u.repaired <=>
            \/ old = None \/ d \notin DOMAIN old.records
            \/ d \in DOMAIN changes /\ "features" \in changes[d]
            \/ old.fit_windows[d] # u.fit_windows[d]
            \/ u.fit_windows[d] # None /\ u.fit_windows[d] \cap requested # {}
    BY DEF Period!Update
  <1>6. u.repaired \subseteq calendar
    BY DEF Period!Update
  <1>7. old # None =>
            /\ DOMAIN old.records = DOMAIN prev /\ DOMAIN old.fit_windows = DOMAIN prev
            /\ \A d \in DOMAIN prev : old.records[d] = Period!PeriodRecord(SampleOf(prev[d]), early)
            /\ \A d \in DOMAIN prev : old.fit_windows[d] = Period!AvailableHistory(old.records, d)
    BY DEF StateOf, RecordsOf
  <1>8. /\ old = None => requested = calendar
        /\ requested \subseteq calendar
        /\ \A d \in calendar \ requested :
              /\ old # None /\ d \notin DOMAIN changes /\ d \in DOMAIN old.records
              /\ ~ (old.records[d].status = "pending" /\ old.records[d].available_at \in 1 .. end)
    BY DEF Period!PeriodWork
  <1> HIDE DEF requested, u, new
  <1>9. \A d \in calendar : Period!PeriodRecord(SampleOf(new[d]), end) = Period!PeriodRecord(source[d], end)
    BY <1>1 DEF SampleOf, Period!PeriodRecord, Period!Training
  <1>10. ASSUME NEW d \in calendar \ requested
         PROVE  old.records[d] = Period!PeriodRecord(SampleOf(new[d]), end) /\ new[d] = prev[d]
    <2>1. old # None /\ d \in DOMAIN prev /\ d \in DOMAIN new
      BY <1>1, <1>7, <1>8
    <2>2. new[d] = prev[d]
      BY <1>8, <2>1 DEF ChangesBetween, new
    <2>3. SampleOf(prev[d]).at \in Nat \ {0}
      BY <2>1 DEF Dated, SampleOf
    <2>4. Period!PeriodRecord(SampleOf(prev[d]), early) = Period!PeriodRecord(SampleOf(prev[d]), end)
      BY <1>2, <1>3, <1>7, <1>8, <2>1, <2>3, RecordStays
    <2> QED
      BY <1>7, <2>1, <2>2, <2>4
  <1>11. u.records = RecordsOf(new, end)
    BY <1>1, <1>4, <1>9, <1>10 DEF RecordsOf
  <1>12. ASSUME NEW p \in calendar, u.records[p].status = "fitted" PROVE u.records[p].available_at \in Nat
    <2>1. u.records[p] = Period!PeriodRecord(SampleOf(new[p]), end)
      BY <1>1, <1>11 DEF RecordsOf
    <2>2. SampleOf(new[p]).at \in Nat
      BY <1>1 DEF Dated, SampleOf, new
    <2> QED
      BY <1>12, <2>1, <2>2, RecordFacts
  <1>13. ASSUME old # None, NEW p \in DOMAIN old.records, old.records[p].status = "fitted"
         PROVE  old.records[p].available_at \in Nat
    <2>1. SampleOf(prev[p]).at \in Nat
      BY <1>7, <1>13 DEF Dated, SampleOf
    <2> QED
      BY <1>7, <1>13, <2>1, RecordFacts
  <1>14. ASSUME NEW d \in calendar, kept(d, influences)
         PROVE  old.fit_windows[d] = Period!AvailableHistory(u.records, d)
    <2>1. old # None /\ d \in DOMAIN prev /\ d \in Nat
      BY <1>2, <1>7, <1>14
    <2>2. /\ calendar \subseteq Nat /\ DOMAIN u.records = calendar /\ DOMAIN old.records \subseteq Nat
          /\ \A p \in calendar \ requested : p \in DOMAIN old.records /\ u.records[p] = old.records[p]
      BY <1>2, <1>3, <1>4, <1>7, <1>8, <2>1
    <2>3. Period!Influences(old, calendar, requested, u.records) = {}
            \/ d < Period!Min(Period!Influences(old, calendar, requested, u.records))
      BY <1>14
    <2>4. Period!AvailableHistory(old.records, d) = Period!AvailableHistory(u.records, d)
      <3>1. /\ requested \subseteq calendar
            /\ \A p \in calendar : u.records[p].status = "fitted" => u.records[p].available_at \in Nat
            /\ \A p \in DOMAIN old.records :
                   old.records[p].status = "fitted" => old.records[p].available_at \in Nat
        BY <1>8, <1>12, <1>13, <2>1
      <3> QED
        BY <2>1, <2>2, <2>3, <3>1, WindowKept
    <2> QED
      BY <1>7, <2>1, <2>4
  <1> HIDE DEF kept, influences
  <1>15. u.fit_windows = [d \in calendar |-> Period!AvailableHistory(u.records, d)]
    BY <1>4, <1>14
  <1>16. StateOf(u, new)
    BY <1>1, <1>11, <1>15 DEF StateOf
  <1>17. ASSUME NEW d \in calendar \ u.repaired
         PROVE  /\ old # None /\ d \in DOMAIN prev
                /\ Period!OnItsDay(new, d) = Period!OnItsDay(prev, d)
    <2>1. /\ old # None /\ d \in DOMAIN prev /\ d \in DOMAIN new /\ d <= end /\ d <= early
          /\ d \in DOMAIN changes => "features" \notin changes[d]
          /\ old.fit_windows[d] = u.fit_windows[d]
          /\ u.fit_windows[d] # None => u.fit_windows[d] \cap requested = {}
      BY <1>1, <1>2, <1>3, <1>5, <1>7, <1>17
    <2>2. new[d].features = prev[d].features
      BY <2>1 DEF ChangesBetween, new
    <2> DEFINE h == u.fit_windows[d]
    <2>3. /\ h = Period!AvailableHistory(u.records, d)
          /\ h = Period!AvailableHistory(old.records, d)
      BY <1>7, <1>15, <2>1
    <2>4. Period!OnItsDay(new, d) = Period!Predicted(SampleOf(new[d]), u.records, h)
      <3>1. RecordsOf(new, end) = u.records /\ Dated(new)
        BY <1>11 DEF new
      <3>2. end \in Nat /\ d \in DOMAIN new /\ d <= end
        BY <1>2, <2>1
      <3> HIDE DEF end
      <3> QED
        BY <2>3, <3>1, <3>2, WholeCalendarKnows
    <2>5. Period!OnItsDay(prev, d) = Period!Predicted(SampleOf(prev[d]), old.records, h)
      <3>1. old.records = RecordsOf(prev, early)
        BY <2>1 DEF StateOf
      <3> QED
        BY <1>3, <2>1, <2>3, <3>1, WholeCalendarKnows
    <2>6. h # None => \A p \in h : u.records[p].statistics = old.records[p].statistics
      <3> SUFFICES ASSUME h # None, NEW p \in h PROVE u.records[p] = old.records[p]
        OBVIOUS
      <3>1. p \in Usable(u.records, d)
        BY <2>3, WindowIsUsable
      <3>2. p \in calendar \ requested
        BY <1>4, <2>1, <3>1 DEF Usable
      <3> QED
        BY <1>4, <3>2
    <2> HIDE DEF h
    <2>7. Period!Predicted(SampleOf(new[d]), u.records, h) = Period!Predicted(SampleOf(prev[d]), old.records, h)
      BY <2>2, <2>6 DEF Period!Predicted, SampleOf
    <2> QED
      BY <2>1, <2>4, <2>5, <2>7
  <1> QED
    BY <1>6, <1>16, <1>17 DEF new, u, requested


-----------------------------------------------------------------------------
(* Periods: the inductive invariant. *)

\* The proofs of the days of a calendar, as the parents are.
ProofsOn(days) == [d \in days |-> [features |-> source[d].feature, targets |-> source[d].target,
                                   availability |-> source[d].at]]

IsState(state) == state = [records |-> state.records, fit_windows |-> state.fit_windows,
                           repaired |-> state.repaired]

\* A result holds the statistics of its own proofs, and the prediction of every session.
PeriodResult(r) ==
    /\ r.calendar # {} /\ r.calendar \subseteq 1 .. Len(source)
    /\ r.proofs = [d \in r.calendar |-> r.proofs[d]] /\ Dated(r.proofs)
    /\ StateOf(r.state, r.proofs) /\ IsState(r.state) /\ r.state.repaired = {}
    /\ r.rows = [d \in r.calendar |-> Period!OnItsDay(r.proofs, d)]

\* The result that a key continues has the prediction of a day.
Held(key, d) ==
    \E p \in Period!Results : /\ p.key \in key.previous /\ d \in p.calendar
                              /\ p.rows[d] = Period!OnItsDay(ProofsOn(key.calendar), d)

\* Statistics of the parents as they are; what they do not repair is held.
PeriodStatistics(key, state) ==
    /\ key.calendar # {} /\ key.calendar \subseteq 1 .. Len(source)
    /\ IsState(state) /\ StateOf(state, ProofsOn(key.calendar)) /\ state.repaired \subseteq key.calendar
    /\ \A d \in key.calendar \ state.repaired : Held(key, d)

\* A delta has the predictions that the statistics of its phase repair.
PeriodDelta(key, delta) ==
    LET statistics == [key EXCEPT !.role = "statistics"] IN
    /\ key.calendar \subseteq 1 .. Len(source) /\ statistics \in DOMAIN rows
    /\ \A d \in rows[statistics].state.repaired : delta[d] = Period!OnItsDay(ProofsOn(key.calendar), d)

PeriodRow(key, r) ==
    /\ key.version \in Nat /\ key.version <= version
    /\ key.role = "complete" => r.key = key /\ PeriodResult(r)
    /\ key.role = "statistics" /\ key.version = version => PeriodStatistics(key, r.state)
    /\ key.role = "prediction_delta" /\ key.version = version => PeriodDelta(key, r.rows)

PeriodRows == \A key \in DOMAIN rows : PeriodRow(key, rows[key])

\* What an execution in progress has found, phase by phase.
Continuing(w) ==
    /\ w = [step |-> w.step, key |-> w.key, previous |-> w.previous,
            requested |-> w.requested, state |-> w.state]
    /\ calendar # {} /\ w.key = Period!Key(version, calendar)
    /\ w.previous # None => /\ w.previous \in Period!Results
                            /\ Period!Max(w.previous.calendar) <= Period!Max(calendar)

Phase(w) == Period!StatisticsKey(w.key, w.previous)
Delta(w) == Period!DeltaKey(w.key, w.previous)

ToFit(w) ==
    /\ w.step = "statistics"
    /\ w.state = IF w.previous = None THEN None ELSE w.previous.state
    /\ w.requested = Period!PeriodWork(w.state, calendar, Period!Changes(w.previous))

ToPredict(w) == w.step = "predict" /\ Phase(w) \in DOMAIN rows /\ rows[Phase(w)].state = w.state

ToCompose(w) ==
    /\ w.step = "compose" /\ PeriodStatistics(Phase(w), w.state)
    /\ w.state.repaired # {} =>
          /\ Delta(w) \in DOMAIN rows
          /\ \A d \in w.state.repaired : rows[Delta(w)].rows[d] = Period!OnItsDay(ProofsOn(calendar), d)

PeriodExecution(w) ==
    Continuing(w) /\ (ToFit(w) \/ ToPredict(w) \/ ToCompose(w) \/ w.step = "complete")

PeriodParents ==
    /\ WindowsHaveLength /\ \A cell \in scope.cells : cell.delay \in Nat
    /\ \E S : source \in Seq(S) /\ \A s \in S : s.at \in Nat \ {0}
    /\ CalendarKnown /\ version \in Nat

PeriodInv ==
    /\ PeriodParents /\ PeriodRows
    /\ work.step = "idle" \/ PeriodExecution(work)

-----------------------------------------------------------------------------
(* Periods: what steps leave alone. *)

\* What a day knows depends on the length of windows only.
LEMMA PeriodMeaningStays ==
    ASSUME scope' = scope
    PROVE  /\ \A proofs, d : Period!OnItsDay(proofs, d)' = Period!OnItsDay(proofs, d)
           /\ \A state, proofs : StateOf(state, proofs)' = StateOf(state, proofs)
  <1>1. \A periods, d : Period!AvailableHistory(periods, d)' = Period!AvailableHistory(periods, d)
    BY DEF Period!AvailableHistory
  <1>2. \A proofs, d : Period!OnItsDay(proofs, d)' = Period!OnItsDay(proofs, d)
    BY <1>1 DEF Period!OnItsDay
  <1>3. \A state, proofs : StateOf(state, proofs)' = StateOf(state, proofs)
    BY <1>1 DEF StateOf
  <1> QED
    BY <1>2, <1>3

\* Proofs of numbered days that were observed.
LEMMA ProofsAreDated ==
    ASSUME PeriodParents, NEW days, days \subseteq 1 .. Len(source)
    PROVE  /\ DOMAIN ProofsOn(days) = days /\ Dated(ProofsOn(days))
           /\ \A d \in days : SampleOf(ProofsOn(days)[d]).feature = source[d].feature
  <1>1. PICK S : source \in Seq(S) /\ \A s \in S : s.at \in Nat \ {0}
    BY DEF PeriodParents
  <1>2. \A d \in days : source[d] \in S /\ d \in Nat \ {0}
    BY <1>1, ElementOfSeq DEF PeriodParents, CalendarKnown
  <1> QED
    BY <1>1, <1>2 DEF ProofsOn, Dated, SampleOf

LEMMA ProofsAreOfCalendar == Period!Proofs = ProofsOn(calendar)
  BY DEF Period!Proofs, ProofsOn

\* The keys of the phases of an execution.
LEMMA PhaseKeys ==
    ASSUME NEW v, NEW days, NEW previous
    PROVE  LET key == Period!Key(v, days)
               phase == Period!StatisticsKey(key, previous)
               delta == Period!DeltaKey(key, previous)
           IN  /\ key.role = "complete" /\ key.version = v /\ key.calendar = days
               /\ phase.role = "statistics" /\ phase.version = v /\ phase.calendar = days
               /\ delta.role = "prediction_delta" /\ delta.version = v /\ delta.calendar = days
               /\ phase.previous = (IF previous = None THEN {} ELSE {previous.key})
  BY DEF Period!Key, Period!StatisticsKey, Period!DeltaKey

LEMMA StatisticsOfDelta ==
    ASSUME NEW v, NEW days, NEW previous
    PROVE  [Period!DeltaKey(Period!Key(v, days), previous) EXCEPT !.role = "statistics"]
               = Period!StatisticsKey(Period!Key(v, days), previous)
  BY DEF Period!Key, Period!StatisticsKey, Period!DeltaKey

\* A publication adds a row, if there is none yet.
LEMMA PublishAdds ==
    ASSUME NEW key, NEW result, Period!Publish(key, result)
    PROVE  /\ DOMAIN rows' = DOMAIN rows \cup {key}
           /\ \A k \in DOMAIN rows : rows'[k] = rows[k]
           /\ key \notin DOMAIN rows => rows'[key] = result
  BY DEF Period!Publish, Period!Published

\* Results are rows of keys of results.
LEMMA ResultsAreRows ==
    /\ \A r : r \in Period!Results <=> \E k \in DOMAIN rows : k.role = "complete" /\ r = rows[k]
    /\ PeriodRows => \A r \in Period!Results : r.key \in DOMAIN rows /\ rows[r.key] = r /\ PeriodResult(r)
  <1>1. \A r : r \in Period!Results <=> \E k \in DOMAIN rows : k.role = "complete" /\ r = rows[k]
    BY DEF Period!Results
  <1> QED
    BY <1>1 DEF PeriodRows, PeriodRow

\* Rows that stay while others are added, days are observed, or a version ends.
Growing ==
    /\ scope' = scope /\ DOMAIN rows \subseteq DOMAIN rows' /\ \A k \in DOMAIN rows : rows'[k] = rows[k]
    /\ Len(source) \in Nat /\ Len(source') \in Nat /\ Len(source) <= Len(source') /\ version \in Nat
    /\ \/ version' = version /\ \A d \in 1 .. Len(source) : source'[d] = source[d]
       \/ version' = version + 1

LEMMA GrowingKeeps ==
    ASSUME Growing
    PROVE  /\ Period!Results \subseteq Period!Results'
           /\ \A r : PeriodResult(r) => PeriodResult(r)'
           /\ version' = version =>
                 /\ \A days \in SUBSET (1 .. Len(source)) : ProofsOn(days)' = ProofsOn(days)
                 /\ \A key, state : PeriodStatistics(key, state) => PeriodStatistics(key, state)'
                 /\ \A key, delta : PeriodDelta(key, delta) => PeriodDelta(key, delta)'
           /\ \A key \in DOMAIN rows : PeriodRow(key, rows[key]) => PeriodRow(key, rows[key])'
  <1>1. Period!Results \subseteq Period!Results'
    <2> SUFFICES ASSUME NEW r \in Period!Results PROVE r \in Period!Results'
      OBVIOUS
    <2>1. PICK k \in DOMAIN rows : k.role = "complete" /\ r = rows[k]
      BY DEF Period!Results
    <2>2. k \in DOMAIN rows' /\ r = rows'[k]
      BY <2>1 DEF Growing
    <2> QED
      BY <2>1, <2>2 DEF Period!Results
  <1>2. 1 .. Len(source) \subseteq 1 .. Len(source')
    BY DEF Growing
  <1>3. /\ \A proofs, d : Period!OnItsDay(proofs, d)' = Period!OnItsDay(proofs, d)
        /\ \A state, proofs : StateOf(state, proofs)' = StateOf(state, proofs)
    BY PeriodMeaningStays DEF Growing
  <1>4. ASSUME NEW r, PeriodResult(r) PROVE PeriodResult(r)'
    <2>1. r.rows = [d \in r.calendar |-> Period!OnItsDay(r.proofs, d)']
      BY <1>3, <1>4 DEF PeriodResult
    <2> QED
      BY <1>2, <1>3, <1>4, <2>1 DEF PeriodResult
  <1>5. ASSUME version' = version
        PROVE  /\ \A days \in SUBSET (1 .. Len(source)) : ProofsOn(days)' = ProofsOn(days)
               /\ \A key, state : PeriodStatistics(key, state) => PeriodStatistics(key, state)'
               /\ \A key, delta : PeriodDelta(key, delta) => PeriodDelta(key, delta)'
    <2>1. \A d \in 1 .. Len(source) : source'[d] = source[d]
      BY <1>5 DEF Growing
    <2>2. ASSUME NEW days \in SUBSET (1 .. Len(source)) PROVE ProofsOn(days)' = ProofsOn(days)
      BY <2>1 DEF ProofsOn
    <2>3. ASSUME NEW key, key.calendar \subseteq 1 .. Len(source), NEW d, Held(key, d) PROVE Held(key, d)'
      <3>1. PICK p \in Period!Results :
              /\ p.key \in key.previous /\ d \in p.calendar
              /\ p.rows[d] = Period!OnItsDay(ProofsOn(key.calendar), d)
        BY <2>3 DEF Held
      <3>2. PICK proofs : proofs = ProofsOn(key.calendar)
        OBVIOUS
      <3>3. proofs = ProofsOn(key.calendar)' /\ p \in Period!Results'
        BY <1>1, <2>2, <2>3, <3>2
      <3>4. p.rows[d] = Period!OnItsDay(proofs, d)'
        BY <1>3, <3>1, <3>2
      <3> QED
        BY <3>1, <3>3, <3>4 DEF Held
    <2>4. ASSUME NEW key, NEW state, PeriodStatistics(key, state) PROVE PeriodStatistics(key, state)'
      <3>1. PICK proofs : proofs = ProofsOn(key.calendar)
        OBVIOUS
      <3>2. proofs = ProofsOn(key.calendar)' /\ StateOf(state, proofs)'
        BY <1>3, <2>2, <2>4, <3>1 DEF PeriodStatistics
      <3>3. \A d \in key.calendar \ state.repaired : Held(key, d)'
        BY <2>3, <2>4 DEF PeriodStatistics
      <3> QED
        BY <1>2, <2>4, <3>2, <3>3 DEF PeriodStatistics
    <2>5. ASSUME NEW key, NEW delta, PeriodDelta(key, delta) PROVE PeriodDelta(key, delta)'
      <3> DEFINE statistics == [key EXCEPT !.role = "statistics"]
      <3>1. PICK proofs : proofs = ProofsOn(key.calendar)
        OBVIOUS
      <3>2. PICK repaired : repaired = rows[statistics].state.repaired
        OBVIOUS
      <3>3. /\ key.calendar \subseteq 1 .. Len(source) /\ statistics \in DOMAIN rows
            /\ \A d \in repaired : delta[d] = Period!OnItsDay(proofs, d)
        BY <2>5, <3>1, <3>2 DEF PeriodDelta
      <3>4. proofs = ProofsOn(key.calendar)' /\ statistics \in DOMAIN rows' /\ rows'[statistics] = rows[statistics]
        BY <2>2, <3>1, <3>3 DEF Growing
      <3>5. \A d \in repaired : delta[d] = Period!OnItsDay(proofs, d)'
        BY <1>3, <3>3
      <3> QED
        BY <1>2, <3>2, <3>3, <3>4, <3>5 DEF PeriodDelta
    <2> QED
      BY <2>2, <2>4, <2>5
  <1>6. ASSUME NEW key \in DOMAIN rows, PeriodRow(key, rows[key]) PROVE PeriodRow(key, rows[key])'
    <2>1. PICK r : r = rows[key]
      OBVIOUS
    <2>2. rows'[key] = r /\ PeriodRow(key, r)
      BY <1>6, <2>1 DEF Growing
    <2>3. key.version \in Nat /\ key.version <= version' /\ (key.version = version' => version' = version)
      BY <2>2 DEF PeriodRow, Growing
    <2>4. /\ key.role = "complete" => r.key = key /\ PeriodResult(r)'
          /\ key.role = "statistics" /\ key.version = version' => PeriodStatistics(key, r.state)'
          /\ key.role = "prediction_delta" /\ key.version = version' => PeriodDelta(key, r.rows)'
      BY <1>4, <1>5, <2>2, <2>3 DEF PeriodRow
    <2>5. PeriodRow(key, r)'
      BY <2>3, <2>4 DEF PeriodRow
    <2> QED
      BY <2>2, <2>5
  <1> QED
    BY <1>1, <1>4, <1>5, <1>6

\* A step that publishes one row.
LEMMA PublishGrows ==
    ASSUME PeriodInv, UNCHANGED <<scope, source, calendar, version>>, NEW key, NEW result,
           Period!Publish(key, result)
    PROVE  Growing
  <1>1. DOMAIN rows' = DOMAIN rows \cup {key} /\ \A k \in DOMAIN rows : rows'[k] = rows[k]
    BY PublishAdds
  <1> QED
    BY <1>1 DEF Growing, PeriodInv, PeriodParents, CalendarKnown

LEMMA PublishKeeps ==
    ASSUME PeriodInv, UNCHANGED <<scope, source, calendar, version>>, NEW key, NEW result,
           Period!Publish(key, result), key \notin DOMAIN rows => PeriodRow(key, result)'
    PROVE  PeriodParents' /\ PeriodRows'
  <1>1. /\ DOMAIN rows' = DOMAIN rows \cup {key} /\ \A k \in DOMAIN rows : rows'[k] = rows[k]
        /\ key \notin DOMAIN rows => rows'[key] = result
    BY PublishAdds
  <1>2. Growing
    BY PublishGrows
  <1>3. PeriodParents'
    BY DEF PeriodInv, PeriodParents, CalendarKnown, WindowsHaveLength
  <1>4. ASSUME NEW k \in DOMAIN rows' PROVE PeriodRow(k, rows[k])'
    <2>1. CASE k \in DOMAIN rows
      BY <1>2, <2>1, GrowingKeeps DEF PeriodInv, PeriodRows
    <2>2. CASE k \notin DOMAIN rows
      <3>1. k = key /\ rows'[k] = result /\ PeriodRow(key, result)'
        BY <1>1, <2>2
      <3> QED
        BY <3>1
    <2> QED
      BY <2>1, <2>2
  <1> QED
    BY <1>2, <1>3, <1>4 DEF PeriodRows

\* A step that leaves rows as they are, and ends or begins no execution other than by work.
LEMMA ParentsKeep ==
    ASSUME PeriodInv, Growing, rows' = rows, PeriodParents', work'.step = "idle"
    PROVE  PeriodInv'
  <1>1. ASSUME NEW k \in DOMAIN rows' PROVE PeriodRow(k, rows[k])'
    BY GrowingKeeps DEF PeriodInv, PeriodRows
  <1> QED
    BY <1>1 DEF PeriodInv, PeriodRows

LEMMA EndKeeps ==
    ASSUME PeriodInv, Period!Complete \/ Period!Interrupt
    PROVE  PeriodInv'
  <1>1. UNCHANGED <<scope, source, calendar, version, rows>> /\ work' = Period!Idle
    BY DEF Period!Complete, Period!Interrupt
  <1>2. Growing /\ PeriodParents'
    BY <1>1 DEF Growing, PeriodInv, PeriodParents, CalendarKnown, WindowsHaveLength
  <1>3. work'.step = "idle"
    BY <1>1 DEF Period!Idle
  <1> QED
    BY <1>1, <1>2, <1>3, ParentsKeep

LEMMA ObserveKeepsPeriods ==
    ASSUME PeriodInv, NEW cell \in scope.cells, Period!Observe(cell)
    PROVE  PeriodInv'
  <1> DEFINE n == Len(source) + 1
             sample == Period!Sample(n, cell)
  <1>1. /\ UNCHANGED <<scope, version, rows, work>> /\ work.step = "idle"
        /\ source' = Append(source, sample) /\ calendar' = calendar \cup {n}
    BY DEF Period!Observe, Period!At
  <1>2. PICK S : source \in Seq(S) /\ \A s \in S : s.at \in Nat \ {0}
    BY DEF PeriodInv, PeriodParents
  <1>3. Len(source) \in Nat /\ n \in Nat /\ calendar \subseteq 1 .. Len(source)
    BY DEF PeriodInv, PeriodParents, CalendarKnown
  <1>4. sample.at \in Nat \ {0}
    BY <1>3 DEF Period!Sample, PeriodInv, PeriodParents
  <1> HIDE DEF sample
  <1> DEFINE T == S \cup {sample}
  <1>5. source \in Seq(T)
    BY <1>2, SeqDef, LenProperties
  <1>6. /\ source' \in Seq(T) /\ Len(source') = n
        /\ \A d \in 1 .. Len(source) : source'[d] = source[d]
    BY <1>1, <1>5, AppendProperties
  <1>7. \A s \in T : s.at \in Nat \ {0}
    BY <1>2, <1>4
  <1> HIDE DEF T
  <1>8. CalendarKnown'
    <2>1. \A d \in calendar \cup {n} : d \in Nat /\ 1 <= d /\ d <= n
      BY <1>3
    <2>2. n \in Nat /\ calendar' = calendar \cup {n}
      BY <1>1, <1>3
    <2> HIDE DEF n
    <2>3. calendar' \subseteq 1 .. n
      BY <2>1, <2>2
    <2> QED
      BY <1>6, <2>2, <2>3 DEF CalendarKnown
  <1>9. PeriodParents'
    BY <1>1, <1>6, <1>7, <1>8 DEF PeriodParents, WindowsHaveLength, PeriodInv
  <1>10. Growing
    BY <1>1, <1>3, <1>6 DEF Growing, PeriodInv, PeriodParents
  <1> QED
    BY <1>1, <1>9, <1>10, ParentsKeep

LEMMA RestateKeepsPeriods ==
    ASSUME PeriodInv, NEW day \in DOMAIN source, NEW cell \in scope.cells, Period!Restate(day, cell)
    PROVE  PeriodInv'
  <1> DEFINE sample == Period!Sample(day, cell)
  <1>1. /\ UNCHANGED <<scope, calendar, rows, work>> /\ work.step = "idle"
        /\ source' = [source EXCEPT ![day] = sample] /\ version' = version + 1
    BY DEF Period!Restate, Period!At
  <1>2. PICK S : source \in Seq(S) /\ \A s \in S : s.at \in Nat \ {0}
    BY DEF PeriodInv, PeriodParents
  <1>3. Len(source) \in Nat /\ DOMAIN source = 1 .. Len(source) /\ day \in 1 .. Len(source)
    BY <1>2, LenProperties
  <1>4. sample.at \in Nat \ {0}
    BY <1>3 DEF Period!Sample, PeriodInv, PeriodParents
  <1> HIDE DEF sample
  <1> DEFINE T == S \cup {sample}
  <1>5. source \in Seq(T)
    BY <1>2, SeqDef, LenProperties
  <1>6. source' \in Seq(T) /\ Len(source') = Len(source)
    BY <1>1, <1>3, <1>5, ExceptSeq
  <1>7. \A s \in T : s.at \in Nat \ {0}
    BY <1>2, <1>4
  <1> HIDE DEF T
  <1>8. PeriodParents'
    BY <1>1, <1>6, <1>7 DEF PeriodParents, WindowsHaveLength, PeriodInv, CalendarKnown
  <1>9. Growing
    BY <1>1, <1>3, <1>6 DEF Growing, PeriodInv, PeriodParents
  <1> QED
    BY <1>1, <1>8, <1>9, ParentsKeep

LEMMA ReviseKeepsPeriods ==
    ASSUME PeriodInv, NEW day \in DOMAIN source, Period!Revise(day)
    PROVE  PeriodInv'
  <1>1. /\ UNCHANGED <<scope, source, rows, work>> /\ work.step = "idle"
        /\ calendar' \subseteq calendar \cup {day} /\ version' = version + 1
    BY DEF Period!Revise, Period!At, Period!SymDiff
  <1>2. day \in 1 .. Len(source)
    BY LenProperties DEF PeriodInv, PeriodParents
  <1>3. PeriodParents' /\ Growing
    BY <1>1, <1>2 DEF PeriodParents, WindowsHaveLength, PeriodInv, CalendarKnown, Growing
  <1> QED
    BY <1>1, <1>3, ParentsKeep

-----------------------------------------------------------------------------
(* Periods: the steps of an execution. *)

LEMMA ChangesAreDifferences ==
    ASSUME NEW previous
    PROVE  /\ DOMAIN Period!Changes(previous) \subseteq calendar
           /\ previous # None => ChangesBetween(Period!Changes(previous), previous.proofs, Period!Proofs)
  <1> DEFINE new == Period!Proofs
             old(d) == IF previous # None /\ d \in DOMAIN previous.proofs THEN previous.proofs[d] ELSE None
             changes == Period!Changes(previous)
  <1>1. changes = [d \in {e \in calendar : new[e] # old(e)} |-> Period!Roles(new[d], old(d))]
    BY DEF Period!Changes
  <1>2. DOMAIN new = calendar /\ \A d \in calendar : "features" \in DOMAIN new[d]
    BY DEF Period!Proofs
  <1> HIDE DEF changes, new
  <1>3. ASSUME previous # None, NEW d \in DOMAIN previous.proofs \cap DOMAIN new
        PROVE  /\ d \notin DOMAIN changes => new[d] = previous.proofs[d]
               /\ d \in DOMAIN changes /\ "features" \notin changes[d] =>
                     new[d].features = previous.proofs[d].features
    <2>1. old(d) = previous.proofs[d] /\ d \in calendar
      BY <1>2, <1>3
    <2>2. CASE d \notin DOMAIN changes
      BY <1>1, <2>1, <2>2
    <2>3. CASE d \in DOMAIN changes
      <3>1. changes[d] = Period!Roles(new[d], previous.proofs[d])
        BY <1>1, <2>1, <2>3
      <3> QED
        BY <1>2, <2>1, <2>3, <3>1 DEF Period!Roles
    <2> QED
      BY <2>2, <2>3
  <1> QED
    BY <1>1, <1>3 DEF changes, new, ChangesBetween

LEMMA CandidatesEndBefore ==
    ASSUME NEW r \in Period!Candidates
    PROVE  r \in Period!Results /\ Period!Max(r.calendar) <= Period!Max(calendar)
  BY DEF Period!Candidates

\* What an execution is depends on the parents and the rows.
LEMMA PeriodExecutionStays ==
    ASSUME NEW w, PeriodExecution(w), UNCHANGED <<scope, source, calendar, version, rows>>
    PROVE  PeriodExecution(w)'
  <1>1. /\ \A proofs, d : Period!OnItsDay(proofs, d)' = Period!OnItsDay(proofs, d)
        /\ \A state, proofs : StateOf(state, proofs)' = StateOf(state, proofs)
    BY PeriodMeaningStays
  <1>2. Period!Proofs' = Period!Proofs /\ Period!Results' = Period!Results
    BY DEF Period!Proofs, Period!Results
  <1>3. Period!Changes(w.previous)' = Period!Changes(w.previous)
    BY <1>2 DEF Period!Changes
  <1>4. \A key : ProofsOn(key.calendar)' = ProofsOn(key.calendar)
    BY DEF ProofsOn
  <1>5. ASSUME NEW key, NEW d PROVE Held(key, d)' <=> Held(key, d)
    <2>1. PICK proofs : proofs = ProofsOn(key.calendar)
      OBVIOUS
    <2>2. proofs = ProofsOn(key.calendar)'
      BY <1>4, <2>1
    <2> QED
      BY <1>1, <1>2, <2>1, <2>2 DEF Held
  <1>6. ASSUME NEW key, NEW state PROVE PeriodStatistics(key, state)' <=> PeriodStatistics(key, state)
    <2>1. PICK proofs : proofs = ProofsOn(key.calendar)
      OBVIOUS
    <2>2. proofs = ProofsOn(key.calendar)'
      BY <1>4, <2>1
    <2> QED
      BY <1>1, <1>5, <2>1, <2>2 DEF PeriodStatistics
  <1>7. Continuing(w)'
    BY <1>2 DEF PeriodExecution, Continuing
  <1>8. ToFit(w) => ToFit(w)'
    <2>1. PICK changes : changes = Period!Changes(w.previous)
      OBVIOUS
    <2>2. changes = Period!Changes(w.previous)'
      BY <1>3, <2>1
    <2> QED
      BY <2>1, <2>2 DEF ToFit
  <1>9. ToPredict(w) => ToPredict(w)'
    BY DEF ToPredict, Phase
  <1>10. ToCompose(w) => ToCompose(w)'
    <2>1. PICK proofs : proofs = ProofsOn(calendar)
      OBVIOUS
    <2>2. proofs = ProofsOn(calendar)'
      BY <2>1 DEF ProofsOn
    <2>3. PICK phase : phase = Phase(w)
      OBVIOUS
    <2>4. PICK delta : delta = Delta(w)
      OBVIOUS
    <2>5. phase = Phase(w)' /\ delta = Delta(w)'
      BY <2>3, <2>4 DEF Phase, Delta
    <2>6. PeriodStatistics(phase, w.state)' <=> PeriodStatistics(phase, w.state)
      BY <1>6
    <2>7. \A d : Period!OnItsDay(proofs, d)' = Period!OnItsDay(proofs, d)
      BY <1>1
    <2> QED
      BY <2>1, <2>2, <2>3, <2>4, <2>5, <2>6, <2>7 DEF ToCompose
  <1> QED
    BY <1>7, <1>8, <1>9, <1>10 DEF PeriodExecution

LEMMA StartKeeps == ASSUME PeriodInv, Period!Start PROVE PeriodInv'
  <1>1. UNCHANGED <<scope, source, calendar, version, rows>> /\ calendar # {}
    BY DEF Period!Start
  <1>2. PICK previous \in (IF Period!Candidates = {} THEN {None} ELSE Period!Candidates) :
          LET old == IF previous = None THEN None ELSE previous.state
              requested == Period!PeriodWork(old, calendar, Period!Changes(previous))
          IN  work' = [step |-> IF requested = {} /\ previous.calendar = calendar
                                THEN "compose" ELSE "statistics",
                       key |-> Period!Key(version, calendar), previous |-> previous,
                       requested |-> requested,
                       state |-> IF old = None THEN None ELSE [old EXCEPT !.repaired = {}]]
    BY DEF Period!Start
  <1> DEFINE old == IF previous = None THEN None ELSE previous.state
             requested == Period!PeriodWork(old, calendar, Period!Changes(previous))
  <1>3. PICK w : w = work'
    OBVIOUS
  <1>4. previous # None => /\ previous \in Period!Results
                           /\ Period!Max(previous.calendar) <= Period!Max(calendar)
                           /\ PeriodResult(previous)
    BY <1>2, CandidatesEndBefore, ResultsAreRows DEF PeriodInv
  <1>5. (IF old = None THEN None ELSE [old EXCEPT !.repaired = {}]) = old
    BY <1>4 DEF PeriodResult, IsState
  <1>6. w = [step |-> IF requested = {} /\ previous.calendar = calendar THEN "compose" ELSE "statistics",
             key |-> Period!Key(version, calendar), previous |-> previous,
             requested |-> requested, state |-> old]
    BY <1>2, <1>3, <1>5
  <1>7. ASSUME ~ (requested = {} /\ previous.calendar = calendar) PROVE PeriodExecution(w)
    <2>1. w = [step |-> "statistics", key |-> Period!Key(version, calendar), previous |-> previous,
               requested |-> requested, state |-> old]
      BY <1>6, <1>7
    <2> HIDE DEF requested
    <2>2. /\ w.step = "statistics" /\ w.key = Period!Key(version, calendar) /\ w.previous = previous
          /\ w.requested = requested /\ w.state = old
          /\ w = [step |-> w.step, key |-> w.key, previous |-> w.previous,
                  requested |-> w.requested, state |-> w.state]
      BY <2>1
    <2> QED
      BY <1>1, <1>4, <2>2 DEF PeriodExecution, Continuing, ToFit, requested
  <1>8. ASSUME requested = {} /\ previous.calendar = calendar PROVE PeriodExecution(w)
    <2> DEFINE phase == Period!StatisticsKey(w.key, w.previous)
    <2>1. w = [step |-> "compose", key |-> Period!Key(version, calendar), previous |-> previous,
               requested |-> {}, state |-> old]
      BY <1>6, <1>8
    <2>2. old # None /\ previous # None
      BY <1>1, <1>8 DEF Period!PeriodWork
    <2>3. DOMAIN Period!Changes(previous) = {}
      BY <1>8, <2>2 DEF Period!PeriodWork
    <2>4. Period!Proofs = previous.proofs
      <3>1. DOMAIN Period!Proofs = calendar /\ DOMAIN previous.proofs = calendar
        BY <1>4, <1>8, <2>2 DEF PeriodResult, Period!Proofs
      <3>2. \A d \in calendar : Period!Proofs[d] = previous.proofs[d]
        BY <2>2, <2>3, <3>1, ChangesAreDifferences DEF ChangesBetween
      <3>4. previous.proofs = [d \in calendar |-> previous.proofs[d]]
        BY <1>4, <1>8, <2>2 DEF PeriodResult
      <3> QED
        BY <3>1, <3>2, <3>4 DEF Period!Proofs
    <2>5. /\ w.step = "compose" /\ w.key = Period!Key(version, calendar) /\ w.previous = previous
          /\ w.requested = {} /\ w.state = previous.state
          /\ w = [step |-> w.step, key |-> w.key, previous |-> w.previous,
                  requested |-> w.requested, state |-> w.state]
      BY <2>1, <2>2
    <2>6. phase.calendar = calendar /\ phase.previous = {previous.key}
      <3>1. phase = Period!StatisticsKey(Period!Key(version, calendar), previous)
        BY <2>5
      <3> HIDE DEF phase
      <3> QED
        BY <2>2, <3>1 DEF Period!StatisticsKey, Period!Key
    <2>7. /\ IsState(w.state) /\ StateOf(w.state, ProofsOn(calendar)) /\ w.state.repaired = {}
          /\ calendar \subseteq 1 .. Len(source)
          /\ \A d \in calendar : previous.rows[d] = Period!OnItsDay(ProofsOn(calendar), d)
      BY <1>4, <1>8, <2>2, <2>4, <2>5, ProofsAreOfCalendar DEF PeriodResult
    <2>8. PeriodStatistics(phase, w.state)
      <3> HIDE DEF phase
      <3>1. \A d \in calendar : Held(phase, d)
        BY <1>4, <1>8, <2>2, <2>6, <2>7 DEF Held
      <3> QED
        BY <1>1, <2>6, <2>7, <3>1 DEF PeriodStatistics
    <2> QED
      BY <1>1, <1>4, <2>2, <2>5, <2>7, <2>8 DEF PeriodExecution, Continuing, ToCompose, Phase
  <1> HIDE DEF requested, old
  <1>9. PeriodExecution(w)
    BY <1>7, <1>8
  <1>10. PeriodExecution(w)'
    BY <1>1, <1>9, PeriodExecutionStays
  <1>11. Growing /\ PeriodParents'
    BY <1>1 DEF Growing, PeriodInv, PeriodParents, CalendarKnown, WindowsHaveLength
  <1>12. ASSUME NEW k \in DOMAIN rows' PROVE PeriodRow(k, rows[k])'
    BY <1>1, <1>11, GrowingKeeps DEF PeriodInv, PeriodRows
  <1>13. PeriodExecution(work)'
    BY <1>3, <1>10
  <1> QED
    BY <1>11, <1>12, <1>13 DEF PeriodInv, PeriodRows

\* The phases of a step that takes up an execution.
LEMMA PhasesAgree ==
    ASSUME NEW w, Continuing(w)
    PROVE  /\ w.key.role = "complete" /\ w.key.version = version /\ w.key.calendar = calendar
           /\ Phase(w).role = "statistics" /\ Phase(w).version = version /\ Phase(w).calendar = calendar
           /\ Phase(w).previous = IF w.previous = None THEN {} ELSE {w.previous.key}
           /\ Delta(w).role = "prediction_delta" /\ Delta(w).version = version
           /\ Delta(w).calendar = calendar
           /\ [Delta(w) EXCEPT !.role = "statistics"] = Phase(w)
  <1>1. w.key = Period!Key(version, calendar)
    BY DEF Continuing
  <1>2. /\ w.key.role = "complete" /\ w.key.version = version /\ w.key.calendar = calendar
        /\ w.key = [role |-> "complete", version |-> version, calendar |-> calendar, previous |-> {}]
    BY <1>1 DEF Period!Key
  <1>3. Phase(w) = [role |-> "statistics", version |-> version, calendar |-> calendar,
                    previous |-> IF w.previous = None THEN {} ELSE {w.previous.key}]
    <2>1. PICK before : before = IF w.previous = None THEN {} ELSE {w.previous.key}
      OBVIOUS
    <2>2. Phase(w) = [w.key EXCEPT !.role = "statistics", !.previous = before]
      BY <2>1 DEF Phase, Period!StatisticsKey
    <2> QED
      BY <1>2, <2>1, <2>2
  <1>4. Delta(w) = [role |-> "prediction_delta", version |-> version, calendar |-> calendar,
                    previous |-> IF w.previous = None THEN {} ELSE {w.previous.key}]
    BY <1>3 DEF Delta, Phase, Period!DeltaKey
  <1> QED
    BY <1>2, <1>3, <1>4

\* The statistics that an execution fits.
LEMMA FittedStatistics ==
    ASSUME PeriodInv, NEW w, Continuing(w), ToFit(w)
    PROVE  PeriodStatistics(Phase(w), Period!Update(w.state, calendar, w.requested, Period!Changes(w.previous)))
  <1> DEFINE changes == Period!Changes(w.previous)
             u == Period!Update(w.state, calendar, w.requested, changes)
             prev == w.previous.proofs
  <1>1. w.requested = Period!PeriodWork(w.state, calendar, changes) /\ calendar # {}
    BY DEF ToFit, Continuing
  <1>2. w.state # None => w.previous # None /\ w.state = w.previous.state
    BY DEF ToFit
  <1>3. w.previous # None => /\ w.previous \in Period!Results /\ PeriodResult(w.previous)
                             /\ Period!Max(w.previous.calendar) <= Period!Max(calendar)
                             /\ w.previous.key \in DOMAIN rows
    BY ResultsAreRows DEF Continuing, PeriodInv
  <1>4. CalendarKnown /\ WindowsHaveLength /\ calendar \subseteq 1 .. Len(source)
    BY DEF PeriodInv, PeriodParents, CalendarKnown
  <1>5. Dated(Period!Proofs) /\ Period!Proofs = ProofsOn(calendar) /\ DOMAIN ProofsOn(calendar) = calendar
    BY <1>4, ProofsAreDated, ProofsAreOfCalendar DEF PeriodInv
  <1>6. w.state # None =>
            /\ Dated(prev) /\ StateOf(w.state, prev) /\ DOMAIN prev = w.previous.calendar
            /\ DOMAIN prev # {} /\ DOMAIN prev \subseteq 1 .. Len(source)
            /\ Period!Max(DOMAIN prev) <= Period!Max(calendar)
            /\ ChangesBetween(changes, prev, Period!Proofs)
            /\ w.previous.rows = [d \in w.previous.calendar |-> Period!OnItsDay(prev, d)]
    <2> SUFFICES ASSUME w.state # None
                 PROVE  /\ Dated(prev) /\ StateOf(w.state, prev) /\ DOMAIN prev = w.previous.calendar
                        /\ DOMAIN prev # {} /\ DOMAIN prev \subseteq 1 .. Len(source)
                        /\ Period!Max(DOMAIN prev) <= Period!Max(calendar)
                        /\ ChangesBetween(changes, prev, Period!Proofs)
                        /\ w.previous.rows = [d \in w.previous.calendar |-> Period!OnItsDay(prev, d)]
      OBVIOUS
    <2>1. w.previous # None /\ w.state = w.previous.state /\ PeriodResult(w.previous)
      BY <1>2, <1>3
    <2>2. DOMAIN prev = w.previous.calendar
      BY <2>1 DEF PeriodResult
    <2>3. ChangesBetween(changes, prev, Period!Proofs)
      BY <2>1, ChangesAreDifferences
    <2> QED
      BY <1>3, <2>1, <2>2, <2>3 DEF PeriodResult
  <1>7. DOMAIN changes \subseteq calendar
    BY ChangesAreDifferences
  <1> HIDE DEF changes
  <1>8. /\ StateOf(u, Period!Proofs) /\ u.repaired \subseteq calendar
        /\ \A d \in calendar \ u.repaired :
              /\ w.state # None /\ d \in DOMAIN prev
              /\ Period!OnItsDay(Period!Proofs, d) = Period!OnItsDay(prev, d)
    <2>1. PICK old, given, before : old = w.state /\ given = changes /\ before = prev
      OBVIOUS
    <2>2. u = Period!Update(old, calendar, Period!PeriodWork(old, calendar, given), given)
      BY <1>1, <2>1
    <2> HIDE DEF u, prev
    <2>3. /\ WindowsHaveLength /\ CalendarKnown /\ calendar # {} /\ Dated(Period!Proofs)
          /\ DOMAIN given \subseteq calendar
          /\ old # None => /\ Dated(before) /\ StateOf(old, before) /\ DOMAIN before # {}
                          /\ DOMAIN before \subseteq 1 .. Len(source)
                          /\ Period!Max(DOMAIN before) <= Period!Max(calendar)
                          /\ ChangesBetween(given, before, Period!Proofs)
      BY <1>1, <1>4, <1>5, <1>6, <1>7, <2>1
    <2>4. /\ StateOf(u, Period!Proofs) /\ u.repaired \subseteq calendar
          /\ \A d \in calendar \ u.repaired :
                /\ old # None /\ d \in DOMAIN before
                /\ Period!OnItsDay(Period!Proofs, d) = Period!OnItsDay(before, d)
      BY <2>2, <2>3, UpdateGives
    <2> QED
      BY <2>1, <2>4
  <1>9. IsState(u)
    BY DEF IsState, Period!Update
  <1> HIDE DEF u
  <1>10. ASSUME NEW d \in calendar \ u.repaired PROVE Held(Phase(w), d)
    <2>1. /\ w.previous # None /\ w.previous \in Period!Results /\ d \in w.previous.calendar
          /\ w.previous.key \in Phase(w).previous /\ Phase(w).calendar = calendar
      BY <1>2, <1>3, <1>6, <1>8, PhasesAgree
    <2>2. w.previous.rows[d] = Period!OnItsDay(ProofsOn(calendar), d)
      BY <1>5, <1>6, <1>8, <2>1
    <2> QED
      BY <2>1, <2>2 DEF Held
  <1>11. Phase(w).calendar = calendar
    BY PhasesAgree
  <1> QED
    BY <1>1, <1>4, <1>5, <1>8, <1>9, <1>10, <1>11 DEF PeriodStatistics, u, changes

\* An execution that goes on from the same result.
LEMMA ExecutionGoesOn ==
    ASSUME Growing, version' = version, calendar' = calendar, NEW w, Continuing(w), NEW v,
           v = [step |-> v.step, key |-> v.key, previous |-> v.previous,
                requested |-> v.requested, state |-> v.state],
           v.key = w.key, v.previous = w.previous
    PROVE  /\ Continuing(v)' /\ Phase(v) = Phase(w) /\ Delta(v) = Delta(w)
           /\ Phase(v)' = Phase(w) /\ Delta(v)' = Delta(w)
  <1>1. Period!Results \subseteq Period!Results'
    BY GrowingKeeps
  <1>2. Continuing(v)'
    BY <1>1 DEF Continuing
  <1> QED
    BY <1>2 DEF Phase, Delta

LEMMA StatisticsKeeps == ASSUME PeriodInv, Period!Statistics PROVE PeriodInv'
  <1>1. PICK w : w = work
    OBVIOUS
  <1>2. Continuing(w) /\ ToFit(w) /\ w.step = "statistics"
    BY <1>1 DEF Period!Statistics, Period!At, PeriodInv, PeriodExecution, ToPredict, ToCompose
  <1>3. PICK key : key = Phase(w)
    OBVIOUS
  <1>4. PICK state : state = IF Period!Published(key) THEN rows[key].state
                             ELSE Period!Update(w.state, calendar, w.requested, Period!Changes(w.previous))
    OBVIOUS
  <1>5. /\ UNCHANGED <<scope, source, calendar, version>>
        /\ Period!Publish(key, [key |-> key, state |-> state])
        /\ work' = [w EXCEPT !.state = state,
                             !.step = IF state.repaired = {} THEN "compose" ELSE "predict"]
    BY <1>1, <1>3, <1>4 DEF Period!Statistics, Phase
  <1>6. key.role = "statistics" /\ key.version = version /\ key.calendar = calendar
    BY <1>2, <1>3, PhasesAgree
  <1>7. PeriodStatistics(key, state)
    <2>1. CASE key \in DOMAIN rows
      <3>1. state = rows[key].state /\ PeriodRow(key, rows[key])
        BY <1>4, <2>1 DEF Period!Published, PeriodInv, PeriodRows
      <3> QED
        BY <1>6, <3>1 DEF PeriodRow
    <2>2. CASE key \notin DOMAIN rows
      BY <1>2, <1>3, <1>4, <2>2, FittedStatistics DEF Period!Published
    <2> QED
      BY <2>1, <2>2
  <1>8. PICK result : result = [key |-> key, state |-> state]
    OBVIOUS
  <1>9. Growing /\ Period!Publish(key, result) /\ result.state = state
    BY <1>5, <1>8, PublishGrows
  <1>10. PeriodStatistics(key, state)'
    BY <1>5, <1>7, <1>9, GrowingKeeps
  <1>11. PeriodRow(key, result)'
    <2>1. key.version \in Nat /\ key.version <= version' /\ key.role = "statistics"
      BY <1>5, <1>6 DEF PeriodInv, PeriodParents
    <2> QED
      BY <1>9, <1>10, <2>1 DEF PeriodRow
  <1>12. PeriodParents' /\ PeriodRows'
    BY <1>5, <1>9, <1>11, PublishKeeps
  <1>13. key \in DOMAIN rows' /\ rows'[key].state = state
    BY <1>4, <1>9, PublishAdds DEF Period!Published
  <1>14. PICK v : v = work'
    OBVIOUS
  <1>15. /\ v.step = IF state.repaired = {} THEN "compose" ELSE "predict"
         /\ v.key = w.key /\ v.previous = w.previous /\ v.state = state
         /\ v = [step |-> v.step, key |-> v.key, previous |-> v.previous,
                 requested |-> v.requested, state |-> v.state]
    <2>1. w = [step |-> w.step, key |-> w.key, previous |-> w.previous,
               requested |-> w.requested, state |-> w.state]
      BY <1>2 DEF Continuing
    <2>2. PICK step : step = IF state.repaired = {} THEN "compose" ELSE "predict"
      OBVIOUS
    <2>3. v = [step |-> step, key |-> w.key, previous |-> w.previous,
               requested |-> w.requested, state |-> state]
      BY <1>5, <1>14, <2>1, <2>2
    <2> QED
      BY <2>2, <2>3
  <1>16. Continuing(v)' /\ Phase(v)' = key
    BY <1>2, <1>3, <1>5, <1>9, <1>15, ExecutionGoesOn
  <1>17. PeriodExecution(v)'
    <2>1. CASE state.repaired = {}
      BY <1>10, <1>15, <1>16, <2>1 DEF PeriodExecution, ToCompose
    <2>2. CASE state.repaired # {}
      BY <1>13, <1>15, <1>16, <2>2 DEF PeriodExecution, ToPredict
    <2> QED
      BY <2>1, <2>2
  <1>18. PeriodExecution(work)'
    BY <1>14, <1>17
  <1> QED
    BY <1>12, <1>18 DEF PeriodInv

LEMMA PredictKeeps == ASSUME PeriodInv, Period!Predict PROVE PeriodInv'
  <1>1. PICK w : w = work
    OBVIOUS
  <1>2. Continuing(w) /\ ToPredict(w) /\ w.step = "predict"
    BY <1>1 DEF Period!Predict, Period!At, PeriodInv, PeriodExecution, ToFit, ToCompose
  <1>3. PICK phase, key : phase = Phase(w) /\ key = Delta(w)
    OBVIOUS
  <1>4. PICK state : state = w.state
    OBVIOUS
  <1>5. PICK delta : delta = [d \in state.repaired |->
                                Period!Predicted(source[d], state.records,
                                                 Period!AvailableHistory(state.records, d))]
    OBVIOUS
  <1>6. PICK result : result = [rows |-> delta]
    OBVIOUS
  <1>7. /\ UNCHANGED <<scope, source, calendar, version>>
        /\ Period!Publish(key, result) /\ work' = [w EXCEPT !.step = "compose"]
    BY <1>1, <1>3, <1>4, <1>5, <1>6 DEF Period!Predict, Delta
  <1>8. /\ phase.role = "statistics" /\ phase.version = version /\ phase.calendar = calendar
        /\ key.role = "prediction_delta" /\ key.version = version /\ key.calendar = calendar
        /\ [key EXCEPT !.role = "statistics"] = phase
    BY <1>2, <1>3, PhasesAgree
  <1>9. phase \in DOMAIN rows /\ rows[phase].state = state
    BY <1>2, <1>3, <1>4 DEF ToPredict
  <1>10. PeriodStatistics(phase, state)
    <2>1. PeriodRow(phase, rows[phase])
      BY <1>9 DEF PeriodInv, PeriodRows
    <2> QED
      BY <1>8, <1>9, <2>1 DEF PeriodRow
  <1>11. ASSUME NEW d \in state.repaired
         PROVE  delta[d] = Period!OnItsDay(ProofsOn(calendar), d)
    <2>1. PICK proofs : proofs = ProofsOn(calendar)
      OBVIOUS
    <2>2. /\ d \in calendar /\ calendar \subseteq 1 .. Len(source) /\ calendar # {}
          /\ StateOf(state, proofs)
      BY <1>8, <1>10, <2>1 DEF PeriodStatistics
    <2>3. DOMAIN proofs = calendar /\ Dated(proofs) /\ SampleOf(proofs[d]).feature = source[d].feature
      BY <2>1, <2>2, ProofsAreDated DEF PeriodInv
    <2>4. PICK end : end = Period!Max(calendar)
      OBVIOUS
    <2>5. end \in Nat /\ d <= end
      <3>1. calendar \in SUBSET Nat /\ Len(source) \in Nat /\ \A e \in calendar : e <= Len(source)
        BY <2>2 DEF PeriodInv, PeriodParents, CalendarKnown
      <3> QED
        BY <2>2, <2>4, <3>1, CalendarEnds
    <2>6. state.records = RecordsOf(proofs, end)
      BY <2>2, <2>3, <2>4 DEF StateOf
    <2>7. Period!OnItsDay(proofs, d)
              = Period!Predicted(SampleOf(proofs[d]), state.records, Period!AvailableHistory(state.records, d))
      BY <2>2, <2>3, <2>5, <2>6, WholeCalendarKnows DEF PeriodInv, PeriodParents
    <2>8. delta[d] = Period!Predicted(source[d], state.records, Period!AvailableHistory(state.records, d))
      BY <1>5
    <2>9. \A h : Period!Predicted(SampleOf(proofs[d]), state.records, h)
                     = Period!Predicted(source[d], state.records, h)
      BY <2>3 DEF Period!Predicted
    <2> QED
      BY <2>1, <2>7, <2>8, <2>9
  <1>12. Growing
    BY <1>7, PublishGrows
  <1>13. PeriodStatistics(phase, state)'
    BY <1>7, <1>10, <1>12, GrowingKeeps
  <1>14. PeriodDelta(key, delta)'
    <2>1. PeriodDelta(key, delta)
      BY <1>8, <1>9, <1>10, <1>11 DEF PeriodDelta, PeriodStatistics
    <2> QED
      BY <1>7, <1>12, <2>1, GrowingKeeps
  <1>15. PeriodRow(key, result)'
    <2>1. key.version \in Nat /\ key.version <= version' /\ key.role = "prediction_delta"
      BY <1>7, <1>8 DEF PeriodInv, PeriodParents
    <2>2. result.rows = delta
      BY <1>6
    <2> QED
      BY <1>14, <2>1, <2>2 DEF PeriodRow
  <1>16. PeriodParents' /\ PeriodRows'
    BY <1>7, <1>15, PublishKeeps
  <1>17. key \in DOMAIN rows'
    BY <1>7, PublishAdds
  <1>18. \A d \in state.repaired : rows'[key].rows[d] = Period!OnItsDay(ProofsOn(calendar), d)'
    <2>1. PICK r : r = rows'[key]
      OBVIOUS
    <2>2. PeriodRow(key, r)'
      BY <1>16, <1>17, <2>1 DEF PeriodRows
    <2>3. key.version = version' /\ key.calendar = calendar' /\ key.role = "prediction_delta"
      BY <1>7, <1>8
    <2>4. PeriodDelta(key, r.rows)'
      BY <2>2, <2>3 DEF PeriodRow
    <2>5. rows'[phase].state = state
      BY <1>9, <1>12 DEF Growing
    <2>6. \A d \in state.repaired : r.rows[d] = Period!OnItsDay(ProofsOn(key.calendar), d)'
      BY <1>8, <2>4, <2>5 DEF PeriodDelta
    <2> QED
      BY <2>1, <2>3, <2>6
  <1>19. PICK v : v = work'
    OBVIOUS
  <1>20. /\ v.step = "compose" /\ v.key = w.key /\ v.previous = w.previous /\ v.state = state
         /\ v = [step |-> v.step, key |-> v.key, previous |-> v.previous,
                 requested |-> v.requested, state |-> v.state]
    <2>1. w = [step |-> w.step, key |-> w.key, previous |-> w.previous,
               requested |-> w.requested, state |-> w.state]
      BY <1>2 DEF Continuing
    <2>2. v = [step |-> "compose", key |-> w.key, previous |-> w.previous,
               requested |-> w.requested, state |-> w.state]
      BY <1>7, <1>19, <2>1
    <2> QED
      BY <1>4, <2>2
  <1>21. Continuing(v)' /\ Phase(v)' = phase /\ Delta(v)' = key
    BY <1>2, <1>3, <1>7, <1>12, <1>20, ExecutionGoesOn
  <1>22. ToCompose(v)'
    BY <1>13, <1>17, <1>18, <1>20, <1>21 DEF ToCompose
  <1>23. PeriodExecution(work)'
    BY <1>19, <1>21, <1>22 DEF PeriodExecution
  <1> QED
    BY <1>16, <1>23 DEF PeriodInv

\* Intervals of one origin, put together: no day that has left the calendar is among them.
LEMMA PeriodComposition ==
    ASSUME NEW repaired, NEW previous, NEW delta, NEW f, f = [d \in calendar |-> f[d]],
           calendar \subseteq Nat, repaired \subseteq calendar,
           previous # None => /\ previous.calendar \subseteq Nat
                              /\ DOMAIN previous.rows = previous.calendar,
           \A d \in repaired : delta[d] = f[d],
           \A d \in calendar \ repaired :
               previous # None /\ d \in previous.calendar /\ previous.rows[d] = f[d]
    PROVE  Period!Composed(previous, repaired, delta) = f
  <1> DEFINE days == calendar \cup (IF previous = None THEN {} ELSE previous.calendar)
             origin(d) == IF d \notin calendar THEN "none"
                          ELSE IF d \in repaired THEN "delta" ELSE "previous"
             together(a, b) == \A d \in days : d >= a /\ d <= b => origin(d) = origin(a)
             covered(o, d) == \E a, b \in days :
                                a <= d /\ d <= b /\ origin(a) = o /\ together(a, b)
             fromDelta == {d \in repaired : covered("delta", d)}
             fromPrevious == IF previous = None THEN {}
                             ELSE {d \in DOMAIN previous.rows : covered("previous", d)}
  <1>1. Period!Composed(previous, repaired, delta)
            = [d \in fromDelta \cup fromPrevious |->
                 IF d \in fromDelta THEN delta[d] ELSE previous.rows[d]]
    BY DEF Period!Composed, Period!AllDays
  <1>2. days \subseteq Nat /\ calendar \subseteq days
    OBVIOUS
  <1>3. ASSUME NEW d \in days, NEW o PROVE covered(o, d) <=> origin(d) = o
    <2>1. d \in Nat /\ \A e \in days : e >= d /\ e <= d => e = d
      BY <1>2
    <2>2. together(d, d) /\ d <= d
      BY <2>1
    <2> HIDE DEF origin, days
    <2> QED
      BY <2>2
  <1> HIDE DEF covered
  <1>4. fromDelta = repaired
    BY <1>2, <1>3
  <1>5. fromPrevious = calendar \ repaired
    <2>1. previous # None => DOMAIN previous.rows \subseteq days
      OBVIOUS
    <2>2. \A d \in days : covered("previous", d) <=> d \in calendar \ repaired
      BY <1>3
    <2> QED
      BY <2>1, <2>2
  <1>6. \A d \in calendar : (IF d \in fromDelta THEN delta[d] ELSE previous.rows[d]) = f[d]
    BY <1>4
  <1>7. fromDelta \cup fromPrevious = calendar
    BY <1>4, <1>5
  <1> HIDE DEF fromDelta, fromPrevious
  <1> QED
    BY <1>1, <1>6, <1>7

LEMMA ComposeKeeps == ASSUME PeriodInv, Period!Compose PROVE PeriodInv'
  <1>1. PICK w : w = work
    OBVIOUS
  <1>2. Continuing(w) /\ ToCompose(w) /\ w.step = "compose"
    BY <1>1 DEF Period!Compose, Period!At, PeriodInv, PeriodExecution, ToFit, ToPredict
  <1>3. PICK phase, key : phase = Phase(w) /\ key = w.key
    OBVIOUS
  <1>4. PICK state : state = w.state
    OBVIOUS
  <1>5. PICK delta : delta = IF state.repaired = {} THEN <<>> ELSE rows[Delta(w)].rows
    OBVIOUS
  <1>6. PICK composed : composed = Period!Composed(w.previous, state.repaired, delta)
    OBVIOUS
  <1>7. PICK proofs, days : proofs = ProofsOn(calendar) /\ days = calendar
    OBVIOUS
  <1>8. PICK result : result = [key |-> key, calendar |-> days, proofs |-> proofs,
                                state |-> [state EXCEPT !.repaired = {}], rows |-> composed]
    OBVIOUS
  <1>9. /\ UNCHANGED <<scope, source, calendar, version>>
        /\ Period!Publish(key, result) /\ work' = [w EXCEPT !.step = "complete"]
    BY <1>1, <1>3, <1>4, <1>5, <1>6, <1>7, <1>8, ProofsAreOfCalendar DEF Period!Compose, Delta
  <1>10. /\ phase.calendar = days /\ phase.previous = (IF w.previous = None THEN {} ELSE {w.previous.key})
         /\ key.role = "complete" /\ key.version = version
    BY <1>2, <1>3, <1>7, PhasesAgree
  <1>11. /\ days # {} /\ days \subseteq 1 .. Len(source) /\ IsState(state) /\ StateOf(state, proofs)
         /\ state.repaired \subseteq days /\ \A d \in days \ state.repaired : Held(phase, d)
         /\ state.repaired # {} => \A d \in state.repaired : delta[d] = Period!OnItsDay(proofs, d)
    BY <1>2, <1>3, <1>4, <1>5, <1>7, <1>10 DEF ToCompose, PeriodStatistics
  <1>12. DOMAIN proofs = days /\ Dated(proofs) /\ proofs = [d \in days |-> proofs[d]]
    <2>1. DOMAIN proofs = days /\ Dated(proofs)
      BY <1>7, <1>11, ProofsAreDated DEF PeriodInv
    <2>2. proofs = [d \in days |-> proofs[d]]
      BY <1>7 DEF ProofsOn
    <2> QED
      BY <2>1, <2>2
  <1>13. w.previous # None => /\ w.previous \in Period!Results /\ PeriodResult(w.previous)
                              /\ rows[w.previous.key] = w.previous
    BY <1>2, ResultsAreRows DEF Continuing, PeriodInv
  <1>14. ASSUME NEW d \in days \ state.repaired
         PROVE  /\ w.previous # None /\ d \in w.previous.calendar
                /\ w.previous.rows[d] = Period!OnItsDay(proofs, d)
    <2>1. PICK p \in Period!Results :
            /\ p.key \in phase.previous /\ d \in p.calendar
            /\ p.rows[d] = Period!OnItsDay(ProofsOn(phase.calendar), d)
      BY <1>11 DEF Held
    <2>2. w.previous # None /\ p.key = w.previous.key
      BY <1>10, <2>1
    <2>3. p = w.previous
      BY <1>13, <2>2, ResultsAreRows DEF PeriodInv
    <2> QED
      BY <1>7, <1>10, <2>1, <2>2, <2>3
  <1>15. composed = [d \in days |-> Period!OnItsDay(proofs, d)]
    <2>1. PICK f : f = [d \in days |-> Period!OnItsDay(proofs, d)]
      OBVIOUS
    <2>2. PICK repaired, previous : repaired = state.repaired /\ previous = w.previous
      OBVIOUS
    <2>3. calendar \subseteq Nat
      BY <1>7, <1>11 DEF PeriodInv, PeriodParents, CalendarKnown
    <2>4. previous # None => /\ previous.calendar \subseteq Nat
                             /\ DOMAIN previous.rows = previous.calendar
      <3>1. previous # None => previous.calendar \subseteq 1 .. Len(source)
                                 /\ DOMAIN previous.rows = previous.calendar
        BY <1>13, <2>2 DEF PeriodResult
      <3> QED
        BY <3>1 DEF PeriodInv, PeriodParents, CalendarKnown
    <2>5. /\ f = [d \in calendar |-> f[d]] /\ repaired \subseteq calendar
          /\ \A d \in repaired : delta[d] = f[d]
          /\ \A d \in calendar \ repaired :
                previous # None /\ d \in previous.calendar /\ previous.rows[d] = f[d]
      BY <1>7, <1>11, <1>14, <2>1, <2>2
    <2>6. Period!Composed(previous, repaired, delta) = f
      BY <2>3, <2>4, <2>5, PeriodComposition
    <2> QED
      BY <1>6, <2>1, <2>2, <2>6
  <1>16. /\ result.key = key /\ result.calendar = days /\ result.proofs = proofs
         /\ result.state.records = state.records /\ result.state.fit_windows = state.fit_windows
         /\ result.state = [records |-> state.records, fit_windows |-> state.fit_windows, repaired |-> {}]
         /\ result.state.repaired = {} /\ result.rows = composed
    BY <1>8, <1>11 DEF IsState
  <1>17. PeriodResult(result)
    <2>1. StateOf(result.state, proofs) /\ IsState(result.state)
      BY <1>11, <1>16 DEF StateOf, IsState
    <2> QED
      BY <1>11, <1>12, <1>15, <1>16, <2>1 DEF PeriodResult
  <1>18. Growing
    BY <1>9, PublishGrows
  <1>19. PeriodResult(result)'
    BY <1>17, <1>18, GrowingKeeps
  <1>20. PeriodRow(key, result)'
    <2>1. key.version \in Nat /\ key.version <= version' /\ key.role = "complete"
      BY <1>9, <1>10 DEF PeriodInv, PeriodParents
    <2> QED
      BY <1>16, <1>19, <2>1 DEF PeriodRow
  <1>21. PeriodParents' /\ PeriodRows'
    BY <1>9, <1>20, PublishKeeps
  <1>22. PICK v : v = work'
    OBVIOUS
  <1>23. /\ v.step = "complete" /\ v.key = w.key /\ v.previous = w.previous
         /\ v = [step |-> v.step, key |-> v.key, previous |-> v.previous,
                 requested |-> v.requested, state |-> v.state]
    <2>1. w = [step |-> w.step, key |-> w.key, previous |-> w.previous,
               requested |-> w.requested, state |-> w.state]
      BY <1>2 DEF Continuing
    <2>2. v = [step |-> "complete", key |-> w.key, previous |-> w.previous,
               requested |-> w.requested, state |-> w.state]
      BY <1>9, <1>22, <2>1
    <2> QED
      BY <2>2
  <1>24. Continuing(v)'
    BY <1>2, <1>9, <1>18, <1>23, ExecutionGoesOn
  <1>25. PeriodExecution(work)'
    BY <1>22, <1>23, <1>24 DEF PeriodExecution
  <1> QED
    BY <1>21, <1>25 DEF PeriodInv

LEMMA PeriodInit == Period!Init => PeriodInv
  <1> SUFFICES ASSUME Period!Init PROVE PeriodInv
    OBVIOUS
  <1>1. /\ source = <<>> /\ calendar = {} /\ version = 0 /\ rows = <<>> /\ work = Period!Idle
        /\ scope \in PeriodScopes
    BY DEF Period!Init
  <1>2. source \in Seq({}) /\ DOMAIN rows = {} /\ Len(source) \in Nat
    BY <1>1, EmptySeq, LenProperties
  <1>3. PeriodParents
    BY <1>1, <1>2, PeriodScopesAssumption DEF PeriodParents, WindowsHaveLength, CalendarKnown
  <1> QED
    BY <1>1, <1>2, <1>3 DEF PeriodInv, PeriodRows, Period!Idle

LEMMA PeriodStep == PeriodInv /\ [Period!Next]_(Period!vars) => PeriodInv'
  <1> SUFFICES ASSUME PeriodInv, [Period!Next]_(Period!vars) PROVE PeriodInv'
    OBVIOUS
  <1>1. CASE UNCHANGED Period!vars
    <2>1. UNCHANGED <<scope, source, calendar, version, rows, work>>
      BY <1>1 DEF Period!vars
    <2>2. Growing /\ PeriodParents'
      BY <2>1 DEF Growing, PeriodInv, PeriodParents, CalendarKnown, WindowsHaveLength
    <2>3. ASSUME NEW k \in DOMAIN rows' PROVE PeriodRow(k, rows[k])'
      BY <2>1, <2>2, GrowingKeeps DEF PeriodInv, PeriodRows
    <2>4. PICK w : w = work
      OBVIOUS
    <2>5. w.step = "idle" \/ PeriodExecution(w)'
      BY <2>1, <2>4, PeriodExecutionStays DEF PeriodInv
    <2>6. work'.step = "idle" \/ PeriodExecution(work)'
      BY <2>1, <2>4, <2>5
    <2> QED
      BY <2>2, <2>3, <2>6 DEF PeriodInv, PeriodRows
  <1>2. CASE Period!Start
    BY <1>2, StartKeeps
  <1>3. CASE Period!Statistics
    BY <1>3, StatisticsKeeps
  <1>4. CASE Period!Predict
    BY <1>4, PredictKeeps
  <1>5. CASE Period!Compose
    BY <1>5, ComposeKeeps
  <1>6. CASE Period!Complete \/ Period!Interrupt
    BY <1>6, EndKeeps
  <1>7. ASSUME NEW cell \in scope.cells, Period!Observe(cell) PROVE PeriodInv'
    BY <1>7, ObserveKeepsPeriods
  <1>8. ASSUME NEW day \in DOMAIN source, Period!Revise(day) PROVE PeriodInv'
    BY <1>8, ReviseKeepsPeriods
  <1>9. ASSUME NEW day \in DOMAIN source, NEW cell \in scope.cells, Period!Restate(day, cell) PROVE PeriodInv'
    BY <1>9, RestateKeepsPeriods
  <1> QED
    BY <1>1, <1>2, <1>3, <1>4, <1>5, <1>6, <1>7, <1>8, <1>9 DEF Period!Next

\* A supervised prediction that continues the statistics of earlier results, in whatever calendar
\* they were fitted, restated, interrupted or just matured, has the prediction of every session
\* and of sessions only, and each is what was known on its own day: for any window, samples,
\* delays, calendars and number of results.
THEOREM PeriodsHold == PolicySpec => []PeriodPredictionsAreOfTheirDay
  <1> DEFINE PInv == policy = "period" => PeriodInv
  <1>1. PolicyInit => PInv
    BY PeriodInit DEF PolicyInit
  <1>2. PInv /\ [PolicyNext]_allVars => PInv'
    <2> SUFFICES ASSUME PInv, [PolicyNext]_allVars, (policy = "period")' PROVE PeriodInv'
      OBVIOUS
    <2>1. policy = "period" /\ PeriodInv
      BY DEF PolicyNext, allVars
    <2>2. [Period!Next]_(Period!vars)
      BY <2>1 DEF PolicyNext, allVars, Period!vars
    <2> QED
      BY <2>1, <2>2, PeriodStep
  <1>3. PInv => PeriodPredictionsAreOfTheirDay
    BY ResultsAreRows
       DEF PeriodPredictionsAreOfTheirDay, Period!PredictionsAreOfTheirDay, PeriodInv, PeriodResult
  <1> HIDE DEF PInv
  <1> QED
    BY <1>1, <1>2, <1>3, PTL DEF PolicySpec

-----------------------------------------------------------------------------
(* Regions: what nodes give, and which nodes come before others. *)

RegionGraph ==
    /\ Region!Nodes = 1 .. Len(scope.parents) /\ Len(scope.parents) \in Nat
    /\ \A n \in Region!Nodes : Region!Parents(n) \subseteq 0 .. n - 1
    /\ scope.canonicalSessions \in Nat \ {0}

\* The cells of a node from those of its parents.
CellsOf(f, s, changed, n) ==
    IF n = 0 THEN s
    ELSE [t \in DOMAIN s |-> Region!Apply(n, changed, [p \in Region!Parents(n) |-> f[p][t]])]

\* There are cells for the nodes up to any one: the first without would have them
\* from those of the nodes before.
LEMMA CellsExist ==
    ASSUME RegionGraph, NEW s, NEW changed
    PROVE  \E f : f = [n \in Region!Nodes \cup {0} |-> CellsOf(f, s, changed, n)]
  <1> DEFINE N == Len(scope.parents)
             Has(k) == \E f : f = [n \in 0 .. k |-> CellsOf(f, s, changed, n)]
             Without == {k \in 0 .. N : ~ Has(k)}
  <1>1. Region!Nodes \cup {0} = 0 .. N /\ N \in Nat
    BY DEF RegionGraph
  <1>2. SUFFICES ASSUME Without # {} PROVE FALSE
    <2>1. N \in 0 .. N
      BY <1>1
    <2>2. ASSUME Has(N) PROVE \E f : f = [n \in Region!Nodes \cup {0} |-> CellsOf(f, s, changed, n)]
      <3>1. PICK f : f = [n \in 0 .. N |-> CellsOf(f, s, changed, n)]
        BY <2>2
      <3>2. f = [n \in Region!Nodes \cup {0} |-> CellsOf(f, s, changed, n)]
        BY <1>1, <3>1
      <3> QED
        BY <3>2
    <2> QED
      BY <2>1, <2>2
  <1>4. PICK k \in Without : \A j \in Without : k <= j
    <2>1. Without \in SUBSET Nat
      BY <1>1
    <2> HIDE DEF Without
    <2> QED
      BY <1>2, <2>1, MinOfNumbers
  <1>5. k # 0
    <2> DEFINE e == [n \in 0 .. 0 |-> s]
    <2>1. e = [n \in 0 .. 0 |-> CellsOf(e, s, changed, n)]
      BY DEF CellsOf
    <2>2. Has(0)
      BY <2>1
    <2> QED
      BY <2>2
  <1>6. k - 1 \in 0 .. N /\ k \in 1 .. N
    BY <1>1, <1>5
  <1>7. Has(k - 1)
    BY <1>1, <1>4, <1>6
  <1>8. PICK f : f = [n \in 0 .. k - 1 |-> CellsOf(f, s, changed, n)]
    BY <1>7
  <1> DEFINE g == [n \in 0 .. k |-> IF n = k THEN CellsOf(f, s, changed, k) ELSE f[n]]
  <1>9. ASSUME NEW n \in 0 .. k PROVE CellsOf(g, s, changed, n) = CellsOf(f, s, changed, n)
    <2>1. CASE n = 0
      BY <2>1 DEF CellsOf
    <2>2. CASE n # 0
      <3>1. Region!Parents(n) \subseteq 0 .. k - 1
        BY <1>1, <1>6, <2>2 DEF RegionGraph
      <3>2. \A p \in Region!Parents(n) : g[p] = f[p]
        BY <1>6, <3>1
      <3> HIDE DEF g
      <3>3. \A t : [p \in Region!Parents(n) |-> g[p][t]] = [p \in Region!Parents(n) |-> f[p][t]]
        BY <3>2
      <3> QED
        BY <2>2, <3>3 DEF CellsOf
    <2> QED
      BY <2>1, <2>2
  <1>10. \A n \in 0 .. k - 1 : f[n] = CellsOf(f, s, changed, n)
    BY <1>8
  <1>11. g = [n \in 0 .. k |-> CellsOf(f, s, changed, n)]
    BY <1>6, <1>10
  <1> HIDE DEF g
  <1>12. g = [n \in 0 .. k |-> CellsOf(g, s, changed, n)]
    BY <1>9, <1>11
  <1>13. Has(k)
    BY <1>12
  <1> QED
    BY <1>4, <1>13

LEMMA EvaluateUnfolds ==
    ASSUME RegionGraph, NEW s, NEW changed
    PROVE  LET E == Region!Evaluate(s, changed) IN
           /\ DOMAIN E = Region!Nodes \cup {0} /\ E[0] = s
           /\ \A n \in Region!Nodes :
                 E[n] = [t \in DOMAIN s |-> Region!Apply(n, changed, [p \in Region!Parents(n) |-> E[p][t]])]
  <1> DEFINE E == Region!Evaluate(s, changed)
  <1>1. E = CHOOSE f : f = [n \in Region!Nodes \cup {0} |-> CellsOf(f, s, changed, n)]
    BY DEF Region!Evaluate, CellsOf
  <1>2. E = [n \in Region!Nodes \cup {0} |-> CellsOf(E, s, changed, n)]
    <2> HIDE DEF E
    <2> QED
      BY <1>1, CellsExist
  <1>3. 0 \notin Region!Nodes
    BY DEF RegionGraph
  <1> HIDE DEF E
  <1>4. /\ DOMAIN E = Region!Nodes \cup {0} /\ E[0] = CellsOf(E, s, changed, 0)
        /\ \A n \in Region!Nodes : E[n] = CellsOf(E, s, changed, n)
    BY <1>2
  <1> QED
    BY <1>3, <1>4 DEF CellsOf, E

\* Cells that follow from cells of the parents which are what the nodes give are what
\* the nodes give: the first that is not would follow from some that are.
Follows(f, s, changed, nodes, t) ==
    /\ \A n \in nodes : f[n][t] = Region!Apply(n, changed, [p \in Region!Parents(n) |-> f[p][t]])
    /\ \A n \in nodes : \A p \in Region!Parents(n) \ nodes : f[p][t] = Region!Evaluate(s, changed)[p][t]

LEMMA CellsAgree ==
    ASSUME RegionGraph, NEW s, NEW changed, NEW nodes, nodes \subseteq Region!Nodes, NEW t \in DOMAIN s, NEW f,
           Follows(f, s, changed, nodes, t)
    PROVE  \A n \in nodes : f[n][t] = Region!Evaluate(s, changed)[n][t]
  <1> DEFINE E == Region!Evaluate(s, changed)
             Wrong == {n \in nodes : f[n][t] # E[n][t]}
  <1>1. SUFFICES ASSUME Wrong # {} PROVE FALSE
    OBVIOUS
  <1>2. PICK n \in Wrong : \A m \in Wrong : n <= m
    <2>1. Wrong \in SUBSET Nat
      <3>1. Wrong \subseteq nodes
        OBVIOUS
      <3>2. Region!Nodes \subseteq Nat
        BY DEF RegionGraph
      <3> QED
        BY <3>1, <3>2
    <2> HIDE DEF Wrong
    <2> QED
      BY <1>1, <2>1, MinOfNumbers
  <1>3. n \in nodes /\ n \in Region!Nodes /\ n \in Nat
    BY DEF RegionGraph
  <1>4. ASSUME NEW p \in Region!Parents(n) PROVE f[p][t] = E[p][t]
    <2>1. p \in 0 .. n - 1
      BY <1>3 DEF RegionGraph
    <2>2. ~ n <= p
      BY <1>3, <2>1
    <2> QED
      BY <1>2, <1>3, <2>2 DEF Follows
  <1>5. E[n] = [u \in DOMAIN s |-> Region!Apply(n, changed, [p \in Region!Parents(n) |-> E[p][u]])]
    BY <1>3, EvaluateUnfolds
  <1>6. E[n][t] = Region!Apply(n, changed, [p \in Region!Parents(n) |-> E[p][t]])
    BY <1>5
  <1>7. [p \in Region!Parents(n) |-> E[p][t]] = [p \in Region!Parents(n) |-> f[p][t]]
    BY <1>4
  <1>8. f[n][t] = Region!Apply(n, changed, [p \in Region!Parents(n) |-> f[p][t]])
    BY <1>3 DEF Follows
  <1> HIDE DEF E
  <1> QED
    BY <1>2, <1>6, <1>7, <1>8

\* Whose change a node notices when its parents' cells are given.
LEMMA OwnChange ==
    ASSUME NEW n, NEW a, NEW b, NEW cells, n \in a <=> n \in b
    PROVE  Region!Apply(n, a, cells) = Region!Apply(n, b, cells)
  BY DEF Region!Apply

-----------------------------------------------------------------------------
(* Which nodes come before others. *)

UpOf(f, n) == {n} \cup UNION {f[p] : p \in Region!Parents(n) \ {0}}

LEMMA AncestorsExist ==
    ASSUME RegionGraph
    PROVE  \E f : f = [n \in Region!Nodes |-> UpOf(f, n)]
  <1> DEFINE N == Len(scope.parents)
             Has(k) == \E f : f = [n \in 1 .. k |-> UpOf(f, n)]
             Without == {k \in 0 .. N : ~ Has(k)}
  <1>1. Region!Nodes = 1 .. N /\ N \in Nat
    BY DEF RegionGraph
  <1>2. SUFFICES ASSUME Without # {} PROVE FALSE
    <2>1. N \in 0 .. N
      BY <1>1
    <2>2. ASSUME Has(N) PROVE \E f : f = [n \in Region!Nodes |-> UpOf(f, n)]
      <3>1. PICK f : f = [n \in 1 .. N |-> UpOf(f, n)]
        BY <2>2
      <3>2. f = [n \in Region!Nodes |-> UpOf(f, n)]
        BY <1>1, <3>1
      <3> QED
        BY <3>2
    <2> QED
      BY <2>1, <2>2
  <1>3. PICK k \in Without : \A j \in Without : k <= j
    <2>1. Without \in SUBSET Nat
      BY <1>1
    <2> HIDE DEF Without
    <2> QED
      BY <1>2, <2>1, MinOfNumbers
  <1>4. k # 0
    <2> DEFINE e == [n \in 1 .. 0 |-> {}]
    <2>1. e = [n \in 1 .. 0 |-> UpOf(e, n)]
      OBVIOUS
    <2>2. Has(0)
      BY <2>1
    <2> QED
      BY <2>2
  <1>5. k - 1 \in 0 .. N /\ k \in 1 .. N
    BY <1>1, <1>4
  <1>6. Has(k - 1)
    BY <1>1, <1>3, <1>5
  <1>7. PICK f : f = [n \in 1 .. k - 1 |-> UpOf(f, n)]
    BY <1>6
  <1> DEFINE g == [n \in 1 .. k |-> IF n = k THEN UpOf(f, k) ELSE f[n]]
  <1>8. ASSUME NEW n \in 1 .. k PROVE UpOf(g, n) = UpOf(f, n)
    <2>1. Region!Parents(n) \subseteq 0 .. k - 1
      BY <1>1, <1>5 DEF RegionGraph
    <2>2. \A p \in Region!Parents(n) \ {0} : g[p] = f[p]
      BY <1>5, <2>1
    <2> HIDE DEF g
    <2>3. {g[p] : p \in Region!Parents(n) \ {0}} = {f[p] : p \in Region!Parents(n) \ {0}}
      BY <2>2
    <2> QED
      BY <2>3 DEF UpOf
  <1>9. \A n \in 1 .. k - 1 : f[n] = UpOf(f, n)
    BY <1>7
  <1>10. g = [n \in 1 .. k |-> UpOf(f, n)]
    BY <1>5, <1>9
  <1> HIDE DEF g
  <1>11. g = [n \in 1 .. k |-> UpOf(g, n)]
    BY <1>8, <1>10
  <1>12. Has(k)
    BY <1>11
  <1> QED
    BY <1>3, <1>12

\* The nodes up from some are theirs and their parents', and so on.
LEMMA AncestorsUnfold ==
    ASSUME RegionGraph
    PROVE  \E up :
             /\ \A n \in Region!Nodes : up[n] = UpOf(up, n)
             /\ \A roots : Region!Closure(roots) = UNION {up[n] : n \in roots}
  <1> DEFINE U == CHOOSE f : f = [n \in Region!Nodes |-> UpOf(f, n)]
  <1>1. \A roots : Region!Closure(roots) = UNION {U[n] : n \in roots}
    BY DEF Region!Closure, UpOf
  <1>2. U = [n \in Region!Nodes |-> UpOf(U, n)]
    <2> HIDE DEF U
    <2>1. U = CHOOSE f : f = [n \in Region!Nodes |-> UpOf(f, n)]
      BY DEF U
    <2> QED
      BY <2>1, AncestorsExist
  <1> HIDE DEF U
  <1>3. \A n \in Region!Nodes : U[n] = UpOf(U, n)
    BY <1>2
  <1> QED
    BY <1>1, <1>3

LEMMA ClosureFacts ==
    ASSUME RegionGraph
    PROVE  /\ \A n \in Region!Nodes : n \in Region!Closure({n})
           /\ \A n \in Region!Nodes : \A p \in Region!Parents(n) \ {0} : Region!Closure({p}) \subseteq Region!Closure({n})
           /\ \A roots \in SUBSET Region!Nodes :
                /\ Region!Closure(roots) \subseteq Region!Nodes
                /\ roots \subseteq Region!Closure(roots)
                /\ \A n \in Region!Closure(roots) : Region!Parents(n) \ {0} \subseteq Region!Closure(roots)
  <1>1. PICK up : /\ \A n \in Region!Nodes : up[n] = UpOf(up, n)
                  /\ \A roots : Region!Closure(roots) = UNION {up[n] : n \in roots}
    BY AncestorsUnfold
  <1>2. \A n : Region!Closure({n}) = up[n]
    BY <1>1
  <1>3. \A n \in Region!Nodes : Region!Parents(n) \ {0} \subseteq Region!Nodes
    <2> SUFFICES ASSUME NEW n \in Region!Nodes, NEW p \in Region!Parents(n) \ {0} PROVE p \in Region!Nodes
      OBVIOUS
    <2>1. n \in 1 .. Len(scope.parents) /\ Len(scope.parents) \in Nat /\ p \in 0 .. n - 1 /\ p # 0
      BY DEF RegionGraph
    <2> QED
      BY <2>1 DEF RegionGraph
  <1>4. \A n \in Region!Nodes : n \in up[n] /\ \A p \in Region!Parents(n) \ {0} : up[p] \subseteq up[n]
    BY <1>1 DEF UpOf
  <1> DEFINE Closed(n) == /\ up[n] \subseteq Region!Nodes
                          /\ \A m \in up[n] : Region!Parents(m) \ {0} \subseteq up[n]
             Open == {n \in Region!Nodes : ~ Closed(n)}
  <1>5. Open = {}
    <2>1. SUFFICES ASSUME Open # {} PROVE FALSE
      OBVIOUS
    <2>2. PICK n \in Open : \A m \in Open : n <= m
      <3>1. Open \in SUBSET Nat
        BY DEF RegionGraph
      <3> HIDE DEF Open
      <3> QED
        BY <2>1, <3>1, MinOfNumbers
    <2>3. n \in Region!Nodes /\ n \in Nat
      BY DEF RegionGraph
    <2>4. ASSUME NEW p \in Region!Parents(n) \ {0} PROVE Closed(p)
      <3>1. p \in 0 .. n - 1
        BY <2>3 DEF RegionGraph
      <3>2. ~ n <= p
        BY <2>3, <3>1
      <3>3. p \notin Open
        BY <2>2, <3>2
      <3> QED
        BY <1>3, <2>3, <3>3
    <2>5. up[n] = {n} \cup UNION {up[p] : p \in Region!Parents(n) \ {0}}
      BY <1>1, <2>3 DEF UpOf
    <2>6. up[n] \subseteq Region!Nodes
      BY <2>3, <2>4, <2>5
    <2>7. ASSUME NEW m \in up[n], NEW q \in Region!Parents(m) \ {0} PROVE q \in up[n]
      <3>1. CASE m = n
        BY <1>3, <1>4, <2>3, <3>1
      <3>2. CASE m # n
        <4>1. PICK p \in Region!Parents(n) \ {0} : m \in up[p]
          BY <2>5, <3>2
        <4>2. q \in up[p]
          BY <2>4, <4>1
        <4> QED
          BY <1>4, <2>3, <4>2
      <3> QED
        BY <3>1, <3>2
    <2> QED
      BY <2>2, <2>6, <2>7
  <1>6. \A n \in Region!Nodes : Closed(n)
    BY <1>5
  <1>7. ASSUME NEW roots \in SUBSET Region!Nodes
        PROVE  /\ Region!Closure(roots) \subseteq Region!Nodes
               /\ roots \subseteq Region!Closure(roots)
               /\ \A n \in Region!Closure(roots) : Region!Parents(n) \ {0} \subseteq Region!Closure(roots)
    <2>1. Region!Closure(roots) = UNION {up[n] : n \in roots}
      BY <1>1
    <2>2. Region!Closure(roots) \subseteq Region!Nodes
      BY <1>6, <2>1
    <2>3. roots \subseteq Region!Closure(roots)
      BY <1>4, <2>1
    <2>4. ASSUME NEW m \in Region!Closure(roots) PROVE Region!Parents(m) \ {0} \subseteq Region!Closure(roots)
      BY <1>6, <2>1
    <2> QED
      BY <2>2, <2>3, <2>4
  <1>8. \A n \in Region!Nodes : n \in Region!Closure({n})
    BY <1>2, <1>4
  <1>9. ASSUME NEW n \in Region!Nodes, NEW p \in Region!Parents(n) \ {0}
        PROVE  Region!Closure({p}) \subseteq Region!Closure({n})
    <2>1. Region!Closure({p}) = up[p] /\ Region!Closure({n}) = up[n]
      BY <1>2
    <2> QED
      BY <1>4, <2>1
  <1> QED
    BY <1>7, <1>8, <1>9

\* A node gives what its ancestors' changes make it give.
LEMMA AncestorsDecide ==
    ASSUME RegionGraph, NEW s, NEW changed, NEW n \in Region!Nodes
    PROVE  Region!Evaluate(s, changed \cap Region!Closure({n}))[n] = Region!Evaluate(s, changed)[n]
  <1>0. PICK C, A, E, F : /\ C = Region!Closure({n}) /\ A = changed \cap C
                          /\ E = Region!Evaluate(s, A) /\ F = Region!Evaluate(s, changed)
    OBVIOUS
  <1> DEFINE Wrong == {m \in C : E[m] # F[m]}
  <1>1. /\ C \subseteq Region!Nodes /\ n \in C
        /\ \A m \in C : Region!Parents(m) \ {0} \subseteq C
    BY <1>0, ClosureFacts
  <1>2. SUFFICES ASSUME Wrong # {} PROVE FALSE
    BY <1>0, <1>1
  <1>3. PICK m \in Wrong : \A k \in Wrong : m <= k
    <2>1. Wrong \in SUBSET Nat
      BY <1>1 DEF RegionGraph
    <2> HIDE DEF Wrong
    <2> QED
      BY <1>2, <2>1, MinOfNumbers
  <1>4. m \in C /\ m \in Region!Nodes /\ m \in Nat
    BY <1>1 DEF RegionGraph
  <1>5. ASSUME NEW p \in Region!Parents(m) PROVE E[p] = F[p]
    <2>1. CASE p = 0
      <3>1. E[0] = s /\ F[0] = s
        BY <1>0, EvaluateUnfolds
      <3> QED
        BY <2>1, <3>1
    <2>2. CASE p # 0
      <3>1. p \in 0 .. m - 1
        BY <1>4 DEF RegionGraph
      <3>2. ~ m <= p
        BY <1>4, <3>1
      <3>3. p \in C
        BY <1>1, <1>4, <2>2
      <3> QED
        BY <1>3, <3>2, <3>3
    <2> QED
      BY <2>1, <2>2
  <1>6. /\ E[m] = [t \in DOMAIN s |-> Region!Apply(m, A, [p \in Region!Parents(m) |-> E[p][t]])]
        /\ F[m] = [t \in DOMAIN s |-> Region!Apply(m, changed, [p \in Region!Parents(m) |-> F[p][t]])]
    <2>1. ASSUME NEW a
          PROVE  Region!Evaluate(s, a)[m]
                    = [t \in DOMAIN s |-> Region!Apply(m, a, [p \in Region!Parents(m) |-> Region!Evaluate(s, a)[p][t]])]
      BY <1>4, EvaluateUnfolds
    <2>2. E = Region!Evaluate(s, A)
      BY <1>0
    <2>3. F = Region!Evaluate(s, changed)
      BY <1>0
    <2> QED
      BY <2>1, <2>2, <2>3
  <1>7. \A t : [p \in Region!Parents(m) |-> E[p][t]] = [p \in Region!Parents(m) |-> F[p][t]]
    BY <1>5
  <1>8. m \in A <=> m \in changed
    BY <1>0, <1>4
  <1>9. \A cells : Region!Apply(m, A, cells) = Region!Apply(m, changed, cells)
    BY <1>8, OwnChange
  <1>10. E[m] = F[m]
    BY <1>6, <1>7, <1>9
  <1> QED
    BY <1>3, <1>10

-----------------------------------------------------------------------------
(* The nodes of a region. *)

InsideOf(f, n, output, nodes, durable) ==
    \/ n = output
    \/ /\ n \in (nodes \cap scope.eligible) \ durable
       /\ \E m \in Region!Children(n, nodes) : f[m]

LEMMA ChildrenComeLater ==
    ASSUME RegionGraph, NEW nodes \in SUBSET Region!Nodes, NEW n \in Region!Nodes,
           NEW m \in Region!Children(n, nodes)
    PROVE  m \in nodes /\ n \in Region!Parents(m) /\ n < m
  <1>1. m \in nodes /\ n \in Region!Parents(m) /\ m \in Region!Nodes
    BY DEF Region!Children
  <1>2. n \in 0 .. m - 1 /\ m \in Nat
    BY <1>1 DEF RegionGraph
  <1> QED
    BY <1>1, <1>2

\* Who is inside is known from the last node to the first.
LEMMA InsideExists ==
    ASSUME RegionGraph, NEW nodes \in SUBSET Region!Nodes, NEW output, NEW durable
    PROVE  \E f : f = [n \in Region!Nodes |-> InsideOf(f, n, output, nodes, durable)]
  <1> DEFINE N == Len(scope.parents)
             Has(k) == \E f : f = [n \in N - k + 1 .. N |-> InsideOf(f, n, output, nodes, durable)]
             Without == {k \in 0 .. N : ~ Has(k)}
  <1>1. Region!Nodes = 1 .. N /\ N \in Nat
    BY DEF RegionGraph
  <1>2. SUFFICES ASSUME Without # {} PROVE FALSE
    <2>1. N \in 0 .. N /\ N - N + 1 = 1
      BY <1>1
    <2>2. ASSUME Has(N) PROVE \E f : f = [n \in Region!Nodes |-> InsideOf(f, n, output, nodes, durable)]
      <3>1. PICK f : f = [n \in N - N + 1 .. N |-> InsideOf(f, n, output, nodes, durable)]
        BY <2>2
      <3>2. N - N + 1 .. N = Region!Nodes
        BY <1>1, <2>1
      <3>3. f = [n \in Region!Nodes |-> InsideOf(f, n, output, nodes, durable)]
        BY <3>1, <3>2
      <3> QED
        BY <3>3
    <2> QED
      BY <2>1, <2>2
  <1>3. PICK k \in Without : \A j \in Without : k <= j
    <2>1. Without \in SUBSET Nat
      BY <1>1
    <2> HIDE DEF Without
    <2> QED
      BY <1>2, <2>1, MinOfNumbers
  <1>4. k # 0
    <2>1. N - 0 + 1 .. N = {}
      BY <1>1
    <2>2. PICK e : e = [n \in {} |-> FALSE]
      OBVIOUS
    <2>3. e = [n \in N - 0 + 1 .. N |-> InsideOf(e, n, output, nodes, durable)]
      BY <2>1, <2>2
    <2>4. Has(0)
      BY <2>3
    <2> QED
      BY <2>4
  <1>5. k - 1 \in 0 .. N /\ k \in 1 .. N /\ N - (k - 1) + 1 = N - k + 2
    BY <1>1, <1>4
  <1>6. Has(k - 1)
    <2>1. ~ k <= k - 1
      BY <1>5
    <2>2. k - 1 \notin Without
      <3> HIDE DEF Without
      <3> QED
        BY <1>3, <2>1
    <2> HIDE DEF Has
    <2> QED
      BY <1>5, <2>2
  <1>7. PICK f : f = [n \in N - k + 2 .. N |-> InsideOf(f, n, output, nodes, durable)]
    BY <1>5, <1>6
  <1>8. PICK a : a = N - k + 1
    OBVIOUS
  <1>9. PICK top : top = InsideOf(f, a, output, nodes, durable)
    OBVIOUS
  <1>10. PICK g : g = [n \in a .. N |-> IF n = a THEN top ELSE f[n]]
    OBVIOUS
  <1>11. ASSUME NEW n \in a .. N PROVE InsideOf(g, n, output, nodes, durable) = InsideOf(f, n, output, nodes, durable)
    <2>1. ASSUME NEW m \in Region!Children(n, nodes) PROVE g[m] = f[m]
      <3>1. n \in Region!Nodes /\ n \in Nat /\ a \in Nat
        BY <1>1, <1>5, <1>8
      <3>2. m \in Region!Nodes /\ n < m
        BY <3>1, ChildrenComeLater
      <3>3. m \in a .. N /\ m # a
        BY <1>1, <3>1, <3>2
      <3> QED
        BY <1>10, <3>3
    <2>2. (\E m \in Region!Children(n, nodes) : g[m]) <=> (\E m \in Region!Children(n, nodes) : f[m])
      BY <2>1
    <2>3. InsideOf(g, n, output, nodes, durable) <=> InsideOf(f, n, output, nodes, durable)
      BY <2>2, Zenon DEF InsideOf
    <2>4. InsideOf(g, n, output, nodes, durable) \in BOOLEAN /\ InsideOf(f, n, output, nodes, durable) \in BOOLEAN
      BY Zenon DEF InsideOf
    <2> QED
      BY <2>3, <2>4
  <1>12. ASSUME NEW n \in a .. N PROVE g[n] = InsideOf(g, n, output, nodes, durable)
    <2>1. CASE n = a
      <3>1. g[n] = top
        BY <1>10, <2>1
      <3> QED
        BY <1>9, <1>11, <2>1, <3>1
    <2>2. CASE n # a
      <3>1. n \in N - k + 2 .. N
        BY <1>1, <1>5, <1>8, <2>2
      <3>2. f[n] = InsideOf(f, n, output, nodes, durable)
        BY <1>7, <3>1
      <3>3. g[n] = f[n]
        BY <1>10, <2>2
      <3> QED
        BY <1>11, <3>2, <3>3
    <2> QED
      BY <2>1, <2>2
  <1>13. g = [n \in a .. N |-> g[n]]
    BY <1>10
  <1>14. g = [n \in a .. N |-> InsideOf(g, n, output, nodes, durable)]
    BY <1>12, <1>13
  <1>15. Has(k)
    BY <1>8, <1>14
  <1> QED
    BY <1>3, <1>15

\* Inside is the output, and a node that need not be kept and has a child inside.
LEMMA MembersAre ==
    ASSUME RegionGraph, NEW nodes \in SUBSET Region!Nodes, NEW output, NEW durable
    PROVE  LET M == Region!Members(output, nodes, durable) IN
           /\ M \subseteq nodes
           /\ \A n \in nodes : n \in M <=> \/ n = output
                                           \/ /\ n \in (nodes \cap scope.eligible) \ durable
                                              /\ Region!Children(n, nodes) \cap M # {}
           /\ M # {} => output \in M
  <1> DEFINE I == CHOOSE f : f = [n \in Region!Nodes |-> InsideOf(f, n, output, nodes, durable)]
             M == Region!Members(output, nodes, durable)
  <1>1. M = {n \in nodes : I[n]}
    BY DEF Region!Members, InsideOf
  <1>2. I = [n \in Region!Nodes |-> InsideOf(I, n, output, nodes, durable)]
    <2> HIDE DEF I
    <2>1. I = CHOOSE f : f = [n \in Region!Nodes |-> InsideOf(f, n, output, nodes, durable)]
      BY DEF I
    <2> QED
      BY <2>1, InsideExists
  <1> HIDE DEF I, M
  <1>3. ASSUME NEW n \in nodes
        PROVE  n \in M <=> \/ n = output
                           \/ /\ n \in (nodes \cap scope.eligible) \ durable
                              /\ Region!Children(n, nodes) \cap M # {}
    <2>1. I[n] = InsideOf(I, n, output, nodes, durable)
      BY <1>2
    <2>2. n \in M <=> InsideOf(I, n, output, nodes, durable)
      BY <1>1, <2>1
    <2>3. \A m \in Region!Children(n, nodes) : I[m] <=> m \in M
      BY <1>1 DEF Region!Children
    <2>4. (\E m \in Region!Children(n, nodes) : I[m]) <=> Region!Children(n, nodes) \cap M # {}
      BY <2>3
    <2> QED
      BY <2>2, <2>4 DEF InsideOf
  <1>4. M \subseteq nodes
    BY <1>1
  <1>5. ASSUME M # {} PROVE output \in M
    <2>1. M \subseteq 1 .. Len(scope.parents) /\ Len(scope.parents) \in Nat
      BY <1>4 DEF RegionGraph
    <2>2. PICK m \in M : \A n \in M : n <= m
      <3>1. M \in SUBSET Nat /\ M # {} /\ Len(scope.parents) \in Nat /\ \A n \in M : n <= Len(scope.parents)
        BY <1>5, <2>1
      <3>2. Max(M) \in M /\ \A n \in M : n <= Max(M)
        BY <3>1, MaxOfBounded
      <3> QED
        BY <3>2
    <2>3. Region!Children(m, nodes) \cap M = {}
      <3>1. SUFFICES ASSUME NEW c \in Region!Children(m, nodes), c \in M PROVE FALSE
        OBVIOUS
      <3>2. m < c /\ c <= m /\ m \in Nat /\ c \in Nat
        BY <1>4, <2>1, <2>2, <3>1, ChildrenComeLater
      <3> QED
        BY <3>2
    <2> QED
      BY <1>3, <1>4, <2>2, <2>3
  <1> QED
    BY <1>3, <1>4, <1>5 DEF M

LEMMA RegionCounts == \A S : Region!Cardinality(S) = Cardinality(S)
  BY DEF Region!Cardinality, Cardinality, Region!IsFiniteSet, IsFiniteSet

\* A node that is not shared is read by one node.
LEMMA OnlyChild ==
    ASSUME RegionGraph, NEW nodes \in SUBSET Region!Nodes, NEW n, ~ Region!Shared(n, nodes)
    PROVE  \E c : Region!Children(n, nodes) = {c}
  <1>1. Region!Children(n, nodes) \subseteq 1 .. Len(scope.parents) /\ Len(scope.parents) \in Nat
    BY DEF RegionGraph, Region!Children
  <1>2. IsFiniteSet(Region!Children(n, nodes))
    <2>1. IsFiniteSet(1 .. Len(scope.parents))
      BY <1>1, FS_Interval
    <2> QED
      BY <1>1, <2>1, FS_Subset
  <1>3. Cardinality(Region!Children(n, nodes)) = 1
    BY RegionCounts DEF Region!Shared
  <1> QED
    BY <1>2, <1>3, FS_Singleton

\* What joins nodes: regions have an output that is kept, no other of their nodes is,
\* these are read inside only, and no node is of two regions.
LEMMA RegionsApart ==
    ASSUME RegionGraph, NEW nodes \in SUBSET Region!Nodes, NEW durable,
           \A n \in nodes : Region!Shared(n, nodes) => n \in durable
    PROVE  /\ \A r \in Region!Regions(nodes, durable) :
                /\ r.nodes \subseteq nodes /\ r.output \in r.nodes \cap durable
                /\ \A p \in r.nodes \ {r.output} : p \notin durable /\ Region!Children(p, nodes) \subseteq r.nodes
           /\ \A q, r \in Region!Regions(nodes, durable) : q # r => q.nodes \cap r.nodes = {}
  <1> DEFINE M(n) == Region!Members(n, nodes, durable)
  <1>1. ASSUME NEW r \in Region!Regions(nodes, durable)
        PROVE  r = [output |-> r.output, nodes |-> M(r.output)] /\ r.output \in durable /\ r.nodes # {}
    <2>1. PICK n \in durable : r = [output |-> n, nodes |-> M(n)]
      BY DEF Region!Regions
    <2>2. r.output = n /\ r.nodes = M(n)
      BY <2>1
    <2>3. Cardinality(r.nodes) > 1
      BY RegionCounts DEF Region!Regions
    <2>4. r.nodes # {}
      BY <2>3, FS_EmptySet
    <2> QED
      BY <2>1, <2>2, <2>4
  <1> HIDE DEF M
  <1>2. ASSUME NEW r \in Region!Regions(nodes, durable)
        PROVE  /\ r.nodes \subseteq nodes /\ r.output \in r.nodes
               /\ \A p \in r.nodes \ {r.output} : p \notin durable /\ Region!Children(p, nodes) \cap r.nodes # {}
    <2>1. r.nodes = M(r.output) /\ r.nodes # {}
      <3>1. r = [output |-> r.output, nodes |-> M(r.output)] /\ r.nodes # {}
        BY <1>1
      <3> QED
        BY <3>1
    <2>2. PICK S : S = Region!Members(r.output, nodes, durable)
      OBVIOUS
    <2>3. /\ S \subseteq nodes
          /\ \A n \in nodes : n \in S <=> \/ n = r.output
                                          \/ /\ n \in (nodes \cap scope.eligible) \ durable
                                             /\ Region!Children(n, nodes) \cap S # {}
          /\ S # {} => r.output \in S
      BY <2>2, MembersAre
    <2>4. r.nodes = S
      BY <2>1, <2>2 DEF M
    <2>5. ASSUME NEW p \in r.nodes \ {r.output} PROVE p \notin durable /\ Region!Children(p, nodes) \cap r.nodes # {}
      <3>1. p \in nodes /\ p \in S /\ p # r.output
        BY <2>3, <2>4
      <3> QED
        BY <2>3, <2>4, <3>1
    <2> QED
      BY <2>1, <2>3, <2>4, <2>5
  <1>3. ASSUME NEW r \in Region!Regions(nodes, durable), NEW p \in r.nodes \ {r.output}
        PROVE  \E c : Region!Children(p, nodes) = {c} /\ c \in r.nodes
    <2>1. p \in nodes /\ p \notin durable /\ Region!Children(p, nodes) \cap r.nodes # {}
      BY <1>2
    <2>2. PICK c : Region!Children(p, nodes) = {c}
      BY <2>1, OnlyChild
    <2> QED
      BY <2>1, <2>2
  <1>4. ASSUME NEW q \in Region!Regions(nodes, durable), NEW r \in Region!Regions(nodes, durable), q # r
        PROVE  q.nodes \cap r.nodes = {}
    <2>1. q.output # r.output
      <3>1. q = [output |-> q.output, nodes |-> M(q.output)] /\ r = [output |-> r.output, nodes |-> M(r.output)]
        BY <1>1
      <3> QED
        BY <1>4, <3>1
    <2> DEFINE Both == q.nodes \cap r.nodes
    <2>2. SUFFICES ASSUME Both # {} PROVE FALSE
      OBVIOUS
    <2>3. PICK m \in Both : \A n \in Both : n <= m
      <3>1. /\ Both \in SUBSET Nat /\ Both # {} /\ Len(scope.parents) \in Nat
            /\ \A n \in Both : n <= Len(scope.parents)
        <4>1. Both \subseteq nodes
          BY <1>2
        <4>2. nodes \subseteq 1 .. Len(scope.parents) /\ Len(scope.parents) \in Nat
          BY DEF RegionGraph
        <4> HIDE DEF Both
        <4> QED
          BY <2>2, <4>1, <4>2
      <3> HIDE DEF Both
      <3>2. Max(Both) \in Both /\ \A n \in Both : n <= Max(Both)
        BY <3>1, MaxOfBounded
      <3> QED
        BY <3>2
    <2>4. m # q.output /\ m # r.output
      BY <1>1, <1>2, <2>1
    <2>5. PICK c : Region!Children(m, nodes) = {c} /\ c \in q.nodes
      BY <1>3, <2>4
    <2>6. c \in r.nodes
      BY <1>3, <2>4, <2>5
    <2>7. m \in Region!Nodes /\ c \in Region!Children(m, nodes)
      BY <1>2, <2>5
    <2>8. m < c /\ c \in nodes
      BY <2>7, ChildrenComeLater
    <2>9. c <= m
      BY <2>3, <2>5, <2>6
    <2> QED
      BY <2>7, <2>8, <2>9 DEF RegionGraph
  <1>5. ASSUME NEW r \in Region!Regions(nodes, durable), NEW p \in r.nodes \ {r.output}
        PROVE  p \notin durable /\ Region!Children(p, nodes) \subseteq r.nodes
    BY <1>2, <1>3
  <1>6. ASSUME NEW r \in Region!Regions(nodes, durable)
        PROVE  r.nodes \subseteq nodes /\ r.output \in r.nodes \cap durable
    BY <1>1, <1>2
  <1> QED
    BY <1>4, <1>5, <1>6

\* Nodes are computed in one region, from what is kept.
Apart(regions, durable) ==
    /\ durable \subseteq Region!Nodes
    /\ \A q, r \in regions : q # r => q.nodes \cap r.nodes = {}
    /\ \A r \in regions : /\ r.nodes \subseteq Region!Nodes /\ r.output \in r.nodes \cap durable
                          /\ Region!External(r) \ {0} \subseteq durable
    /\ \A n \in durable : (\A r \in regions : r.output # n) => Region!Parents(n) \ {0} \subseteq durable

\* What a plan keeps when it joins some regions is all that is read.
LEMMA PlansFit ==
    ASSUME RegionGraph, NEW nodes \in SUBSET Region!Nodes, NEW wanted,
           \A n \in nodes : Region!Parents(n) \ {0} \subseteq nodes,
           \A n \in nodes : Region!Shared(n, nodes) => n \in wanted,
           NEW regions \in SUBSET Region!Regions(nodes, wanted), NEW durable,
           durable = nodes \ UNION {r.nodes \ {r.output} : r \in regions}
    PROVE  Apart(regions, durable)
  <1>1. /\ \A r \in regions :
                /\ r.nodes \subseteq nodes /\ r.output \in r.nodes \cap wanted
                /\ \A p \in r.nodes \ {r.output} : p \notin wanted /\ Region!Children(p, nodes) \subseteq r.nodes
        /\ \A q, r \in regions : q # r => q.nodes \cap r.nodes = {}
    <2>1. /\ \A r \in Region!Regions(nodes, wanted) :
                /\ r.nodes \subseteq nodes /\ r.output \in r.nodes \cap wanted
                /\ \A p \in r.nodes \ {r.output} : p \notin wanted /\ Region!Children(p, nodes) \subseteq r.nodes
          /\ \A q, r \in Region!Regions(nodes, wanted) : q # r => q.nodes \cap r.nodes = {}
      BY RegionsApart
    <2>2. \A r \in regions : r \in Region!Regions(nodes, wanted)
      OBVIOUS
    <2> QED
      BY <2>1, <2>2
  <1>2. ASSUME NEW r \in regions PROVE r.output \in durable
    BY <1>1
  <1>3. ASSUME NEW n \in nodes, NEW p \in Region!Parents(n) \ {0}, p \notin durable
        PROVE  \E q \in regions : n \in q.nodes /\ p \in q.nodes
    <2>1. p \in nodes /\ n \in Region!Children(p, nodes)
      BY DEF Region!Children
    <2>2. PICK q \in regions : p \in q.nodes \ {q.output}
      BY <1>3, <2>1
    <2> QED
      BY <1>1, <2>1, <2>2
  <1>4. ASSUME NEW r \in regions, NEW p \in Region!External(r) \ {0} PROVE p \in durable
    <2>1. PICK n \in r.nodes : p \in Region!Parents(n) /\ p \notin r.nodes
      <3>1. p \in UNION {Region!Parents(n) : n \in r.nodes} /\ p \notin r.nodes
        BY DEF Region!External
      <3> QED
        BY <3>1
    <2>2. SUFFICES ASSUME p \notin durable PROVE FALSE
      OBVIOUS
    <2>3. PICK q \in regions : n \in q.nodes /\ p \in q.nodes
      BY <1>1, <1>3, <2>1, <2>2
    <2> QED
      BY <1>1, <2>1, <2>3
  <1>5. ASSUME NEW n \in durable, \A r \in regions : r.output # n, NEW p \in Region!Parents(n) \ {0}
        PROVE  p \in durable
    <2>1. SUFFICES ASSUME p \notin durable PROVE FALSE
      OBVIOUS
    <2>2. PICK q \in regions : n \in q.nodes
      BY <1>3, <2>1
    <2> QED
      BY <1>5, <2>2
  <1>6. durable \subseteq Region!Nodes /\ \A r \in regions : r.nodes \subseteq Region!Nodes /\ r.output \in r.nodes
    BY <1>1
  <1> QED
    BY <1>1, <1>2, <1>4, <1>5, <1>6 DEF Apart

-----------------------------------------------------------------------------
(* What is published, certified and computed of regions. *)

\* What the key of a block, and that of a result, says its cells are.
BlockGives(key) ==
    [t \in key.first .. key.last |->
       Region!Apply(key.node, IF key.changed THEN {key.node} ELSE {},
                    [p \in Region!Parents(key.node) |-> key.proofs[p][t]])]
ResultGives(key) == [t \in DOMAIN key.source |-> Region!Evaluate(key.source, key.changed)[key.node][t]]

RegionRow(key, cells) == \/ key.kind = "block" /\ cells = BlockGives(key)
                         \/ key.kind = "result" /\ cells = ResultGives(key)
RegionRows == \A key \in DOMAIN rows : RegionRow(key, rows[key])

Certified(c) ==
    /\ c.output \in DOMAIN c.nodes /\ c.nodes[c.output].key \in DOMAIN rows
    /\ \A m \in DOMAIN c.nodes : c.nodes[m].index = BlockGives(c.nodes[m].key)
Certificates == \A c \in certificates : Certified(c)

RegionParents ==
    /\ RegionGraph /\ source \in Seq(scope.numbers)
    /\ \A request \in scope.requests : request.requested \subseteq Region!Nodes
    /\ latest = [n \in Region!Nodes |-> latest[n]]
    /\ \A n \in Region!Nodes : latest[n] \subseteq DOMAIN rows

\* What nodes give now.
Now == Region!Evaluate(source, upgraded)

\* What a plan was made for: what it computes reads what it keeps, in regions apart.
Joined(w) ==
    /\ w = [step |-> "run", regions |-> w.regions, durable |-> w.durable, pending |-> w.pending,
            values |-> w.values, first |-> w.first, blocks |-> w.blocks]
    /\ w.pending \subseteq w.durable /\ Apart(w.regions, w.durable)

\* The nodes that are done have what they give, and those of their regions are sealed.
Done(w) ==
    /\ DOMAIN w.values \subseteq Region!Nodes
    /\ \A n \in DOMAIN w.values : w.values[n] = Now[n]
    /\ \A r \in w.regions : r.output \in w.pending \/ Region!Covered(r)

\* The blocks of the node in turn have what it gives.
BlockAt(w, t) == w.blocks[((t - 1) \div scope.canonicalSessions) + 1]
Blocked(w) ==
    /\ w.blocks \in Seq(DOMAIN rows)
    /\ w.first \in Nat \ {0}
    /\ w.first = Len(w.blocks) * scope.canonicalSessions + 1 \/ w.first > Len(source)
    /\ \A t \in DOMAIN source : t < w.first =>
          /\ ((t - 1) \div scope.canonicalSessions) + 1 \in DOMAIN w.blocks
          /\ rows[BlockAt(w, t)][t] = Now[Min(w.pending)][t]

RegionExecution(w) == Joined(w) /\ Done(w) /\ Blocked(w)

RegionInv ==
    /\ RegionParents /\ RegionRows /\ Certificates
    /\ work.step = "idle" \/ RegionExecution(work)

LEMMA RegionMeaningStays ==
    ASSUME scope' = scope
    PROVE  /\ RegionGraph => RegionGraph'
           /\ Region!Nodes' = Region!Nodes
           /\ \A n : Region!Parents(n)' = Region!Parents(n)
           /\ \A r : Region!External(r)' = Region!External(r)
           /\ \A roots : Region!Closure(roots)' = Region!Closure(roots)
           /\ \A s, changed : Region!Evaluate(s, changed)' = Region!Evaluate(s, changed)
           /\ \A key, cells : RegionRow(key, cells)' = RegionRow(key, cells)
           /\ \A key : BlockGives(key)' = BlockGives(key)
  <1>1. RegionGraph => RegionGraph'
    BY DEF RegionGraph, Region!Nodes, Region!Parents
  <1>2. Region!Nodes' = Region!Nodes /\ \A n : Region!Parents(n)' = Region!Parents(n)
    BY DEF Region!Nodes, Region!Parents
  <1>3. \A r : Region!External(r)' = Region!External(r)
    BY DEF Region!External, Region!Parents
  <1>4. \A roots : Region!Closure(roots)' = Region!Closure(roots)
    BY DEF Region!Closure, Region!Nodes, Region!Parents
  <1>5. \A s, changed : Region!Evaluate(s, changed)' = Region!Evaluate(s, changed)
    BY DEF Region!Evaluate, Region!Nodes, Region!Parents, Region!Apply
  <1>6. \A key : BlockGives(key)' = BlockGives(key)
    BY DEF BlockGives, Region!Parents, Region!Apply
  <1>7. \A key : ResultGives(key)' = ResultGives(key)
    BY <1>5 DEF ResultGives
  <1>8. \A key, cells : RegionRow(key, cells)' = RegionRow(key, cells)
    BY <1>6, <1>7 DEF RegionRow
  <1> QED
    BY <1>1, <1>2, <1>3, <1>4, <1>5, <1>6, <1>8

\* Nothing that is published or sealed goes, and the source and the nodes stay.
Keeping ==
    /\ UNCHANGED <<scope, source, upgraded>>
    /\ DOMAIN rows \subseteq DOMAIN rows' /\ \A k \in DOMAIN rows : rows'[k] = rows[k]
    /\ seals \subseteq seals'

LEMMA KeepingKeys == ASSUME Keeping PROVE \A n : Region!ResultKey(n)' = Region!ResultKey(n)
  BY RegionMeaningStays DEF Keeping, Region!ResultKey

LEMMA KeepingCovers == ASSUME Keeping, NEW r, Region!Covered(r) PROVE Region!Covered(r)'
  <1>1. \A key : Region!SealsOf(key) \subseteq Region!SealsOf(key)'
    BY DEF Keeping, Region!SealsOf
  <1> QED
    BY <1>1, KeepingKeys DEF Region!Covered

LEMMA KeepingJoined == ASSUME Keeping, NEW w, Joined(w) PROVE Joined(w)'
  BY RegionMeaningStays DEF Keeping, Joined, Apart

LEMMA KeepingNow == ASSUME Keeping PROVE Now' = Now
  BY RegionMeaningStays DEF Keeping, Now

LEMMA KeepingDone == ASSUME Keeping, NEW w, Done(w) PROVE Done(w)'
  <1>1. Now' = Now /\ Region!Nodes' = Region!Nodes
    BY KeepingNow, RegionMeaningStays DEF Keeping
  <1>2. \A r \in w.regions : r.output \in w.pending \/ Region!Covered(r)'
    BY KeepingCovers DEF Done
  <1> QED
    BY <1>1, <1>2 DEF Done

LEMMA KeepingBlocked == ASSUME RegionGraph, Keeping, NEW w, Blocked(w) PROVE Blocked(w)'
  <1>1. Now' = Now /\ scope' = scope /\ source' = source
    BY KeepingNow DEF Keeping
  <1>2. w.blocks \in Seq(DOMAIN rows)
    BY DEF Blocked
  <1>3. w.blocks \in Seq((DOMAIN rows)')
    BY <1>2 DEF Keeping
  <1>4. ASSUME NEW t \in DOMAIN source, t < w.first
        PROVE  /\ ((t - 1) \div scope.canonicalSessions) + 1 \in DOMAIN w.blocks
               /\ rows'[BlockAt(w, t)][t] = Now[Min(w.pending)][t]
    <2>1. /\ ((t - 1) \div scope.canonicalSessions) + 1 \in DOMAIN w.blocks
          /\ rows[BlockAt(w, t)][t] = Now[Min(w.pending)][t]
      BY <1>4 DEF Blocked
    <2>2. BlockAt(w, t) \in DOMAIN rows
      BY <1>2, <2>1 DEF BlockAt
    <2> QED
      BY <2>1, <2>2 DEF Keeping
  <1>5. \A t : BlockAt(w, t)' = BlockAt(w, t)
    BY <1>1 DEF BlockAt
  <1> QED
    BY <1>1, <1>3, <1>4, <1>5 DEF Blocked

LEMMA KeepingRows ==
    ASSUME RegionRows, Keeping, \A k \in (DOMAIN rows)' \ DOMAIN rows : RegionRow(k, rows'[k])
    PROVE  RegionRows'
  BY RegionMeaningStays DEF RegionRows, Keeping

LEMMA KeepingCertified == ASSUME Keeping, NEW c, Certified(c) PROVE Certified(c)'
  BY RegionMeaningStays DEF Keeping, Certified

LEMMA KeepingParents ==
    ASSUME RegionParents, Keeping, latest' = [n \in Region!Nodes |-> latest'[n]],
           \A n \in Region!Nodes : latest'[n] \subseteq (DOMAIN rows)'
    PROVE  RegionParents'
  BY RegionMeaningStays DEF RegionParents, Keeping

LEMMA KeepingExecution ==
    ASSUME RegionGraph, Keeping, NEW w, RegionExecution(w)
    PROVE  RegionExecution(w)'
  BY KeepingJoined, KeepingDone, KeepingBlocked DEF RegionExecution

\* The result that the key of a node names now is what it gives now.
LEMMA ResultIsNow ==
    ASSUME RegionGraph, NEW n \in Region!Nodes
    PROVE  ResultGives(Region!ResultKey(n)) = Now[n]
  <1>1. PICK k : k = Region!ResultKey(n)
    OBVIOUS
  <1>2. k.node = n /\ k.source = source /\ k.changed = upgraded \cap Region!Closure({n})
    BY <1>1 DEF Region!ResultKey
  <1>3. Region!Evaluate(source, k.changed)[n] = Now[n]
    BY <1>2, AncestorsDecide DEF Now
  <1>4. Region!Evaluate(source, upgraded)[n]
           = [t \in DOMAIN source |-> Region!Apply(n, upgraded,
                                           [p \in Region!Parents(n) |-> Region!Evaluate(source, upgraded)[p][t]])]
    BY EvaluateUnfolds
  <1>5. Now[n] = [t \in DOMAIN source |-> Now[n][t]]
    BY <1>4 DEF Now
  <1>6. ResultGives(k) = [t \in DOMAIN source |-> Now[n][t]]
    BY <1>2, <1>3 DEF ResultGives
  <1> QED
    BY <1>1, <1>5, <1>6

LEMMA KnownResult ==
    ASSUME RegionGraph, RegionRows, NEW n \in Region!Nodes, Region!ResultKey(n) \in DOMAIN rows
    PROVE  rows[Region!ResultKey(n)] = Now[n]
  <1>1. Region!ResultKey(n).kind = "result"
    BY DEF Region!ResultKey
  <1>2. rows[Region!ResultKey(n)] = ResultGives(Region!ResultKey(n))
    BY <1>1 DEF RegionRows, RegionRow
  <1> QED
    BY <1>2, ResultIsNow

LEMMA SealsCover ==
    ASSUME NEW r, Region!Sealed(r, Region!ResultKey(r.output), TRUE)
    PROVE  Region!Covered(r)
  <1>1. PICK seal \in Region!SealsOf(Region!ResultKey(r.output)) :
             r.nodes \subseteq DOMAIN seal.keys /\ \A n \in r.nodes : seal.keys[n] = Region!ResultKey(n)
    BY DEF Region!Sealed
  <1>2. \A n : Region!ResultKey(n).node = n
    BY DEF Region!ResultKey
  <1> QED
    BY <1>1, <1>2 DEF Region!Covered

LEMMA StoreStays ==
    ASSUME RegionInv, UNCHANGED <<scope, rows, certificates, latest>>,
           source' \in Seq(scope.numbers), work'.step = "idle"
    PROVE  RegionInv'
  <1>1. RegionParents'
    BY RegionMeaningStays DEF RegionInv, RegionParents
  <1>2. RegionRows' /\ Certificates'
    BY RegionMeaningStays DEF RegionInv, RegionRows, Certificates, Certified
  <1> QED
    BY <1>1, <1>2 DEF RegionInv

LEMMA EndKeepsRegions == ASSUME RegionInv, Region!Complete \/ Region!Interrupt PROVE RegionInv'
  <1>1. /\ UNCHANGED <<scope, source, rows, certificates, latest>> /\ work' = Region!Idle
    BY DEF Region!Complete, Region!Interrupt
  <1>2. source' \in Seq(scope.numbers) /\ work'.step = "idle"
    BY <1>1 DEF RegionInv, RegionParents, Region!Idle
  <1> QED
    BY <1>1, <1>2, StoreStays

LEMMA ObserveKeepsRegions ==
    ASSUME RegionInv, NEW number \in scope.numbers,
           Region!Observe(number) \/ \E t \in DOMAIN source : Region!Restate(t, number)
    PROVE  RegionInv'
  <1>1. source \in Seq(scope.numbers)
    BY DEF RegionInv, RegionParents
  <1>2. CASE Region!Observe(number)
    <2>1. /\ UNCHANGED <<scope, rows, certificates, latest, work>> /\ work.step = "idle"
          /\ source' = Append(source, number)
      BY <1>2 DEF Region!Observe, Region!At
    <2>2. source' \in Seq(scope.numbers) /\ work'.step = "idle"
      BY <1>1, <2>1
    <2> QED
      BY <2>1, <2>2, StoreStays
  <1>3. ASSUME NEW t \in DOMAIN source, Region!Restate(t, number) PROVE RegionInv'
    <2>1. /\ UNCHANGED <<scope, rows, certificates, latest, work>> /\ work.step = "idle"
          /\ source' = [source EXCEPT ![t] = number]
      BY <1>3 DEF Region!Restate, Region!At
    <2>2. t \in 1 .. Len(source)
      BY <1>1
    <2>3. source' \in Seq(scope.numbers) /\ work'.step = "idle"
      BY <1>1, <2>1, <2>2, ExceptSeq
    <2> QED
      BY <2>1, <2>3, StoreStays
  <1> QED
    BY <1>2, <1>3

LEMMA UpgradeKeepsRegions == ASSUME RegionInv, NEW n, Region!Upgrade(n) PROVE RegionInv'
  <1>1. /\ UNCHANGED <<scope, source, rows, certificates, latest, work>> /\ work.step = "idle"
    BY DEF Region!Upgrade, Region!At
  <1>2. source' \in Seq(scope.numbers) /\ work'.step = "idle"
    BY <1>1 DEF RegionInv, RegionParents
  <1> QED
    BY <1>1, <1>2, StoreStays

LEMMA StartKeepsRegions ==
    ASSUME RegionInv, NEW request \in scope.requests, Region!Start(request)
    PROVE  RegionInv'
  <1>1. PICK nodes : nodes = Region!Closure(request.requested)
    OBVIOUS
  <1>2. PICK wanted : wanted = Region!Durable(nodes, request.requested, request.persist)
    OBVIOUS
  <1>3. PICK regions : regions = {r \in Region!Regions(nodes, wanted) : Region!Admitted(r)}
    OBVIOUS
  <1>4. PICK durable : durable = nodes \ UNION {r.nodes \ {r.output} : r \in regions}
    OBVIOUS
  <1>5. PICK v : v = work'
    OBVIOUS
  <1>6. v = [step |-> "run", regions |-> regions, durable |-> durable,
             pending |-> {n \in durable : ~ Region!UpToDate(n)},
             values |-> [n \in {m \in durable : Region!UpToDate(m)} |-> rows[Region!ResultKey(n)]],
             first |-> 1, blocks |-> <<>>]
    BY <1>1, <1>2, <1>3, <1>4, <1>5 DEF Region!Start
  <1>7. UNCHANGED <<scope, source, upgraded, rows, certificates, seals, latest>>
    BY DEF Region!Start
  <1>8. /\ RegionParents /\ RegionRows /\ Certificates /\ RegionGraph
        /\ request.requested \in SUBSET Region!Nodes
    BY DEF RegionInv, RegionParents
  <1>9. nodes \in SUBSET Region!Nodes /\ \A n \in nodes : Region!Parents(n) \ {0} \subseteq nodes
    BY <1>1, <1>8, ClosureFacts
  <1>10. \A n \in nodes : Region!Shared(n, nodes) => n \in wanted
    BY <1>2 DEF Region!Durable
  <1>11. regions \in SUBSET Region!Regions(nodes, wanted) /\ \A r \in regions : Region!Admitted(r)
    BY <1>3
  <1>12. Apart(regions, durable)
    BY <1>4, <1>8, <1>9, <1>10, <1>11, PlansFit
  <1>13. durable \subseteq Region!Nodes /\ \A r \in regions : r.output \in durable
    BY <1>12 DEF Apart
  <1>17. /\ v.regions = regions /\ v.durable = durable /\ v.pending = {n \in durable : ~ Region!UpToDate(n)}
         /\ v.values = [n \in {m \in durable : Region!UpToDate(m)} |-> rows[Region!ResultKey(n)]]
         /\ v.first = 1 /\ v.blocks = <<>> /\ v.step = "run"
    BY <1>6
  <1>18. Joined(v)
    <2>1. v = [step |-> "run", regions |-> v.regions, durable |-> v.durable, pending |-> v.pending,
               values |-> v.values, first |-> v.first, blocks |-> v.blocks]
      BY <1>6, <1>17
    <2> QED
      BY <2>1, <1>12, <1>17 DEF Joined
  <1>19. ASSUME NEW n \in durable, Region!UpToDate(n)
         PROVE  Region!ResultKey(n) \in DOMAIN rows /\ rows[Region!ResultKey(n)] = Now[n]
    <2>1. Region!ResultKey(n) \in DOMAIN rows
      BY <1>8, <1>13, <1>19 DEF Region!UpToDate, RegionParents
    <2> QED
      BY <1>8, <1>13, <2>1, KnownResult
  <1>20. Done(v)
    <2>1. \A n \in DOMAIN v.values : n \in durable /\ Region!UpToDate(n) /\ v.values[n] = Now[n]
      BY <1>17, <1>19
    <2>2. ASSUME NEW r \in regions, r.output \notin v.pending PROVE Region!Covered(r)
      <3>1. Region!UpToDate(r.output)
        BY <1>13, <1>17, <2>2
      <3>2. Region!Sealed(r, Region!ResultKey(r.output), Region!UpToDate(r.output))
        BY <1>11, <3>1 DEF Region!Admitted, Region!UpToDate
      <3>3. Region!Sealed(r, Region!ResultKey(r.output), TRUE)
        BY <3>1, <3>2 DEF Region!Sealed
      <3> QED
        BY <3>3, SealsCover
    <2> QED
      BY <1>13, <1>17, <2>1, <2>2 DEF Done
  <1>21. Blocked(v)
    <2>1. source \in Seq(scope.numbers) /\ scope.canonicalSessions \in Nat \ {0}
      BY <1>8 DEF RegionParents, RegionGraph
    <2>2. v.blocks \in Seq(DOMAIN rows) /\ Len(v.blocks) = 0
      BY <1>17, EmptySeq
    <2> QED
      BY <1>17, <2>1, <2>2 DEF Blocked
  <1>22. Keeping
    BY <1>7 DEF Keeping
  <1>23. RegionExecution(v)'
    BY <1>8, <1>18, <1>20, <1>21, <1>22, KeepingExecution DEF RegionExecution
  <1>24. RegionParents' /\ RegionRows' /\ Certificates'
    <2>1. RegionParents'
      BY <1>7, <1>8, RegionMeaningStays DEF RegionParents
    <2> QED
      BY <1>7, <1>8, <2>1, RegionMeaningStays DEF RegionRows, Certificates, Certified
  <1> QED
    BY <1>5, <1>23, <1>24 DEF RegionInv

-----------------------------------------------------------------------------
(* Nodes that are finished. *)

LEMMA RegionBounds == \A S : Region!Min(S) = Min(S) /\ Region!Max(S) = Max(S)
  BY DEF Region!Max, Max, Region!Min, Min

\* Cells are added under a key unless it has some.
Adding(f, known, key, cells) ==
    /\ DOMAIN f = DOMAIN known \cup {key} /\ \A k \in DOMAIN known : f[k] = known[k]
    /\ key \notin DOMAIN known => f[key] = cells

LEMMA RegionWith ==
    ASSUME NEW known, NEW key, NEW cells
    PROVE  Adding(Region!With(known, key, cells), known, key, cells)
  <1>1. CASE key \in DOMAIN known
    <2>1. Region!With(known, key, cells) = known
      BY <1>1 DEF Region!With
    <2> QED
      BY <1>1, <2>1 DEF Adding
  <1>2. CASE key \notin DOMAIN known
    <2>1. Region!With(known, key, cells) = [k \in DOMAIN known \cup {key} |-> IF k = key THEN cells ELSE known[k]]
      BY <1>2 DEF Region!With
    <2> QED
      BY <1>2, <2>1 DEF Adding
  <1> QED
    BY <1>1, <1>2

\* A node is the output of one region.
LEMMA OutputsOfRegions ==
    ASSUME NEW r \in work.regions, Joined(work)
    PROVE  Region!IsRegion(r.output) /\ Region!RegionOf(r.output) = r
  <1>1. \A q \in work.regions : q.output = r.output => q = r
    BY DEF Joined, Apart
  <1> QED
    BY <1>1 DEF Region!IsRegion, Region!RegionOf

LEMMA TurnIsPending ==
    ASSUME RegionGraph, Joined(work), work.pending # {}
    PROVE  Region!Turn \in work.pending /\ Region!Turn = Min(work.pending) /\ Region!Turn \in Region!Nodes
  <1>1. work.pending \in SUBSET Nat /\ work.pending \subseteq Region!Nodes
    BY DEF RegionGraph, Joined, Apart
  <1>2. Min(work.pending) \in work.pending
    BY <1>1, MinOfNumbers
  <1> QED
    BY <1>1, <1>2, RegionBounds DEF Region!Turn

\* A node that is finished with what it gives, under its key.
LEMMA FinishedKeeps ==
    ASSUME RegionInv, RegionExecution(work), Keeping, NEW n \in work.pending, NEW cells,
           Region!Finished(n, cells), cells = Now[n], Region!ResultKey(n) \in (DOMAIN rows)',
           \A r \in work.regions : r.output = n => Region!Covered(r)',
           RegionRows', Certificates'
    PROVE  RegionInv'
  <1>1. PICK w : w = work
    OBVIOUS
  <1>2. PICK v : v = work'
    OBVIOUS
  <1>3. PICK values : values = Region!With(w.values, n, cells)
    OBVIOUS
  <1>4. /\ Joined(w) /\ Done(w) /\ Blocked(w) /\ n \in w.pending /\ RegionParents /\ RegionGraph
    BY <1>1 DEF RegionExecution, RegionInv, RegionParents
  <1>0. PICK pending : pending = w.pending \ {n}
    OBVIOUS
  <1>5. v = [w EXCEPT !.pending = pending, !.first = 1, !.blocks = <<>>, !.values = values]
    BY <1>0, <1>1, <1>2, <1>3 DEF Region!Finished
  <1>6. w = [step |-> "run", regions |-> w.regions, durable |-> w.durable, pending |-> w.pending,
             values |-> w.values, first |-> w.first, blocks |-> w.blocks]
    BY <1>4 DEF Joined
  <1>7. v = [step |-> "run", regions |-> w.regions, durable |-> w.durable, pending |-> pending,
             values |-> values, first |-> 1, blocks |-> <<>>]
    <2>1. PICK a, b, c, d, e, f : w = [step |-> "run", regions |-> a, durable |-> b, pending |-> c,
                                       values |-> d, first |-> e, blocks |-> f]
      BY <1>6
    <2>2. v = [step |-> "run", regions |-> a, durable |-> b, pending |-> pending,
               values |-> values, first |-> 1, blocks |-> <<>>]
      BY <1>5, <2>1
    <2>3. w.regions = a /\ w.durable = b
      BY <2>1
    <2> QED
      BY <2>2, <2>3
  <1>8. /\ v.step = "run" /\ v.regions = w.regions /\ v.durable = w.durable /\ v.pending = w.pending \ {n}
        /\ v.values = values /\ v.first = 1 /\ v.blocks = <<>>
    BY <1>0, <1>7
  <1>9. /\ DOMAIN values = DOMAIN w.values \cup {n} /\ \A k \in DOMAIN w.values : values[k] = w.values[k]
        /\ n \notin DOMAIN w.values => values[n] = cells
    <2>1. Adding(values, w.values, n, cells)
      BY <1>3, RegionWith
    <2> QED
      BY <2>1 DEF Adding
  <1>10. n \in Region!Nodes
    BY <1>4 DEF Joined, Apart
  <1>11. Joined(v)
    <2>1. v = [step |-> "run", regions |-> v.regions, durable |-> v.durable, pending |-> v.pending,
               values |-> v.values, first |-> v.first, blocks |-> v.blocks]
      BY <1>7, <1>8
    <2> QED
      BY <1>4, <1>8, <2>1 DEF Joined
  <1>12. Joined(v)'
    BY <1>11, KeepingJoined
  <1>13. Done(v)'
    <2>1. Now' = Now /\ Region!Nodes' = Region!Nodes
      BY KeepingNow, RegionMeaningStays DEF Keeping
    <2>2. DOMAIN v.values \subseteq Region!Nodes /\ \A k \in DOMAIN v.values : v.values[k] = Now[k]
      BY <1>4, <1>8, <1>9, <1>10 DEF Done
    <2>3. \A r \in v.regions : r.output \in v.pending \/ Region!Covered(r)'
      <3>1. \A r \in w.regions : r.output \in w.pending \/ Region!Covered(r)'
        BY <1>4, KeepingCovers DEF Done
      <3> QED
        BY <1>1, <1>8, <3>1
    <2> QED
      BY <2>1, <2>2, <2>3 DEF Done
  <1>14. Blocked(v)'
    <2>1. Blocked(v)
      <3>1. source \in Seq(scope.numbers) /\ scope.canonicalSessions \in Nat \ {0}
        BY <1>4 DEF RegionParents, RegionGraph
      <3>2. v.blocks \in Seq(DOMAIN rows) /\ Len(v.blocks) = 0
        BY <1>8, EmptySeq
      <3> QED
        BY <1>8, <3>1, <3>2 DEF Blocked
    <2> QED
      BY <1>4, <2>1, KeepingBlocked
  <1>15. RegionParents'
    <2>1. latest' = [latest EXCEPT ![n] = {Region!ResultKey(n)}]
      BY DEF Region!Finished
    <2>2. latest = [m \in Region!Nodes |-> latest[m]] /\ \A m \in Region!Nodes : latest[m] \subseteq DOMAIN rows
      BY <1>4 DEF RegionParents
    <2>3. /\ latest' = [m \in Region!Nodes |-> latest'[m]]
          /\ \A m \in Region!Nodes : latest'[m] = IF m = n THEN {Region!ResultKey(n)} ELSE latest[m]
      BY <1>10, <2>1, <2>2
    <2>4. \A m \in Region!Nodes : latest'[m] \subseteq (DOMAIN rows)'
      BY <2>2, <2>3 DEF Keeping
    <2> QED
      BY <1>4, <2>3, <2>4, KeepingParents
  <1>16. RegionExecution(v)'
    BY <1>12, <1>13, <1>14 DEF RegionExecution
  <1> QED
    BY <1>2, <1>15, <1>16 DEF RegionInv

\* A node that is executed: a plan is running, and what the node reads is done.
LEMMA AtWork == ASSUME RegionInv, Region!At("run") PROVE RegionExecution(work) /\ RegionGraph
  BY DEF RegionInv, RegionParents, Region!At

LEMMA HitKeepsRegions == ASSUME RegionInv, Region!Hit PROVE RegionInv'
  <1>1. PICK n : n = Region!Turn
    OBVIOUS
  <1>2. /\ Region!At("run") /\ work.pending # {} /\ Region!ResultKey(n) \in DOMAIN rows
        /\ Region!IsRegion(n) => Region!Sealed(Region!RegionOf(n), Region!ResultKey(n), TRUE)
        /\ Region!Finished(n, rows[Region!ResultKey(n)])
        /\ UNCHANGED <<scope, source, upgraded, rows, certificates, seals>>
    BY <1>1 DEF Region!Hit, Region!Known
  <1>3. RegionExecution(work) /\ RegionGraph /\ Joined(work)
    BY <1>2, AtWork DEF RegionExecution
  <1>4. n \in work.pending /\ n \in Region!Nodes
    BY <1>1, <1>2, <1>3, TurnIsPending
  <1>5. rows[Region!ResultKey(n)] = Now[n]
    BY <1>2, <1>3, <1>4, KnownResult DEF RegionInv
  <1>6. Keeping
    BY <1>2 DEF Keeping
  <1>7. ASSUME NEW r \in work.regions, r.output = n PROVE Region!Covered(r)'
    <2>1. Region!IsRegion(n) /\ Region!RegionOf(n) = r
      BY <1>3, <1>7, OutputsOfRegions
    <2>2. Region!Sealed(r, Region!ResultKey(r.output), TRUE)
      BY <1>2, <1>7, <2>1
    <2> QED
      BY <1>6, <2>2, SealsCover, KeepingCovers
  <1>8. RegionRows' /\ Certificates'
    BY <1>2, RegionMeaningStays DEF RegionInv, RegionRows, Certificates, Certified
  <1>9. Region!ResultKey(n) \in (DOMAIN rows)'
    BY <1>2
  <1> QED
    BY <1>2, <1>3, <1>4, <1>5, <1>6, <1>7, <1>8, <1>9, FinishedKeeps

-----------------------------------------------------------------------------
(* Sessions of blocks. *)

LEMMA BlockEnds ==
    ASSUME RegionGraph, source \in Seq(scope.numbers), NEW o \in DOMAIN source
    PROVE  /\ Region!BlockEnd(o) \in o .. Len(source) /\ Region!BlockEnd(o) \in DOMAIN source
           /\ Region!BlockEnd(o) <= o + scope.canonicalSessions - 1
           /\ Region!BlockEnd(o) = o + scope.canonicalSessions - 1 \/ Region!BlockEnd(o) = Len(source)
  <1>1. /\ scope.canonicalSessions \in Nat \ {0} /\ o \in Nat \ {0} /\ Len(source) \in Nat /\ o <= Len(source)
        /\ DOMAIN source = 1 .. Len(source)
    BY DEF RegionGraph
  <1>2. PICK a : a = o + scope.canonicalSessions - 1
    OBVIOUS
  <1>3. a \in Nat /\ Region!BlockEnd(o) = Min({a, Len(source)})
    BY <1>1, <1>2, RegionBounds DEF Region!BlockEnd
  <1>4. Region!BlockEnd(o) = IF a <= Len(source) THEN a ELSE Len(source)
    BY <1>1, <1>3, MinOfTwo
  <1> QED
    BY <1>1, <1>2, <1>4

-----------------------------------------------------------------------------
(* What nodes compute. *)

\* What is done is what nodes give.
LEMMA ValuesGive ==
    ASSUME RegionGraph, Done(work)
    PROVE  \A p \in DOMAIN work.values \cup {0} : Region!Values[p] = Now[p]
  <1>1. 0 \notin Region!Nodes
    BY DEF RegionGraph
  <1>2. Now[0] = source
    BY EvaluateUnfolds DEF Now
  <1> QED
    BY <1>1, <1>2 DEF Done, Region!Values

LEMMA NowUnfolds ==
    ASSUME RegionGraph, NEW n \in Region!Nodes
    PROVE  Now[n] = [t \in DOMAIN source |-> Region!Apply(n, upgraded, [p \in Region!Parents(n) |-> Now[p][t]])]
  BY EvaluateUnfolds DEF Now

\* A block gives what its node gives for what its key binds.
LEMMA BlockKeyGives ==
    ASSUME NEW n, NEW first, NEW last, NEW contents
    PROVE  /\ Region!BlockKey(n, first, last, contents).kind = "block"
           /\ Region!BlockKey(n, first, last, contents).first = first
           /\ Region!BlockKey(n, first, last, contents).last = last
           /\ BlockGives(Region!BlockKey(n, first, last, contents))
                = [t \in first .. last |-> Region!Apply(n, upgraded, [p \in Region!Parents(n) |-> contents[p][t]])]
  <1>1. PICK k : k = Region!BlockKey(n, first, last, contents)
    OBVIOUS
  <1>2. /\ k.kind = "block" /\ k.node = n /\ k.changed = (n \in upgraded) /\ k.first = first /\ k.last = last
        /\ k.proofs = [p \in Region!Parents(n) |-> [t \in first .. last |-> contents[p][t]]]
    BY <1>1 DEF Region!BlockKey
  <1>3. ASSUME NEW t \in first .. last
        PROVE  [p \in Region!Parents(n) |-> k.proofs[p][t]] = [p \in Region!Parents(n) |-> contents[p][t]]
    BY <1>2
  <1>4. PICK own : own = IF k.changed THEN {n} ELSE {}
    OBVIOUS
  <1>5. n \in own <=> n \in upgraded
    BY <1>2, <1>4
  <1>6. \A cells : Region!Apply(n, own, cells) = Region!Apply(n, upgraded, cells)
    BY <1>5, OwnChange
  <1>7. BlockGives(k) = [t \in first .. last |-> Region!Apply(n, own, [p \in Region!Parents(n) |-> k.proofs[p][t]])]
    BY <1>2, <1>4 DEF BlockGives
  <1>8. BlockGives(k) = [t \in first .. last |-> Region!Apply(n, upgraded, [p \in Region!Parents(n) |-> contents[p][t]])]
    BY <1>3, <1>6, <1>7
  <1> QED
    BY <1>1, <1>2, <1>8

\* A block that binds what the parents give now gives what the node gives now.
LEMMA BlockIsNow ==
    ASSUME RegionGraph, NEW n \in Region!Nodes, NEW first, NEW last, NEW contents,
           first .. last \subseteq DOMAIN source,
           \A p \in Region!Parents(n) : \A t \in first .. last : contents[p][t] = Now[p][t]
    PROVE  \A t \in first .. last : BlockGives(Region!BlockKey(n, first, last, contents))[t] = Now[n][t]
  <1> SUFFICES ASSUME NEW t \in first .. last
               PROVE  BlockGives(Region!BlockKey(n, first, last, contents))[t] = Now[n][t]
    OBVIOUS
  <1>1. [p \in Region!Parents(n) |-> contents[p][t]] = [p \in Region!Parents(n) |-> Now[p][t]]
    OBVIOUS
  <1>2. PICK k : k = Region!BlockKey(n, first, last, contents)
    OBVIOUS
  <1>3. BlockGives(k) = [u \in first .. last |-> Region!Apply(n, upgraded, [p \in Region!Parents(n) |-> contents[p][u]])]
    BY <1>2, BlockKeyGives
  <1>4. BlockGives(k)[t] = Region!Apply(n, upgraded, [p \in Region!Parents(n) |-> contents[p][t]])
    BY <1>3
  <1>5. Now[n][t] = Region!Apply(n, upgraded, [p \in Region!Parents(n) |-> Now[p][t]])
    BY NowUnfolds
  <1> QED
    BY <1>1, <1>2, <1>4, <1>5

LEMMA NowHasSessions == ASSUME RegionGraph, NEW n \in Region!Nodes PROVE Now[n] = [t \in DOMAIN source |-> Now[n][t]]
  BY NowUnfolds

\* A node that runs: what it reads is what nodes give.
LEMMA RunFacts ==
    ASSUME RegionInv, NEW n, Region!Runs(n)
    PROVE  /\ RegionExecution(work) /\ RegionGraph /\ source \in Seq(scope.numbers)
           /\ n \in work.pending /\ n \in Region!Nodes /\ n = Min(work.pending)
           /\ Region!ResultKey(n) \notin DOMAIN rows
           /\ \A p \in Region!Reads(n) \cup {0} : Region!Values[p] = Now[p] /\ p \in DOMAIN work.values \cup {0}
  <1>1. /\ Region!At("run") /\ n \in work.pending /\ n = Region!Turn /\ Region!ResultKey(n) \notin DOMAIN rows
        /\ Region!Reads(n) \subseteq DOMAIN work.values
    BY DEF Region!Runs, Region!Known
  <1>2. RegionExecution(work) /\ RegionGraph /\ Joined(work) /\ Done(work) /\ source \in Seq(scope.numbers)
    BY <1>1, AtWork DEF RegionExecution, RegionInv, RegionParents
  <1>3. n \in Region!Nodes /\ n = Min(work.pending)
    BY <1>1, <1>2, TurnIsPending
  <1> QED
    BY <1>1, <1>2, <1>3, ValuesGive

\* A result that is registered: it is what its node gives, and what was published stays.
LEMMA ResultKeepsRows ==
    ASSUME RegionInv, NEW n \in Region!Nodes, NEW held, Keeping, UNCHANGED certificates,
           DOMAIN rows \subseteq DOMAIN held,
           \A k \in DOMAIN held : RegionRow(k, held[k]),
           Region!ResultKey(n) \notin DOMAIN held,
           rows' = Region!With(held, Region!ResultKey(n), Now[n])
    PROVE  RegionRows' /\ Certificates' /\ Region!ResultKey(n) \in (DOMAIN rows)'
  <1>1. RegionGraph /\ RegionRows /\ Certificates
    BY DEF RegionInv, RegionParents
  <1>2. Adding(rows', held, Region!ResultKey(n), Now[n])
    BY RegionWith
  <1>3. RegionRow(Region!ResultKey(n), Now[n])
    <2>1. Region!ResultKey(n).kind = "result"
      BY DEF Region!ResultKey
    <2> QED
      BY <1>1, <2>1, ResultIsNow DEF RegionRow
  <1>4. \A k \in (DOMAIN rows)' : RegionRow(k, rows'[k])
    BY <1>2, <1>3 DEF Adding
  <1>5. RegionRows'
    BY <1>1, <1>4, KeepingRows
  <1>6. Certificates'
    BY <1>1, KeepingCertified DEF Certificates
  <1> QED
    BY <1>2, <1>5, <1>6 DEF Adding

LEMMA FiniteKeepsRegions == ASSUME RegionInv, NEW n, Region!Finite(n) PROVE RegionInv'
  <1> DEFINE c == scope.canonicalSessions
             whole(first) == Region!BlockKey(n, first, Region!BlockEnd(first), Region!Values)
             start(t) == ((t - 1) \div c) * c + 1
             cells(first, last) == [t \in first .. last |->
                                      Region!Apply(n, upgraded, [p \in Region!Parents(n) |-> Region!Values[p][t]])]
             held == [k \in DOMAIN rows \cup {whole(first) : first \in Region!Origins} |->
                        IF k \in DOMAIN rows THEN rows[k] ELSE cells(k.first, k.last)]
             result == [t \in DOMAIN source |-> held[whole(start(t))][t]]
  <1>5. /\ Region!Runs(n) /\ ~ Region!IsRegion(n)
        /\ rows' = Region!With(held, Region!ResultKey(n), result)
        /\ Region!Finished(n, result)
        /\ UNCHANGED <<scope, source, upgraded, certificates, seals>>
    BY DEF Region!Finite
  <1> HIDE DEF whole, held, result
  <1>6. /\ RegionExecution(work) /\ RegionGraph /\ source \in Seq(scope.numbers)
        /\ n \in work.pending /\ n \in Region!Nodes
        /\ Region!ResultKey(n) \notin DOMAIN rows
        /\ \A p \in Region!Reads(n) \cup {0} : Region!Values[p] = Now[p]
    BY <1>5, RunFacts
  <1>7. \A p \in Region!Parents(n) : Region!Values[p] = Now[p]
    BY <1>5, <1>6 DEF Region!Reads
  <1>8. ASSUME NEW first \in Region!Origins
        PROVE  LET k == whole(first) IN
               /\ RegionRow(k, held[k]) /\ k.kind = "block"
               /\ \A t \in first .. Region!BlockEnd(first) : held[k][t] = Now[n][t]
    <2>1. PICK k, last : k = whole(first) /\ last = Region!BlockEnd(first)
      OBVIOUS
    <2>2. /\ k.kind = "block" /\ k.first = first /\ k.last = last
          /\ BlockGives(k) = cells(first, last)
      BY <2>1, BlockKeyGives DEF whole
    <2>3. held[k] = BlockGives(k)
      <3>1. CASE k \in DOMAIN rows
        <4>1. RegionRow(k, rows[k])
          BY <3>1 DEF RegionInv, RegionRows
        <4>2. held[k] = rows[k]
          BY <2>1, <3>1 DEF held
        <4> QED
          BY <2>2, <4>1, <4>2 DEF RegionRow
      <3>2. CASE k \notin DOMAIN rows
        <4>1. held[k] = cells(k.first, k.last)
          BY <2>1, <3>2 DEF held
        <4> QED
          BY <2>2, <4>1
      <3> QED
        BY <3>1, <3>2
    <2>4. first .. last \subseteq DOMAIN source
      <3>1. first \in DOMAIN source /\ DOMAIN source = 1 .. Len(source) /\ Len(source) \in Nat
        BY <1>6 DEF Region!Origins
      <3>2. last \in DOMAIN source
        BY <1>6, <2>1, <3>1, BlockEnds
      <3> QED
        BY <3>1, <3>2
    <2>5. \A t \in first .. last : BlockGives(k)[t] = Now[n][t]
      BY <1>6, <1>7, <2>1, <2>4, BlockIsNow DEF whole
    <2>6. RegionRow(k, held[k])
      BY <2>2, <2>3 DEF RegionRow
    <2> QED
      BY <2>1, <2>2, <2>3, <2>5, <2>6
  <1>9. ASSUME NEW t \in DOMAIN source PROVE result[t] = Now[n][t]
    <2>1. /\ c \in Nat \ {0} /\ t \in Nat \ {0} /\ DOMAIN source = 1 .. Len(source) /\ Len(source) \in Nat
          /\ t <= Len(source)
      BY <1>6 DEF RegionGraph
    <2>2. PICK o : o = start(t)
      OBVIOUS
    <2>3. o \in Nat \ {0} /\ o <= t /\ t <= o + c - 1 /\ (o - 1) % c = 0
      <3>1. PICK l : l = c
        OBVIOUS
      <3>2. l \in Nat \ {0} /\ t \in Nat \ {0} /\ o = BlockStart(t, l)
        BY <2>1, <2>2, <3>1 DEF BlockStart
      <3>3. o \in Nat \ {0} /\ o <= t /\ t <= o + l - 1 /\ (o - 1) % l = 0
        BY <3>2, StartOfSession
      <3> QED
        BY <3>1, <3>3
    <2>4. o \in DOMAIN source /\ o \in Region!Origins
      BY <2>1, <2>3 DEF Region!Origins
    <2>5. PICK e : e = Region!BlockEnd(o)
      OBVIOUS
    <2>6. e \in o .. Len(source) /\ e \in DOMAIN source /\ t <= e
      <3>1. e \in o .. Len(source) /\ e \in DOMAIN source /\ (e = o + c - 1 \/ e = Len(source))
        BY <1>6, <2>4, <2>5, BlockEnds
      <3> QED
        BY <2>1, <2>3, <3>1
    <2>7. result[t] = held[whole(o)][t]
      BY <2>2 DEF result
    <2> QED
      BY <1>8, <2>1, <2>3, <2>4, <2>5, <2>6, <2>7
  <1>10. result = Now[n]
    <2>1. Now[n] = [t \in DOMAIN source |-> Now[n][t]]
      BY <1>6, NowHasSessions
    <2>2. result = [t \in DOMAIN source |-> result[t]]
      BY DEF result
    <2> QED
      BY <1>9, <2>1, <2>2
  <1>11. /\ DOMAIN held = DOMAIN rows \cup {whole(first) : first \in Region!Origins}
         /\ \A k \in DOMAIN rows : held[k] = rows[k]
         /\ \A k \in DOMAIN held : RegionRow(k, held[k])
    <2>1. /\ DOMAIN held = DOMAIN rows \cup {whole(first) : first \in Region!Origins}
          /\ \A k \in DOMAIN rows : held[k] = rows[k]
      BY DEF held
    <2>2. \A k \in DOMAIN rows : RegionRow(k, rows[k])
      BY DEF RegionInv, RegionRows
    <2> QED
      BY <1>8, <2>1, <2>2
  <1>12. Region!ResultKey(n) \notin DOMAIN held
    <2>1. Region!ResultKey(n).kind = "result"
      BY DEF Region!ResultKey
    <2>2. \A first \in Region!Origins : whole(first).kind # "result"
      BY <1>8
    <2> QED
      BY <1>6, <1>11, <2>1, <2>2
  <1>13. Keeping
    <2>1. Adding(rows', held, Region!ResultKey(n), result)
      BY <1>5, RegionWith
    <2> QED
      BY <1>5, <1>11, <2>1 DEF Keeping, Adding
  <1>14. RegionRows' /\ Certificates' /\ Region!ResultKey(n) \in (DOMAIN rows)'
    BY <1>5, <1>6, <1>10, <1>11, <1>12, <1>13, ResultKeepsRows
  <1>15. \A r \in work.regions : r.output # n
    BY <1>5 DEF Region!IsRegion
  <1> QED
    BY <1>5, <1>6, <1>10, <1>13, <1>14, <1>15, FinishedKeeps

LEMMA SealKeepsRegions == ASSUME RegionInv, NEW n, Region!Seal(n) PROVE RegionInv'
  <1>1. PICK result : result = [t \in DOMAIN source |->
                                 rows[work.blocks[((t - 1) \div scope.canonicalSessions) + 1]][t]]
    OBVIOUS
  <1>2. /\ Region!Runs(n) /\ Region!IsRegion(n) /\ work.first > Len(source)
        /\ rows' = Region!With(rows, Region!ResultKey(n), result)
        /\ Region!Finished(n, result)
        /\ seals' = seals \cup {Region!SealOf(Region!RegionOf(n))}
        /\ UNCHANGED <<scope, source, upgraded, certificates>>
    BY <1>1 DEF Region!Seal
  <1>3. /\ RegionExecution(work) /\ RegionGraph /\ source \in Seq(scope.numbers)
        /\ n \in work.pending /\ n \in Region!Nodes /\ n = Min(work.pending)
        /\ Region!ResultKey(n) \notin DOMAIN rows
    BY <1>2, RunFacts
  <1>4. result = Now[n]
    <2>1. Now[n] = [t \in DOMAIN source |-> Now[n][t]]
      BY <1>3, NowHasSessions
    <2>2. ASSUME NEW t \in DOMAIN source PROVE result[t] = Now[n][t]
      <3>1. t < work.first
        <4>1. work.first \in Nat /\ t \in 1 .. Len(source) /\ Len(source) \in Nat
          BY <1>3 DEF RegionExecution, Blocked
        <4> QED
          BY <1>2, <4>1
      <3>2. rows[BlockAt(work, t)][t] = Now[n][t]
        BY <1>3, <3>1 DEF RegionExecution, Blocked
      <3> QED
        BY <1>1, <3>2 DEF BlockAt
    <2>3. result = [t \in DOMAIN source |-> result[t]]
      BY <1>1
    <2> QED
      BY <2>1, <2>2, <2>3
  <1>5. Keeping
    <2>1. Adding(rows', rows, Region!ResultKey(n), result)
      BY <1>2, RegionWith
    <2> QED
      BY <1>2, <2>1 DEF Keeping, Adding
  <1>6. RegionRows' /\ Certificates' /\ Region!ResultKey(n) \in (DOMAIN rows)'
    <2>1. \A k \in DOMAIN rows : RegionRow(k, rows[k])
      BY DEF RegionInv, RegionRows
    <2> QED
      BY <1>2, <1>3, <1>4, <1>5, <2>1, ResultKeepsRows
  <1>7. ASSUME NEW r \in work.regions, r.output = n PROVE Region!Covered(r)'
    <2>1. Region!RegionOf(n) = r
      BY <1>3, <1>7, OutputsOfRegions DEF RegionExecution
    <2>2. PICK seal : seal = Region!SealOf(r)
      OBVIOUS
    <2>3. /\ seal.result = Region!ResultKey(r.output)
          /\ seal.keys = [m \in r.nodes |-> Region!ResultKey(m)]
      BY <2>2 DEF Region!SealOf
    <2>4. seal \in seals'
      BY <1>2, <2>1, <2>2
    <2>5. \A m : Region!ResultKey(m)' = Region!ResultKey(m)
      BY <1>5, KeepingKeys
    <2>6. seal \in Region!SealsOf(Region!ResultKey(r.output))'
      BY <2>3, <2>4, <2>5 DEF Region!SealsOf
    <2>7. \A m \in r.nodes : m \in DOMAIN seal.keys /\ seal.keys[m].node = m
      BY <2>3 DEF Region!ResultKey
    <2> QED
      BY <2>6, <2>7 DEF Region!Covered
  <1> QED
    BY <1>2, <1>3, <1>4, <1>5, <1>6, <1>7, FinishedKeeps

-----------------------------------------------------------------------------
(* The blocks of a region. *)

\* The missing cells of the nodes of a region, from those of its inputs.
MissingOf(f, r, from, end, n) ==
    IF n \notin r.nodes THEN Region!Values[n]
    ELSE [t \in from .. end |-> Region!Apply(n, upgraded, [p \in Region!Parents(n) |-> f[p][t]])]

LEMMA ParentsOfRegion ==
    ASSUME NEW r, NEW n \in r.nodes
    PROVE  Region!Parents(n) \subseteq r.nodes \cup Region!External(r)
  BY DEF Region!External

LEMMA MissingGives ==
    ASSUME RegionGraph, NEW r, r.nodes \subseteq Region!Nodes,
           \A p \in Region!External(r) : Region!Values[p] = Now[p],
           NEW from, NEW end, end = Region!BlockEnd(work.first), from .. end \subseteq DOMAIN source
    PROVE  \A n \in r.nodes : \A t \in from .. end : Region!Missing(r, from)[n][t] = Now[n][t]
  <1> DEFINE D == r.nodes \cup Region!External(r)
             G == [n \in D |-> IF n \notin r.nodes THEN Region!Values[n] ELSE [t \in from .. end |-> Now[n][t]]]
             F == Region!Missing(r, from)
  <1>1. F = CHOOSE f : f = [n \in D |-> MissingOf(f, r, from, end, n)]
    BY DEF Region!Missing, MissingOf
  <1>2. ASSUME NEW n \in D PROVE G[n] = MissingOf(G, r, from, end, n)
    <2>1. CASE n \notin r.nodes
      BY <2>1 DEF MissingOf
    <2>2. CASE n \in r.nodes
      <3>1. ASSUME NEW t \in from .. end, NEW p \in Region!Parents(n) PROVE G[p][t] = Now[p][t]
        <4>1. p \in D
          BY <2>2, ParentsOfRegion
        <4>2. CASE p \in r.nodes
          BY <4>1, <4>2
        <4>3. CASE p \notin r.nodes
          BY <4>1, <4>3
        <4> QED
          BY <4>2, <4>3
      <3> HIDE DEF G
      <3>2. ASSUME NEW t \in from .. end
            PROVE  Region!Apply(n, upgraded, [p \in Region!Parents(n) |-> G[p][t]]) = Now[n][t]
        <4>1. [p \in Region!Parents(n) |-> G[p][t]] = [p \in Region!Parents(n) |-> Now[p][t]]
          BY <3>1
        <4>2. Now[n][t] = Region!Apply(n, upgraded, [p \in Region!Parents(n) |-> Now[p][t]])
          BY <2>2, NowUnfolds
        <4> QED
          BY <4>1, <4>2
      <3>3. G[n] = [t \in from .. end |-> Now[n][t]]
        BY <2>2 DEF G
      <3> QED
        BY <2>2, <3>2, <3>3 DEF MissingOf
    <2> QED
      BY <2>1, <2>2
  <1>3. G = [n \in D |-> G[n]]
    OBVIOUS
  <1> HIDE DEF G, F, D
  <1>4. G = [n \in D |-> MissingOf(G, r, from, end, n)]
    BY <1>2, <1>3
  <1>5. F = [n \in D |-> MissingOf(F, r, from, end, n)]
    BY <1>1, <1>4
  <1>6. \A n \in D : F[n] = MissingOf(F, r, from, end, n)
    BY <1>5
  <1>7. ASSUME NEW n \in r.nodes
        PROVE  F[n] = [t \in from .. end |-> Region!Apply(n, upgraded, [p \in Region!Parents(n) |-> F[p][t]])]
    <2>1. n \in D
      BY DEF D
    <2> QED
      BY <1>6, <2>1 DEF MissingOf
  <1>8. ASSUME NEW n \in r.nodes, NEW p \in Region!Parents(n) \ r.nodes PROVE F[p] = Now[p]
    <2>1. p \in Region!External(r) /\ p \in D
      BY ParentsOfRegion DEF D
    <2>2. F[p] = Region!Values[p]
      BY <1>6, <2>1 DEF MissingOf
    <2> QED
      BY <2>1, <2>2
  <1>9. ASSUME NEW t \in from .. end PROVE \A n \in r.nodes : F[n][t] = Now[n][t]
    <2>1. t \in DOMAIN source /\ r.nodes \subseteq Region!Nodes
      OBVIOUS
    <2>2. \A n \in r.nodes : F[n][t] = Region!Apply(n, upgraded, [p \in Region!Parents(n) |-> F[p][t]])
      BY <1>7
    <2>3. \A n \in r.nodes : \A p \in Region!Parents(n) \ r.nodes : F[p][t] = Region!Evaluate(source, upgraded)[p][t]
      BY <1>8 DEF Now
    <2>4. Follows(F, source, upgraded, r.nodes, t)
      BY <2>2, <2>3 DEF Follows
    <2>5. \A n \in r.nodes : F[n][t] = Region!Evaluate(source, upgraded)[n][t]
      <3>1. PICK nodes, f : nodes = r.nodes /\ f = F
        OBVIOUS
      <3>2. RegionGraph /\ nodes \subseteq Region!Nodes /\ Follows(f, source, upgraded, nodes, t) /\ t \in DOMAIN source
        BY <2>1, <2>4, <3>1
      <3>3. \A n \in nodes : f[n][t] = Region!Evaluate(source, upgraded)[n][t]
        BY ONLY <3>2, CellsAgree
      <3> QED
        BY <3>1, <3>3
    <2> QED
      BY <2>5 DEF Now
  <1> QED
    BY <1>9 DEF F

\* The contents of the parents of a node as a certificate has them.
CertifiedOf(certificate, region, n) ==
    IF n \in region.nodes THEN certificate.nodes[n].index ELSE Region!Values[n]

\* The published block of a certificate.
OwnBlock(certificate, region) == certificate.nodes[region.output].key

\* A certificate that matches the inputs of a region has what its nodes give.
LEMMA CertificateGives ==
    ASSUME RegionGraph, RegionRows, NEW r, r.nodes \subseteq Region!Nodes, r.output \in r.nodes,
           \A p \in Region!External(r) : Region!Values[p] = Now[p],
           NEW c, Certified(c), Region!Matches(r, c), c.first .. c.last \subseteq DOMAIN source
    PROVE  /\ \A m \in r.nodes : \A t \in c.first .. c.last : c.nodes[m].index[t] = Now[m][t]
           /\ OwnBlock(c, r) \in DOMAIN rows /\ rows[OwnBlock(c, r)] = BlockGives(OwnBlock(c, r))
           /\ \A t \in c.first .. c.last : rows[OwnBlock(c, r)][t] = Now[r.output][t]
  <1>1. /\ c.output = r.output /\ r.nodes \subseteq DOMAIN c.nodes
        /\ \A m \in r.nodes : c.nodes[m].key = Region!BlockKey(m, c.first, c.last,
                                 [p \in Region!Parents(m) |-> CertifiedOf(c, r, p)])
    BY DEF Region!Matches, CertifiedOf
  <1>2. /\ c.nodes[r.output].key \in DOMAIN rows
        /\ \A m \in r.nodes : c.nodes[m].index = BlockGives(c.nodes[m].key)
    BY <1>1 DEF Certified
  <1> DEFINE D == r.nodes \cup Region!External(r)
             F == [p \in D |-> CertifiedOf(c, r, p)]
  <1>3. ASSUME NEW m \in r.nodes, NEW t \in c.first .. c.last
        PROVE  F[m][t] = Region!Apply(m, upgraded, [p \in Region!Parents(m) |-> F[p][t]])
    <2>1. PICK contents : contents = [p \in Region!Parents(m) |-> CertifiedOf(c, r, p)]
      OBVIOUS
    <2>2. \A p \in Region!Parents(m) : contents[p] = F[p]
      BY <2>1, ParentsOfRegion
    <2>3. F[m] = BlockGives(Region!BlockKey(m, c.first, c.last, contents))
      BY <1>1, <1>2, <2>1 DEF CertifiedOf
    <2> HIDE DEF F
    <2>4. BlockGives(Region!BlockKey(m, c.first, c.last, contents))
             = [u \in c.first .. c.last |-> Region!Apply(m, upgraded, [p \in Region!Parents(m) |-> contents[p][u]])]
      <3>1. PICK a, b : a = c.first /\ b = c.last
        OBVIOUS
      <3>2. BlockGives(Region!BlockKey(m, a, b, contents))
               = [u \in a .. b |-> Region!Apply(m, upgraded, [p \in Region!Parents(m) |-> contents[p][u]])]
        BY BlockKeyGives
      <3> QED
        BY <3>1, <3>2
    <2>5. [p \in Region!Parents(m) |-> contents[p][t]] = [p \in Region!Parents(m) |-> F[p][t]]
      BY <2>2
    <2>6. PICK fm : fm = F[m]
      OBVIOUS
    <2>7. fm = [u \in c.first .. c.last |-> Region!Apply(m, upgraded, [p \in Region!Parents(m) |-> contents[p][u]])]
      BY <2>3, <2>4, <2>6
    <2>8. fm[t] = Region!Apply(m, upgraded, [p \in Region!Parents(m) |-> contents[p][t]])
      BY <2>7
    <2> QED
      BY <2>5, <2>6, <2>8
  <1>4. ASSUME NEW m \in r.nodes, NEW p \in Region!Parents(m) \ r.nodes PROVE F[p] = Now[p]
    <2>1. p \in Region!External(r) /\ p \in D
      BY ParentsOfRegion
    <2> QED
      BY <2>1 DEF CertifiedOf
  <1>5. \A m \in r.nodes : F[m] = c.nodes[m].index
    BY DEF CertifiedOf
  <1> HIDE DEF F, D
  <1>6. ASSUME NEW t \in c.first .. c.last PROVE \A m \in r.nodes : F[m][t] = Now[m][t]
    <2>1. \A m \in r.nodes : \A p \in Region!Parents(m) \ r.nodes : F[p][t] = Region!Evaluate(source, upgraded)[p][t]
      BY <1>4 DEF Now
    <2>2. Follows(F, source, upgraded, r.nodes, t)
      BY <1>3, <2>1 DEF Follows
    <2>3. PICK nodes, f : nodes = r.nodes /\ f = F
      OBVIOUS
    <2>4. RegionGraph /\ nodes \subseteq Region!Nodes /\ Follows(f, source, upgraded, nodes, t) /\ t \in DOMAIN source
      BY <2>2, <2>3
    <2>5. \A n \in nodes : f[n][t] = Region!Evaluate(source, upgraded)[n][t]
      BY ONLY <2>4, CellsAgree
    <2> QED
      BY <2>3, <2>5 DEF Now
  <1>7. \A m \in r.nodes : \A t \in c.first .. c.last : c.nodes[m].index[t] = Now[m][t]
    BY <1>5, <1>6
  <1>8. PICK k : k = OwnBlock(c, r) /\ k = c.nodes[r.output].key
    BY DEF OwnBlock
  <1>9. k.kind = "block"
    <2>1. PICK contents : contents = [p \in Region!Parents(r.output) |-> CertifiedOf(c, r, p)]
      OBVIOUS
    <2>2. k = Region!BlockKey(r.output, c.first, c.last, contents)
      BY <1>1, <1>8, <2>1
    <2> QED
      BY <2>2, BlockKeyGives
  <1>10. k \in DOMAIN rows /\ rows[k] = BlockGives(k)
    BY <1>2, <1>8, <1>9 DEF RegionRows, RegionRow
  <1>11. rows[k] = c.nodes[r.output].index
    BY <1>2, <1>8, <1>10
  <1> QED
    BY <1>7, <1>8, <1>9, <1>10, <1>11

Quotient(a, c) == a \div c

\* The next block of the node in turn.
Advancing(w, block, v) == v = [w EXCEPT !.first = Region!BlockEnd(w.first) + 1, !.blocks = Append(@, block)]

LEMMA Advanced ==
    ASSUME NEW a, NEW b, NEW p, NEW d, NEW e, NEW f, NEW g, NEW h, NEW w, NEW v,
           w = [step |-> "run", regions |-> a, durable |-> b, pending |-> p,
                values |-> d, first |-> e, blocks |-> f],
           v = [w EXCEPT !.first = h, !.blocks = g]
    PROVE  v = [step |-> "run", regions |-> a, durable |-> b, pending |-> p,
                values |-> d, first |-> h, blocks |-> g]
  OBVIOUS

\* A block that has what the node in turn gives brings it on.
LEMMA ProgressKeeps ==
    ASSUME RegionGraph, source \in Seq(scope.numbers), Keeping, NEW w, RegionExecution(w),
           w.first \in DOMAIN source, NEW block, block \in (DOMAIN rows)',
           \A t \in w.first .. Region!BlockEnd(w.first) : rows'[block][t] = Now[Min(w.pending)][t],
           NEW v, Advancing(w, block, v)
    PROVE  RegionExecution(v)'
  <1>0. PICK c : c = scope.canonicalSessions
    OBVIOUS
  <1>1. Joined(w) /\ Done(w) /\ Blocked(w)
    BY DEF RegionExecution
  <1>2. PICK a, b, p, d, e, f : w = [step |-> "run", regions |-> a, durable |-> b, pending |-> p,
                                     values |-> d, first |-> e, blocks |-> f]
    BY <1>1 DEF Joined
  <1>3. PICK end : end = Region!BlockEnd(w.first)
    OBVIOUS
  <1>4. /\ w.regions = a /\ w.durable = b /\ w.pending = p /\ w.values = d /\ w.first = e /\ w.blocks = f
    BY <1>2
  <1>10. /\ c \in Nat \ {0} /\ e \in Nat \ {0} /\ Len(source) \in Nat /\ e <= Len(source)
         /\ DOMAIN source = 1 .. Len(source)
    BY <1>0, <1>4 DEF RegionGraph
  <1>11. /\ end \in e .. Len(source) /\ end \in Nat /\ end <= e + c - 1
         /\ end = e + c - 1 \/ end = Len(source)
    BY <1>0, <1>3, <1>4, <1>10, BlockEnds
  <1>5. PICK g, h : g = Append(f, block) /\ h = Region!BlockEnd(w.first) + 1
    OBVIOUS
  <1>22. h = end + 1 /\ h \in Nat \ {0}
    BY <1>3, <1>5, <1>11
  <1>6. v = [step |-> "run", regions |-> a, durable |-> b, pending |-> p,
             values |-> d, first |-> h, blocks |-> g]
    <2>1. v = [w EXCEPT !.first = h, !.blocks = g]
      BY <1>3, <1>4, <1>5 DEF Advancing
    <2> QED
      BY ONLY <1>2, <2>1, Advanced
  <1>7. /\ v.regions = a /\ v.durable = b /\ v.pending = p /\ v.values = d /\ v.first = h /\ v.blocks = g
    BY <1>6
  <1>8. Joined(v)
    <2>1. v = [step |-> "run", regions |-> v.regions, durable |-> v.durable, pending |-> v.pending,
               values |-> v.values, first |-> v.first, blocks |-> v.blocks]
      BY <1>6, <1>7
    <2> QED
      BY <1>1, <1>4, <1>7, <2>1 DEF Joined
  <1>9. Done(v)
    BY <1>1, <1>4, <1>7 DEF Done
  <1>12. f \in Seq(DOMAIN rows) /\ Len(f) \in Nat
    BY <1>1, <1>4 DEF Blocked
  <1>13. e = Len(f) * c + 1
    BY <1>0, <1>1, <1>4, <1>10 DEF Blocked
  <1>14. f \in Seq((DOMAIN rows)')
    BY <1>12 DEF Keeping
  <1>15. /\ g \in Seq((DOMAIN rows)') /\ Len(g) = Len(f) + 1 /\ g[Len(f) + 1] = block
         /\ \A i \in DOMAIN f : i \in DOMAIN g /\ g[i] = f[i]
    BY <1>5, <1>14
  <1>16. h = Len(g) * c + 1 \/ h > Len(source)
    <2>1. PICK l, s, q : l = Len(f) /\ l \in Nat /\ s = c /\ s \in Nat /\ q = l * s /\ q \in Nat
      BY <1>10, <1>12
    <2>2. (l + 1) * s = q + s
      BY <2>1
    <2>3. Len(g) * c = q + s
      <3>1. PICK m : m = Len(g)
        OBVIOUS
      <3>2. m = l + 1
        BY <1>15, <2>1, <3>1
      <3>3. m * s = q + s
        BY <2>2, <3>2
      <3> QED
        BY <2>1, <3>1, <3>3
    <2>4. e = q + 1
      BY <1>13, <2>1
    <2>5. PICK m \in Nat : m = Len(g) * c /\ m = q + c
      BY <2>1, <2>3
    <2>6. h = m + 1 \/ h > Len(source)
      <3>1. q \in Nat /\ c \in Nat /\ e = q + 1 /\ m = q + c
        BY <1>10, <2>1, <2>4, <2>5
      <3>2. CASE end = e + c - 1
        BY <1>22, <3>1, <3>2
      <3>3. CASE end = Len(source)
        BY <1>10, <1>22, <3>3
      <3> QED
        BY <1>11, <3>2, <3>3
    <2>7. Len(g) * c + 1 = m + 1
      BY <2>5
    <2> QED
      BY <2>6, <2>7
  <1>17. ASSUME NEW t \in DOMAIN source, t < h, NEW i, i = Quotient(t - 1, c) + 1
         PROVE  i \in DOMAIN g /\ rows'[g[i]][t] = Now[Min(p)][t]
    <2>1. CASE t < e
      <3>1. i \in DOMAIN f /\ rows[f[i]][t] = Now[Min(p)][t]
        BY <1>0, <1>1, <1>4, <1>17, <2>1 DEF Blocked, BlockAt, Quotient
      <3>2. f[i] \in DOMAIN rows
        BY <1>12, <3>1
      <3>3. rows'[f[i]] = rows[f[i]]
        BY <3>2 DEF Keeping
      <3>4. i \in DOMAIN g /\ g[i] = f[i]
        BY <1>15, <3>1
      <3> QED
        BY <3>1, <3>3, <3>4
    <2>2. CASE e <= t
      <3>1. t \in e .. end
        <4>1. t \in Nat
          BY <1>10
        <4>2. e \in Nat /\ end \in Nat
          BY <1>10, <1>11
        <4>3. t < end + 1
          BY <1>17, <1>22
        <4> QED
          BY <2>2, <4>1, <4>2, <4>3
      <3>2. Quotient(t - 1, c) = Len(f)
        <4>1. PICK l, u, q : l = Len(f) /\ u = t - 1 /\ q = l * c
          OBVIOUS
        <4>2. l \in Nat /\ u \in Nat /\ c \in Nat \ {0} /\ e = q + 1 /\ q \in Nat
          BY <1>10, <1>12, <1>13, <4>1
        <4>5. q <= u /\ u < q + c
          <5>1. t \in Nat /\ e <= t /\ t <= e + c - 1
            <6>1. t \in Nat
              BY <1>10
            <6>2. e \in Nat /\ end \in Nat /\ c \in Nat /\ end <= e + c - 1
              BY <1>10, <1>11
            <6>3. e <= t /\ t <= end
              BY <3>1, <6>1, <6>2
            <6> QED
              BY <6>1, <6>2, <6>3
          <5>2. u = t - 1
            BY <4>1
          <5> QED
            BY <4>2, <5>1, <5>2
        <4>3. l * c <= u /\ u < l * c + c
          BY <4>1, <4>5
        <4>4. u \div c = l
          BY <4>2, <4>3, QuotientOf
        <4> QED
          BY <4>1, <4>4 DEF Quotient
      <3>3. rows'[block][t] = Now[Min(p)][t]
        BY <1>3, <1>4, <3>1
      <3>4. i \in DOMAIN g /\ g[i] = block
        BY <1>12, <1>15, <1>17, <3>2
      <3> QED
        BY <3>3, <3>4
    <2> QED
      BY <1>10, <2>1, <2>2
  <1>19. Now' = Now /\ scope' = scope /\ source' = source
    BY KeepingNow DEF Keeping
  <1>20. ASSUME NEW t \in DOMAIN source, t < h
         PROVE  Quotient(t - 1, c) + 1 \in DOMAIN g /\ rows'[g[Quotient(t - 1, c) + 1]][t] = Now[Min(p)][t]
    BY <1>17, <1>20
  <1>21. Blocked(v)'
    BY <1>0, <1>7, <1>15, <1>16, <1>19, <1>20, <1>22 DEF Blocked, BlockAt, Quotient
  <1> QED
    BY <1>8, <1>9, <1>21, KeepingJoined, KeepingDone DEF RegionExecution

\* What a block is composed of, up to the end of its prefix and after it, is what the
\* nodes of the region give.
Certain(r, c, first, end) ==
    c # None => Certified(c) /\ Region!Matches(r, c) /\ c.first = first /\ c.last \in first .. end

LEMMA PartsGive ==
    ASSUME RegionGraph, RegionRows, source \in Seq(scope.numbers),
           NEW r, r.nodes \subseteq Region!Nodes, r.output \in r.nodes,
           \A p \in Region!External(r) : Region!Values[p] = Now[p],
           NEW first, first = work.first, first \in DOMAIN source,
           NEW end, end = Region!BlockEnd(first),
           NEW c, Certain(r, c, first, end), NEW from, from = IF c = None THEN first ELSE c.last + 1
    PROVE  /\ from \in Nat \ {0} /\ first <= from /\ first .. end \subseteq DOMAIN source
           /\ end \in Nat \ {0} /\ first \in Nat \ {0}
           /\ \A m \in r.nodes : \A t \in first .. end :
                /\ t < from => c.nodes[m].index[t] = Now[m][t]
                /\ ~ t < from => Region!Missing(r, from)[m][t] = Now[m][t]
           /\ \A t \in first .. end : t < from => rows[OwnBlock(c, r)][t] = Now[r.output][t]
           /\ from > end => /\ OwnBlock(c, r) \in DOMAIN rows
                            /\ \A t \in first .. end : rows[OwnBlock(c, r)][t] = Now[r.output][t]
  <1>1. /\ first \in Nat \ {0} /\ end \in first .. Len(source) /\ end \in Nat \ {0} /\ Len(source) \in Nat
        /\ DOMAIN source = 1 .. Len(source)
    BY BlockEnds
  <1>2. first .. end \subseteq DOMAIN source
    BY <1>1
  <1>3. CASE c = None
    <2>1. from = first
      BY <1>3
    <2>2. \A m \in r.nodes : \A t \in from .. end : Region!Missing(r, from)[m][t] = Now[m][t]
      BY <1>2, <2>1, MissingGives
    <2>3. ~ from > end
      BY <1>1, <2>1
    <2>4. \A t \in first .. end : ~ t < from /\ t \in from .. end
      BY <1>1, <2>1
    <2> QED
      BY <1>1, <1>2, <2>1, <2>2, <2>3, <2>4
  <1>4. CASE c # None
    <2>1. PICK last : last = c.last
      OBVIOUS
    <2>2. /\ Certified(c) /\ Region!Matches(r, c) /\ c.first = first /\ c.last = last
          /\ last \in first .. end /\ from = last + 1
      BY <1>4, <2>1 DEF Certain
    <2>3. first .. last \subseteq DOMAIN source /\ from .. end \subseteq DOMAIN source /\ last \in Nat /\ from \in Nat \ {0}
      BY <1>1, <1>2, <2>2
    <2>4. c.first .. c.last \subseteq DOMAIN source
      BY <2>2, <2>3
    <2>5. /\ \A m \in r.nodes : \A t \in c.first .. c.last : c.nodes[m].index[t] = Now[m][t]
          /\ OwnBlock(c, r) \in DOMAIN rows
          /\ \A t \in c.first .. c.last : rows[OwnBlock(c, r)][t] = Now[r.output][t]
      BY <2>2, <2>4, CertificateGives
    <2>6. \A m \in r.nodes : \A t \in from .. end : Region!Missing(r, from)[m][t] = Now[m][t]
      BY <2>3, MissingGives
    <2>7. \A t \in first .. end : /\ t < from => t \in c.first .. c.last
                                  /\ ~ t < from => t \in from .. end
      BY <1>1, <2>2, <2>3
    <2>8. from > end => \A t \in first .. end : t < from
      BY <1>1, <2>2, <2>3
    <2>9. first <= from
      BY <1>1, <2>2, <2>3
    <2> QED
      BY <1>1, <1>2, <2>3, <2>5, <2>6, <2>7, <2>8, <2>9
  <1> QED
    BY <1>3, <1>4

\* Blocks that are certified together: all their nodes have what they give.
Together(nodes, first, end, index, contents, keys) ==
    /\ nodes \subseteq Region!Nodes /\ first .. end \subseteq DOMAIN source
    /\ \A m \in nodes : index[m] = [t \in first .. end |-> Now[m][t]]
    /\ \A m \in nodes : \A p \in Region!Parents(m) : \A t \in first .. end : contents[p][t] = Now[p][t]
    /\ keys = [m \in nodes |-> Region!BlockKey(m, first, end, contents)]

LEMMA CertificateHolds ==
    ASSUME RegionGraph, NEW nodes, NEW first, NEW end, NEW index, NEW contents, NEW keys,
           Together(nodes, first, end, index, contents, keys)
    PROVE  \A m \in nodes : /\ keys[m].kind = "block" /\ BlockGives(keys[m]) = index[m]
                            /\ \A t \in first .. end : BlockGives(keys[m])[t] = Now[m][t]
  <1> SUFFICES ASSUME NEW m \in nodes
               PROVE  /\ keys[m].kind = "block" /\ BlockGives(keys[m]) = index[m]
                      /\ \A t \in first .. end : BlockGives(keys[m])[t] = Now[m][t]
    OBVIOUS
  <1>1. PICK k : k = Region!BlockKey(m, first, end, contents)
    OBVIOUS
  <1>2. keys[m] = k
    BY <1>1 DEF Together
  <1>3. k.kind = "block"
    BY <1>1, BlockKeyGives
  <1>4. BlockGives(k) = [t \in first .. end |-> BlockGives(k)[t]]
    <2>1. BlockGives(k) = [t \in first .. end |-> Region!Apply(m, upgraded, [p \in Region!Parents(m) |-> contents[p][t]])]
      BY <1>1, BlockKeyGives
    <2> QED
      BY <2>1
  <1>5. \A p \in Region!Parents(m) : \A t \in first .. end : contents[p][t] = Now[p][t]
    BY DEF Together
  <1>6. \A t \in first .. end : BlockGives(k)[t] = Now[m][t]
    <2>1. m \in Region!Nodes /\ first .. end \subseteq DOMAIN source
      BY DEF Together
    <2> QED
      BY <1>1, <1>5, <2>1, BlockIsNow
  <1>7. BlockGives(k) = index[m]
    BY <1>4, <1>6 DEF Together
  <1> QED
    BY <1>2, <1>3, <1>6, <1>7

LEMMA BlockKeepsRegions == ASSUME RegionInv, NEW n, Region!Block(n) PROVE RegionInv'
  <1> DEFINE r == Region!RegionOf(n)
             first == work.first
             end == Region!BlockEnd(first)
             prefixes == Region!Proven(r, first)
             From(c) == IF c = None THEN first ELSE c.last + 1
             Rest(c) == Region!Missing(r, From(c))
             Index(c) == [m \in r.nodes |-> [t \in first .. end |->
                            IF t < From(c) THEN c.nodes[m].index[t] ELSE Rest(c)[m][t]]]
             Given(c) == [p \in r.nodes \cup Region!External(r) |->
                               IF p \in r.nodes THEN Index(c)[p] ELSE Region!Values[p]]
             Keys(c) == [m \in r.nodes |-> Region!BlockKey(m, first, end, Given(c))]
             Old(c) == IF c = None THEN <<>> ELSE rows[c.nodes[n].key]
             Whole(c) == [t \in first .. end |-> IF t < From(c) THEN Old(c)[t] ELSE Rest(c)[n][t]]
             Own(c) == IF From(c) > end THEN c.nodes[n].key ELSE Keys(c)[n]
             New(c) == [output |-> n, first |-> first, last |-> end,
                        nodes |-> [m \in r.nodes |-> [key |-> Keys(c)[m], index |-> Index(c)[m]]]]
             newest == IF prefixes = {} THEN {None} ELSE {c \in prefixes : \A d \in prefixes : d.last <= c.last}
             Step(c) == /\ rows' = Region!With(rows, Own(c), Whole(c))
                        /\ certificates' = certificates \cup (IF From(c) > end THEN {} ELSE {New(c)})
                        /\ work' = [work EXCEPT !.first = end + 1, !.blocks = Append(@, Own(c))]
  <1>1. /\ Region!Runs(n) /\ Region!IsRegion(n) /\ work.first <= Len(source)
        /\ \E c \in newest : Step(c)
        /\ UNCHANGED <<scope, source, upgraded, seals, latest>>
    BY DEF Region!Block
  <1>2. PICK c : (c # None => c \in prefixes) /\ Step(c)
    <2>1. \A c \in newest : c # None => c \in prefixes
      <3> HIDE DEF prefixes
      <3> QED
        OBVIOUS
    <2> HIDE DEF Step, newest, prefixes
    <2> QED
      BY <1>1, <2>1
  <1> HIDE DEF r, first, end, From, Own, Whole, Index, Given, Keys, New, Rest, Old, prefixes, newest, Step
  <1>3. PICK region, from, block, cells : region = r /\ from = From(c) /\ block = Own(c) /\ cells = Whole(c)
    OBVIOUS
  <1>4. /\ RegionExecution(work) /\ RegionGraph /\ source \in Seq(scope.numbers) /\ Joined(work)
        /\ n \in work.pending /\ n \in Region!Nodes /\ n = Min(work.pending)
        /\ \A p \in Region!Reads(n) \cup {0} : Region!Values[p] = Now[p]
        /\ RegionRows /\ Certificates /\ RegionParents
    BY <1>1, RunFacts DEF RegionExecution, RegionInv
  <1>5. /\ region \in work.regions /\ region.output = n /\ r = region
        /\ region.nodes \subseteq Region!Nodes /\ n \in region.nodes
    <2>1. PICK q \in work.regions : q.output = n
      BY <1>1 DEF Region!IsRegion
    <2>2. region = q
      BY <1>3, <1>4, <2>1, OutputsOfRegions DEF r
    <2> QED
      BY <1>3, <1>4, <2>1, <2>2 DEF Joined, Apart
  <1>6. \A p \in Region!External(region) : Region!Values[p] = Now[p]
    <2>1. Region!External(region) \subseteq Region!Reads(n) \cup {0}
      BY <1>1, <1>5 DEF Region!Reads, r
    <2> QED
      BY <1>4, <2>1
  <1>7. first \in DOMAIN source /\ first = work.first /\ end = Region!BlockEnd(first)
    <2>1. work.first \in Nat \ {0} /\ DOMAIN source = 1 .. Len(source) /\ Len(source) \in Nat
      BY <1>4 DEF RegionExecution, Blocked
    <2> QED
      BY <1>1, <2>1 DEF first, end
  <1>8. Certain(region, c, first, end) /\ from = IF c = None THEN first ELSE c.last + 1
    BY <1>2, <1>3, <1>4, <1>5, <1>7 DEF Certain, Certificates, Region!Proven, From, prefixes
  <1> DEFINE Knows(m) == \A t \in first .. end : /\ t < from => c.nodes[m].index[t] = Now[m][t]
                                                 /\ ~ t < from => Region!Missing(region, from)[m][t] = Now[m][t]
  <1>9. /\ from \in Nat \ {0} /\ first <= from /\ first .. end \subseteq DOMAIN source
        /\ end \in Nat \ {0} /\ first \in Nat \ {0}
        /\ \A m \in region.nodes : Knows(m)
        /\ \A t \in first .. end : t < from => rows[OwnBlock(c, region)][t] = Now[n][t]
        /\ from > end => /\ OwnBlock(c, region) \in DOMAIN rows
                         /\ \A t \in first .. end : rows[OwnBlock(c, region)][t] = Now[n][t]
    BY <1>4, <1>5, <1>6, <1>7, <1>8, PartsGive
  <1>10. PICK index, contents, keys, new : index = Index(c) /\ contents = Given(c) /\ keys = Keys(c) /\ new = New(c)
    OBVIOUS
  <1>11. \A m \in region.nodes : index[m] = [t \in first .. end |-> Now[m][t]]
    <2> SUFFICES ASSUME NEW m \in region.nodes PROVE index[m] = [t \in first .. end |-> Now[m][t]]
      OBVIOUS
    <2>1. index[m] = [t \in first .. end |-> IF t < from THEN c.nodes[m].index[t] ELSE Region!Missing(region, from)[m][t]]
      BY <1>3, <1>5, <1>10 DEF Index, Rest
    <2>2. Knows(m)
      BY <1>9
    <2> QED
      BY <2>1, <2>2
  <1>12. \A m \in region.nodes : \A p \in Region!Parents(m) : \A t \in first .. end : contents[p][t] = Now[p][t]
    <2> SUFFICES ASSUME NEW m \in region.nodes, NEW p \in Region!Parents(m), NEW t \in first .. end
                 PROVE  contents[p][t] = Now[p][t]
      OBVIOUS
    <2>1. p \in region.nodes \cup Region!External(region)
      BY ParentsOfRegion
    <2>2. contents[p] = IF p \in region.nodes THEN index[p] ELSE Region!Values[p]
      BY <1>5, <1>10, <2>1 DEF Given
    <2>3. CASE p \in region.nodes
      <3>1. index[p] = [u \in first .. end |-> Now[p][u]]
        BY <1>11, <2>3
      <3>2. PICK f : f = index[p]
        OBVIOUS
      <3>3. f[t] = Now[p][t]
        BY <3>1, <3>2
      <3> QED
        BY <2>2, <2>3, <3>2, <3>3
    <2>4. CASE p \notin region.nodes
      BY <1>6, <2>1, <2>2, <2>4
    <2> QED
      BY <2>3, <2>4
  <1>13. keys = [m \in region.nodes |-> Region!BlockKey(m, first, end, contents)]
    BY <1>5, <1>10 DEF Keys
  <1>14. new = [output |-> n, first |-> first, last |-> end,
                nodes |-> [m \in region.nodes |-> [key |-> keys[m], index |-> index[m]]]]
    BY <1>5, <1>10 DEF New
  <1>15. \A m \in region.nodes : /\ keys[m].kind = "block" /\ BlockGives(keys[m]) = index[m]
                                 /\ \A t \in first .. end : BlockGives(keys[m])[t] = Now[m][t]
    <2>1. Together(region.nodes, first, end, index, contents, keys)
      BY <1>5, <1>9, <1>11, <1>12, <1>13 DEF Together
    <2> QED
      BY <1>4, <2>1, CertificateHolds
  <1>16. /\ Adding(rows', rows, block, cells)
         /\ certificates' = certificates \cup (IF from > end THEN {} ELSE {new})
         /\ Advancing(work, block, work')
    <2>1. /\ rows' = Region!With(rows, block, cells)
          /\ certificates' = certificates \cup (IF from > end THEN {} ELSE {new})
          /\ work' = [work EXCEPT !.first = end + 1, !.blocks = Append(@, block)]
      BY <1>2, <1>3, <1>10 DEF Step
    <2> QED
      BY <1>7, <2>1, RegionWith DEF Advancing
  <1>17. Keeping
    BY <1>1, <1>16 DEF Keeping, Adding
  <1> DEFINE Goal == /\ block \in (DOMAIN rows)' /\ \A t \in first .. end : rows'[block][t] = Now[n][t]
                     /\ RegionRows' /\ Certificates'
  <1>18. ASSUME from > end PROVE Goal
    <2>1. block = OwnBlock(c, region)
      BY <1>3, <1>5, <1>18 DEF Own, From, OwnBlock
    <2>2. block \in DOMAIN rows /\ \A t \in first .. end : rows[block][t] = Now[n][t]
      BY <1>9, <1>18, <2>1
    <2>3. RegionRows'
      <3>1. (DOMAIN rows)' \ DOMAIN rows = {}
        BY <1>16, <2>2 DEF Adding
      <3> QED
        BY <1>4, <1>17, <3>1, KeepingRows
    <2>4. Certificates'
      <3>1. certificates' = certificates
        BY <1>16, <1>18
      <3> QED
        BY <1>4, <1>17, <3>1, KeepingCertified DEF Certificates
    <2> QED
      BY <1>17, <2>2, <2>3, <2>4 DEF Keeping
  <1>19. ASSUME ~ from > end PROVE Goal
    <2>1. block = keys[n]
      BY <1>3, <1>10, <1>19 DEF Own, From
    <2>2. /\ block.kind = "block" /\ BlockGives(block) = index[n]
          /\ \A t \in first .. end : BlockGives(block)[t] = Now[n][t]
      BY <1>5, <1>15, <2>1
    <2>3. cells = BlockGives(block)
      <3>1. cells = [t \in first .. end |-> IF t < from THEN Old(c)[t] ELSE Region!Missing(region, from)[n][t]]
        BY <1>3, <1>5 DEF Whole, Rest
      <3>2. ASSUME NEW t \in first .. end
            PROVE  (IF t < from THEN Old(c)[t] ELSE Region!Missing(region, from)[n][t]) = Now[n][t]
        <4>1. CASE t < from
          <5>1. c # None
            BY <1>8, <1>9, <4>1
          <5>2. Old(c) = rows[OwnBlock(c, region)]
            BY <1>5, <5>1 DEF Old, OwnBlock
          <5> QED
            BY <1>9, <4>1, <5>2
        <4>2. CASE ~ t < from
          BY <1>5, <1>9, <4>2
        <4> QED
          BY <4>1, <4>2
      <3>3. cells = [t \in first .. end |-> Now[n][t]]
        BY <3>1, <3>2
      <3> QED
        BY <1>5, <1>11, <2>2, <3>3
    <2>4. block \in (DOMAIN rows)' /\ rows'[block] = BlockGives(block)
      <3>1. CASE block \in DOMAIN rows
        <4>1. rows[block] = BlockGives(block)
          BY <1>4, <2>2, <3>1 DEF RegionRows, RegionRow
        <4> QED
          BY <1>17, <3>1, <4>1 DEF Keeping
      <3>2. CASE block \notin DOMAIN rows
        BY <1>16, <2>3, <3>2 DEF Adding
      <3> QED
        BY <3>1, <3>2
    <2>5. RegionRows'
      <3>1. RegionRow(block, rows'[block])
        BY <2>2, <2>4 DEF RegionRow
      <3>2. \A k \in (DOMAIN rows)' \ DOMAIN rows : k = block
        BY <1>16 DEF Adding
      <3>3. \A k \in (DOMAIN rows)' \ DOMAIN rows : RegionRow(k, rows'[k])
        BY <3>1, <3>2
      <3> QED
        BY <1>4, <1>17, <3>3, KeepingRows
    <2>6. Certificates'
      <3>1. /\ new.output = n /\ DOMAIN new.nodes = region.nodes
            /\ \A m \in region.nodes : new.nodes[m].key = keys[m] /\ new.nodes[m].index = index[m]
        BY <1>14
      <3>2. \A k : BlockGives(k)' = BlockGives(k)
        BY <1>17, RegionMeaningStays DEF Keeping
      <3>3. Certified(new)'
        BY <1>5, <1>15, <2>1, <2>4, <3>1, <3>2 DEF Certified
      <3>4. \A b \in certificates : Certified(b)'
        BY <1>4, <1>17, KeepingCertified DEF Certificates
      <3>5. \A b \in certificates' : b = new \/ b \in certificates
        BY <1>16
      <3> QED
        BY <3>3, <3>4, <3>5 DEF Certificates
    <2> QED
      BY <2>2, <2>4, <2>5, <2>6
  <1>20. Goal
    BY <1>18, <1>19
  <1>21. RegionExecution(work)'
    <2>1. PICK w, v : w = work /\ v = work'
      OBVIOUS
    <2>2. /\ RegionExecution(w) /\ w.first \in DOMAIN source /\ Advancing(w, block, v)
          /\ \A t \in w.first .. Region!BlockEnd(w.first) : rows'[block][t] = Now[Min(w.pending)][t]
      BY <1>4, <1>7, <1>16, <1>20, <2>1
    <2>3. RegionExecution(v)'
      BY <1>4, <1>17, <1>20, <2>2, ProgressKeeps
    <2> QED
      BY <2>1, <2>3
  <1>22. RegionParents'
    BY <1>1, <1>4, <1>17, KeepingParents DEF RegionParents, Keeping
  <1> QED
    BY <1>20, <1>21, <1>22 DEF RegionInv

LEMMA RegionInit == Region!Init => RegionInv
  <1> SUFFICES ASSUME Region!Init PROVE RegionInv
    OBVIOUS
  <1>1. /\ scope \in RegionScopes /\ source = <<>> /\ rows = <<>> /\ certificates = {}
        /\ latest = [n \in Region!Nodes |-> {}] /\ work = Region!Idle
    BY DEF Region!Init
  <1>2. source \in Seq(scope.numbers) /\ DOMAIN rows = {}
    BY <1>1, EmptySeq
  <1>3. RegionGraph /\ \A request \in scope.requests : request.requested \subseteq Region!Nodes
    BY <1>1, RegionScopesAssumption DEF RegionGraph, Region!Nodes, Region!Parents
  <1>4. RegionParents
    BY <1>1, <1>2, <1>3 DEF RegionParents
  <1> QED
    BY <1>1, <1>2, <1>4 DEF RegionInv, RegionRows, Certificates, Region!Idle

LEMMA RegionStep == RegionInv /\ [Region!Next]_(Region!vars) => RegionInv'
  <1> SUFFICES ASSUME RegionInv, [Region!Next]_(Region!vars) PROVE RegionInv'
    OBVIOUS
  <1>1. CASE UNCHANGED Region!vars
    <2>1. UNCHANGED <<scope, source, upgraded, rows, certificates, seals, latest, work>>
      BY <1>1 DEF Region!vars
    <2>2. Keeping
      BY <2>1 DEF Keeping
    <2>3. RegionParents'
      BY <2>1, <2>2, KeepingParents DEF RegionInv, RegionParents
    <2>4. RegionRows' /\ Certificates'
      BY <2>1, <2>2, KeepingRows, KeepingCertified DEF RegionInv, Certificates
    <2>5. PICK w : w = work
      OBVIOUS
    <2>6. w.step = "idle" \/ RegionExecution(w)'
      BY <2>2, <2>5, KeepingExecution DEF RegionInv, RegionParents
    <2>7. work'.step = "idle" \/ RegionExecution(work)'
      BY <2>1, <2>5, <2>6
    <2> QED
      BY <2>3, <2>4, <2>7 DEF RegionInv
  <1>2. ASSUME NEW request \in scope.requests, Region!Start(request) PROVE RegionInv'
    BY <1>2, StartKeepsRegions
  <1>3. CASE Region!Hit
    BY <1>3, HitKeepsRegions
  <1>4. ASSUME NEW n \in Region!Nodes, Region!Finite(n) PROVE RegionInv'
    BY <1>4, FiniteKeepsRegions
  <1>5. ASSUME NEW n \in Region!Nodes, Region!Block(n) PROVE RegionInv'
    BY <1>5, BlockKeepsRegions
  <1>6. ASSUME NEW n \in Region!Nodes, Region!Seal(n) PROVE RegionInv'
    BY <1>6, SealKeepsRegions
  <1>7. CASE Region!Complete \/ Region!Interrupt
    BY <1>7, EndKeepsRegions
  <1>8. ASSUME NEW number \in scope.numbers,
               Region!Observe(number) \/ \E t \in DOMAIN source : Region!Restate(t, number)
        PROVE  RegionInv'
    BY <1>8, ObserveKeepsRegions
  <1>9. ASSUME NEW n \in Region!Nodes, Region!Upgrade(n) PROVE RegionInv'
    BY <1>9, UpgradeKeepsRegions
  <1> QED
    BY <1>1, <1>2, <1>3, <1>4, <1>5, <1>6, <1>7, <1>8, <1>9 DEF Region!Next

LEMMA RegionsAreKept == RegionInv => Region!RegionsKeepWholeHistory
  <1> SUFFICES ASSUME RegionInv PROVE Region!RegionsKeepWholeHistory
    OBVIOUS
  <1>1. ASSUME NEW key \in DOMAIN rows, key.kind = "result"
        PROVE  rows[key] = [t \in DOMAIN key.source |-> Region!Evaluate(key.source, key.changed)[key.node][t]]
    BY <1>1 DEF RegionInv, RegionRows, RegionRow, ResultGives
  <1>2. ASSUME Region!At("run")
        PROVE  /\ \A q, r \in work.regions : q # r => q.nodes \cap r.nodes = {}
               /\ \A n \in work.durable : Region!Reads(n) \subseteq work.durable
               /\ work.pending = {} => \A r \in work.regions : Region!Covered(r)
    <2>1. Joined(work) /\ Done(work) /\ Apart(work.regions, work.durable)
      BY <1>2, AtWork DEF RegionExecution, Joined
    <2>2. ASSUME NEW n \in work.durable PROVE Region!Reads(n) \subseteq work.durable
      <3>1. CASE Region!IsRegion(n)
        <4>1. PICK r \in work.regions : r.output = n
          BY <3>1 DEF Region!IsRegion
        <4>2. Region!RegionOf(n) = r
          BY <2>1, <4>1, OutputsOfRegions
        <4> QED
          BY <2>1, <3>1, <4>2 DEF Apart, Region!Reads
      <3>2. CASE ~ Region!IsRegion(n)
        BY <2>1, <3>2 DEF Apart, Region!Reads, Region!IsRegion
      <3> QED
        BY <3>1, <3>2
    <2> QED
      BY <2>1, <2>2 DEF Apart, Done
  <1> QED
    BY <1>1, <1>2 DEF Region!RegionsKeepWholeHistory

\* However plans join nodes, persist them, are interrupted, resume what is certified or is
\* published already, and whatever was restated or changed its implementation between them: no
\* node is of two regions, what a node reads is kept, the nodes without results are sealed when
\* the plan ends, and a result is what its node gives over its source with the implementations of
\* its key: for any graph, operators, requests, sessions to a block and number of plans.
THEOREM RegionsHold == PolicySpec => []RegionsAreWholeHistory
  <1> DEFINE PInv == policy = "region" => RegionInv
  <1>1. PolicyInit => PInv
    BY RegionInit DEF PolicyInit
  <1>2. PInv /\ [PolicyNext]_allVars => PInv'
    <2> SUFFICES ASSUME PInv, [PolicyNext]_allVars, (policy = "region")' PROVE RegionInv'
      OBVIOUS
    <2>1. policy = "region" /\ RegionInv
      BY DEF PolicyNext, allVars
    <2>2. [Region!Next]_(Region!vars)
      BY <2>1 DEF PolicyNext, allVars, Region!vars, finiteOnly, causalOnly, regionOnly
    <2> QED
      BY <2>1, <2>2, RegionStep
  <1>3. PInv => RegionsAreWholeHistory
    BY RegionsAreKept DEF RegionsAreWholeHistory
  <1> HIDE DEF PInv
  <1> QED
    BY <1>1, <1>2, <1>3, PTL DEF PolicySpec
================================================================================
