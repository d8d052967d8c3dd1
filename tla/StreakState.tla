------------------------------ MODULE StreakState ------------------------------
(* The directional streak of one asset (operator/streaks.py) and the state that *)
(* continues it after a boundary (streak_state.py).  Rows are a function on the *)
(* sessions in which the asset has a row, each a value and one availability     *)
(* trace; a seed is what a checkpoint retained of the rows before them.  A      *)
(* column of the numerical table is a function on the same sessions.            *)
EXTENDS Integers, Sequences, FiniteSetsExt

CONSTANT Null      \* the null of a value, a direction, a count or a trace

\* A whole-history execution is one that starts without a seed.
NoSeed == [value |-> Null, direction |-> Null, count |-> Null,
           previous_trace |-> Null, run_trace |-> Null]

Sign(n) == IF n > 0 THEN 1 ELSE IF n < 0 THEN -1 ELSE 0

\* The latest of a set of traces, in which nulls do not count.
MaxHorizontal(traces) == IF traces \subseteq {Null} THEN Null ELSE Max(traces \ {Null})

Valid(row) == row.value # Null

\* The column one row earlier; before the first row stands the seed's value.
Shifted(column, seeded) ==
    [t \in DOMAIN column |-> LET earlier == {u \in DOMAIN column : u < t} IN
                             IF earlier = {} THEN seeded ELSE column[Max(earlier)]]

Directions(rows, seed) ==
    LET previous == Shifted([t \in DOMAIN rows |-> rows[t].value], seed.value)
    IN  [t \in DOMAIN rows |-> IF Null \in {rows[t].value, previous[t]} THEN Null
                               ELSE Sign(rows[t].value - previous[t])]

\* How many rows up to each one start a run (or a block): run 0 continues the seed.
Numbered(starts) ==
    [t \in DOMAIN starts |-> Cardinality({u \in DOMAIN starts : u <= t /\ starts[u]})]

(* The resetting streak: an equal value, like an unknown movement, starts a run. *)
ResettingState(rows, seed) ==
    LET direction == Directions(rows, seed)
        previous == Shifted(direction, seed.direction)
        changed == [t \in DOMAIN rows |-> Valid(rows[t]) /\ direction[t] # previous[t]]
    IN  [direction |-> direction,
         moved |-> [t \in DOMAIN rows |-> Valid(rows[t])],
         reversal |-> [t \in DOMAIN rows |->
                         changed[t] /\ {direction[t], previous[t]} \cap {Null, 0} = {}],
         run |-> Numbered([t \in DOMAIN rows |->
                         \/ changed[t]
                         \/ Valid(rows[t]) /\ direction[t] \in {Null, 0}])]

(* The holding streak: an equal value keeps the direction in effect, and only a *)
(* gap or a reversal starts a run.                                              *)
HoldingState(rows, seed) ==
    LET direction == Directions(rows, seed)
        gapBefore == Shifted([t \in DOMAIN rows |-> rows[t].value], seed.value)
        blockStart == [t \in DOMAIN rows |-> Valid(rows[t]) /\ gapBefore[t] = Null]
        block == Numbered(blockStart)
        moved == [t \in DOMAIN rows |-> direction[t] \notin {Null, 0}]
        movesTo(t) == {u \in DOMAIN rows : u <= t /\ moved[u] /\ block[u] = block[t]}
        effective == [t \in DOMAIN rows |->
                        IF movesTo(t) # {} THEN direction[Max(movesTo(t))]
                        ELSE IF block[t] = 0 THEN seed.direction ELSE Null]
        previous == Shifted(effective, seed.direction)
        reversal == [t \in DOMAIN rows |-> moved[t] /\ previous[t] \notin {Null, direction[t]}]
    IN  [direction |-> effective, moved |-> moved, reversal |-> reversal,
         run |-> Numbered([t \in DOMAIN rows |-> blockStart[t] \/ reversal[t]])]

State(rows, seed, resets) == IF resets THEN ResettingState(rows, seed) ELSE HoldingState(rows, seed)

\* The counts: movements since the run started, less one where it started by a
\* reversal; run 0 adds the count the seed had reached.
Counts(rows, state, seed, resets) ==
    [t \in DOMAIN rows |->
       LET sameRun == {u \in DOMAIN rows : state.run[u] = state.run[t]}
           position == Cardinality({u \in sameRun : u <= t /\ state.moved[u]})
           offset == IF \E u \in sameRun : state.reversal[u] THEN 1 ELSE 0
           carry == IF state.run[t] = 0 /\ seed.count # Null THEN seed.count ELSE 0
       IN  IF ~Valid(rows[t]) THEN Null
           ELSE IF state.direction[t] \in (IF resets THEN {Null, 0} ELSE {Null}) THEN 0
           ELSE state.direction[t] * (position - offset) + carry]

\* The traces: a count depends on every row of its run and on the row before it.
RunTraces(rows, state, seed) ==
    LET before == Shifted([t \in DOMAIN rows |-> rows[t].trace], seed.previous_trace)
        carry(t) == IF state.run[t] = 0 THEN {seed.run_trace} ELSE {}
    IN  [t \in DOMAIN rows |->
           IF Valid(rows[t])
           THEN MaxHorizontal(carry(t) \cup UNION {{rows[u].trace, before[u]} :
                                u \in {v \in DOMAIN rows : v <= t /\ state.run[v] = state.run[t]}})
           ELSE rows[t].trace]

(* checkpoint_streak: the output rows and the state they leave; an asset with   *)
(* no row keeps the state it had.                                               *)
Streak(rows, seed, resets) ==
    LET state == State(rows, seed, resets)
        counts == Counts(rows, state, seed, resets)
        traces == RunTraces(rows, state, seed)
        last == Max(DOMAIN rows)
    IN  [output |-> [t \in DOMAIN rows |-> [value |-> counts[t], trace |-> traces[t]]],
         saved |-> IF DOMAIN rows = {} THEN seed
                   ELSE [value |-> rows[last].value, direction |-> state.direction[last],
                         count |-> counts[last], previous_trace |-> rows[last].trace,
                         run_trace |-> traces[last]]]
================================================================================
