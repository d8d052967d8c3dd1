---------------------------- MODULE PeriodCheckpoints ----------------------------
(***************************************************************************)
(* _execute_period_checkpoint: a supervised prediction, continued from the *)
(* statistics of single periods that a published result retains.           *)
(*                                                                         *)
(* A period has a cross-section, abstracted to a feature, and a target     *)
(* that matures on a later day; its statistic is fitted once it has        *)
(* matured, and abstracted to what it was fitted to.  A prediction applies *)
(* the statistics of a window of periods that had matured by its own day.  *)
(* An execution fits new, revised and just matured periods, publishes the  *)
(* statistics, predicts the periods whose inputs changed, publishes them,  *)
(* and composes them with what the previous result holds.                  *)
(***************************************************************************)
EXTENDS Integers, Sequences, FiniteSets, SequencesExt, FiniteSetsExt, Functions

CONSTANTS None, Scopes

VARIABLES
    scope,
    samples,     \* day |-> its sample, for every day there was
    calendar,    \* the sessions, a set of days
    version,     \* the identity of the parents
    records,     \* published statistics, deltas and results: key |-> what they hold
    completed,   \* keys of the results that successful plans completed
    work         \* the execution in progress

vars == <<scope, samples, calendar, version, records, completed, work>>

-----------------------------------------------------------------------------
(* The numerical owner (operator/prediction.py).  A sample is               *)
(* [feature, target, at]; a state has a record and a window for every day.  *)

Training(sample) == sample.feature # None /\ sample.target # None

\* The record of a period, fitted when it has matured by the end of the calendar.
PeriodRecord(sample, end) ==
    LET at == IF Training(sample) THEN sample.at ELSE None
        fitted == Training(sample) /\ sample.at <= end
    IN  [has_features |-> sample.feature # None, available_at |-> at,
         status |-> IF fitted THEN "fitted" ELSE "pending",
         statistics |-> IF fitted THEN <<sample.feature, sample.target>> ELSE None]

\* The last periods that had matured by a day, when they follow one another.
AvailableHistory(periods, day) ==
    LET eligible == {p \in DOMAIN periods :
                       periods[p].status = "fitted" /\ p < day /\ periods[p].available_at <= day}
        selected == {p \in eligible :
                       Cardinality({q \in eligible : q > p}) < scope.window}
    IN  IF Cardinality(selected) < scope.window
           \/ \E d \in DOMAIN periods \ selected : d > Min(selected) /\ d < Max(selected)
        THEN None ELSE selected

Predicted(sample, periods, history) ==
    IF sample.feature = None \/ history = None THEN None
    ELSE <<sample.feature, [p \in history |-> periods[p].statistics]>>

\* Mutant: only what changed is read again, not what has matured.
RevisedWork(state, days, changes) ==
    IF state = None THEN days ELSE DOMAIN changes \cup (days \ DOMAIN state.records)

\* _prediction_period_work: new and revised samples, and those that just matured.
PeriodWork(state, days, changes) ==
    IF state = None THEN days
    ELSE DOMAIN changes \cup (days \ DOMAIN state.records)
           \cup {d \in days \cap DOMAIN state.records :
                   /\ state.records[d].status = "pending"
                   /\ state.records[d].available_at \in 1 .. Max(days)}

\* Where the changed records can first influence a window.
Influences(old, days, requested, periods) ==
    SymDiff(DOMAIN old.records, days)
      \cup UNION {{Max({d + 1, r.available_at}) :
                     r \in {q \in {periods[d]} \cup
                              (IF d \in DOMAIN old.records THEN {old.records[d]} ELSE {}) :
                              q.status = "fitted"}} : d \in requested}

\* _update_prediction_statistics: the new records and windows, and the outputs
\* that depend on what is new in them.
Update(old, days, requested, changes) ==
    LET periods == [d \in days |-> IF d \in requested THEN PeriodRecord(samples[d], Max(days))
                                   ELSE old.records[d]]
        influences == IF old = None THEN {} ELSE Influences(old, days, requested, periods)
        kept(d) == /\ old # None /\ d \in DOMAIN old.fit_windows
                   /\ influences = {} \/ d < Min(influences)
        windows == [d \in days |-> IF kept(d) THEN old.fit_windows[d]
                                   ELSE AvailableHistory(periods, d)]
        repaired(d) == \/ old = None
                       \/ d \notin DOMAIN old.records
                       \/ d \in DOMAIN changes /\ "features" \in changes[d]
                       \/ old.fit_windows[d] # windows[d]
                       \/ windows[d] # None /\ windows[d] \cap requested # {}
    IN  [records |-> periods, fit_windows |-> windows,
         repaired |-> {d \in days : repaired(d)}]

-----------------------------------------------------------------------------
(* Proofs and keys. *)

\* Every period has a proof of each parent.
Proofs == [d \in calendar |-> [features |-> samples[d].feature, targets |-> samples[d].target,
                               availability |-> samples[d].at]]

Roles(new, old) == {role \in DOMAIN new : old = None \/ new[role] # old[role]}

\* Days whose proof differs from the previous result's, with the roles that differ.
Changes(previous) ==
    LET old(d) == IF previous # None /\ d \in DOMAIN previous.proofs THEN previous.proofs[d]
                  ELSE None
    IN  [d \in {e \in calendar : Proofs[e] # old(e)} |-> Roles(Proofs[d], old(d))]

\* A phase also names the result that it continues, if there is one.
Key(v, days) == [role |-> "complete", version |-> v, calendar |-> days, previous |-> {}]
StatisticsKey(key, previous) ==
    [key EXCEPT !.role = "statistics", !.previous = IF previous = None THEN {} ELSE {previous.key}]
DeltaKey(key, previous) == [StatisticsKey(key, previous) EXCEPT !.role = "prediction_delta"]

Published(key) == key \in DOMAIN records
Publish(key, result) ==
    records' = IF Published(key) THEN records
               ELSE [k \in DOMAIN records \cup {key} |-> IF k = key THEN result ELSE records[k]]

Results == {records[k] : k \in {q \in DOMAIN records : q.role = "complete"}}

\* How many periods of a result have changed since.
Differences(r) ==
    Cardinality({d \in calendar : d <= Max(r.calendar)
                    /\ (d \in DOMAIN r.proofs => r.proofs[d] # Proofs[d])})

Candidates ==
    LET matching == {r \in Results : Min(r.calendar) = Min(calendar) /\ Max(r.calendar) <= Max(calendar)}
        newest == {r \in matching : \A q \in matching : Max(q.calendar) <= Max(r.calendar)}
    IN  {r \in newest : \A q \in newest : Differences(r) <= Differences(q)}

\* Nothing of the retained statistics, or no feature, is left as it was.
AffectsAllHistory(previous) ==
    LET state == previous.state
        changes == Changes(previous)
        consumed == UNION {h \in Range(state.fit_windows) : h # None}
        outputs == {d \in DOMAIN state.fit_windows :
                      state.fit_windows[d] # None /\ state.records[d].has_features}
    IN  /\ outputs # {}
        /\ \/ consumed # {} /\ consumed \subseteq DOMAIN changes \cap DOMAIN previous.proofs
           \/ \A d \in outputs : d \in DOMAIN changes /\ "features" \in changes[d]

-----------------------------------------------------------------------------
(* Executions. *)

Idle == [step |-> "idle"]
At(step) == work.step = step

\* Nothing is fitted when no period is to be read and the calendar is as it was.
Start ==
    /\ At("idle") /\ calendar # {} /\ ~ Published(Key(version, calendar))
    /\ Cardinality(Results) < scope.maxResults
    /\ Candidates = {} => completed = {}
    /\ \E previous \in IF Candidates = {} THEN {None} ELSE Candidates :
          /\ previous # None => ~ AffectsAllHistory(previous)
          /\ LET old == IF previous = None THEN None ELSE previous.state
                 requested == PeriodWork(old, calendar, Changes(previous))
             IN  work' = [step |-> IF requested = {} /\ previous.calendar = calendar
                                   THEN "compose" ELSE "statistics",
                          key |-> Key(version, calendar), previous |-> previous,
                          requested |-> requested,
                          state |-> IF old = None THEN None ELSE [old EXCEPT !.repaired = {}]]
    /\ UNCHANGED <<scope, samples, calendar, version, records, completed>>

\* The first phase, or what an interrupted execution has published of it.
Statistics ==
    /\ At("statistics")
    /\ LET key == StatisticsKey(work.key, work.previous)
           state == IF Published(key) THEN records[key].state
                    ELSE Update(work.state, calendar, work.requested, Changes(work.previous))
       IN  /\ Publish(key, [key |-> key, state |-> state])
           /\ work' = [work EXCEPT !.state = state,
                                   !.step = IF state.repaired = {} THEN "compose" ELSE "predict"]
    /\ UNCHANGED <<scope, samples, calendar, version, completed>>

\* The second phase: the repaired outputs, from the statistics that were admitted.
Predict ==
    /\ At("predict")
    /\ LET periods == work.state.records IN
       Publish(DeltaKey(work.key, work.previous),
               [rows |-> [d \in work.state.repaired |->
                            Predicted(samples[d], periods, AvailableHistory(periods, d))]])
    /\ work' = [work EXCEPT !.step = "compose"]
    /\ UNCHANGED <<scope, samples, calendar, version, completed>>

\* Mutant: the intervals are cut without the days that have left the calendar.
CurrentDays(old) == calendar

\* The days that references are cut at: also those that have left the calendar.
AllDays(old) == calendar \cup old

\* Ranges of days of one origin; a reference takes all rows of its range.
Composed(previous, repaired, delta) ==
    LET days == AllDays(IF previous = None THEN {} ELSE previous.calendar)
        origin(d) == IF d \notin calendar THEN "none" ELSE IF d \in repaired THEN "delta" ELSE "previous"
        together(a, b) == \A d \in days : d >= a /\ d <= b => origin(d) = origin(a)
        covered(o, d) == \E a, b \in days :
                           a <= d /\ d <= b /\ origin(a) = o /\ together(a, b)
        fromDelta == {d \in repaired : covered("delta", d)}
        fromPrevious == IF previous = None THEN {}
                        ELSE {d \in DOMAIN previous.rows : covered("previous", d)}
    IN  [d \in fromDelta \cup fromPrevious |->
           IF d \in fromDelta THEN delta[d] ELSE previous.rows[d]]

Compose ==
    /\ At("compose")
    /\ LET repaired == work.state.repaired
           delta == IF repaired = {} THEN <<>>
                    ELSE records[DeltaKey(work.key, work.previous)].rows
       IN  Publish(work.key, [key |-> work.key, calendar |-> calendar, proofs |-> Proofs,
                              state |-> [work.state EXCEPT !.repaired = {}],
                              rows |-> Composed(work.previous, repaired, delta)])
    /\ work' = [work EXCEPT !.step = "complete"]
    /\ UNCHANGED <<scope, samples, calendar, version, completed>>

Complete ==
    /\ At("complete")
    /\ completed' = completed \cup {work.key}
    /\ work' = Idle
    /\ UNCHANGED <<scope, samples, calendar, version, records>>

\* A cancellation or a crash: what is published stays.
Interrupt ==
    /\ scope.interrupts /\ ~ At("idle")
    /\ work' = Idle
    /\ UNCHANGED <<scope, samples, calendar, version, records, completed>>

-----------------------------------------------------------------------------
(* The parents, between executions. *)

Sample(day, cell) == [feature |-> cell.feature, target |-> cell.target, at |-> day + cell.delay]

Observe(cell) ==
    /\ At("idle") /\ Len(samples) < scope.maxDays
    /\ samples' = Append(samples, Sample(Len(samples) + 1, cell))
    /\ calendar' = calendar \cup {Len(samples) + 1}
    /\ UNCHANGED <<scope, version, records, completed, work>>

Restate(day, cell) ==
    /\ At("idle") /\ version < scope.maxVersions
    /\ samples' = [samples EXCEPT ![day] = Sample(day, cell)]
    /\ version' = version + 1
    /\ UNCHANGED <<scope, calendar, records, completed, work>>

\* A day turns out to have been no session, or a session.
Revise(day) ==
    /\ At("idle") /\ version < scope.maxVersions
    /\ calendar' = SymDiff(calendar, {day})
    /\ version' = version + 1
    /\ UNCHANGED <<scope, samples, records, completed, work>>

-----------------------------------------------------------------------------
Init ==
    /\ scope \in Scopes /\ samples = <<>> /\ calendar = {} /\ version = 0
    /\ records = <<>> /\ completed = {} /\ work = Idle

Next ==
    \/ Start \/ Statistics \/ Predict \/ Compose \/ Complete \/ Interrupt
    \/ \E cell \in scope.cells : Observe(cell)
    \/ \E day \in DOMAIN samples : Revise(day) \/ \E cell \in scope.cells : Restate(day, cell)

Spec == Init /\ [][Next]_vars

-----------------------------------------------------------------------------
\* What an execution over a whole history gives on a day when the history ends on
\* that very day.
OnItsDay(proofs, day) ==
    LET sample(d) == [feature |-> proofs[d].features, target |-> proofs[d].targets,
                      at |-> proofs[d].availability]
        periods == [d \in {e \in DOMAIN proofs : e <= day} |-> PeriodRecord(sample(d), day)]
    IN  Predicted(sample(day), periods, AvailableHistory(periods, day))

\* "Source proofs, state validation and bounded read admission precede kernels":
\* a result that was continued from the statistics of earlier ones, in whatever
\* calendar they were fitted, restated, interrupted or just matured, has the
\* prediction of every session, and only of sessions, and each is what was known
\* on its own day.
PredictionsAreOfTheirDay ==
    \A r \in Results : r.rows = [d \in r.calendar |-> OnItsDay(r.proofs, d)]
=============================================================================
