---------------------------- MODULE RollingTraining ----------------------------
(***************************************************************************)
(* The rolling estimators of operator/training.py over one asset: on every *)
(* fit session a model is fitted to a bounded sample of matured labels,    *)
(* and predicts until the next one.  A fitted model is the sample it was   *)
(* fitted to; a row has the feature as its value and the label as its      *)
(* trace.                                                                  *)
(*                                                                         *)
(* A config has window, fit_every, min_samples, max_samples,               *)
(* label_maturity, anchor_offset, and the priority of every session, its   *)
(* fixed hash.  Sessions count from 1.                                     *)
(***************************************************************************)
EXTENDS StreakState

CONSTANT Absent   \* a session in which the asset is not a member

Fits(config, t) == (t - 1 + config.anchor_offset) % config.fit_every = 0

\* Mutant: the label of the fit session itself is not proven.
ShortLabels(config, t) ==
    LET fits == {u \in 1 .. t : Fits(config, u)}
    IN  IF fits = {} THEN 0 ELSE Max({0, Max(fits) - config.label_maturity - 1})

\* _training_parent_scopes: the last label that the last fit can consume.
LabelEnd(config, t) ==
    LET fits == {u \in 1 .. t : Fits(config, u)}
    IN  IF fits = {} THEN 0 ELSE Max({0, Max(fits) - config.label_maturity})

\* date_balanced_training_keys: one asset has a quota of one key a day or none,
\* and the days that get one are the first by priority.
Sampled(config, days) ==
    IF Cardinality(days) <= config.max_samples THEN days
    ELSE {d \in days : Cardinality({e \in days :
             config.priority[e] < config.priority[d]}) < config.max_samples}

Trainable(row) == row # Absent /\ row.value # Null /\ row.trace # Null

\* The model of a fit session, Null without enough mature samples.
Fit(config, s, t) ==
    LET last == t - config.label_maturity
        days == Sampled(config, {u \in Max({1, last - config.window + 1}) .. last : Trainable(s[u])})
    IN  IF Cardinality(days) < config.min_samples THEN Null
        ELSE {[time |-> u, feature |-> s[u].value, label |-> s[u].trace] : u \in days}

\* The model in effect on every session after `after`: of the last fit, or the one restored.
Models(config, s, sessions, after, restored) ==
    [t \in after .. sessions |->
       LET fits == {u \in after + 1 .. t : Fits(config, u)}
       IN  IF fits = {} THEN restored ELSE Fit(config, s, Max(fits))]

Predicted(model, row) ==
    IF row = Absent THEN Absent
    ELSE [value |-> IF model = Null \/ row.value = Null THEN Null ELSE <<model, row.value>>,
          trace |-> Null]
=============================================================================
