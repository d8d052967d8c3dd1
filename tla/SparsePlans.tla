----------------------------- MODULE SparsePlans -----------------------------
(***************************************************************************)
(* The plan values of execution.py: what a node of a graph is turned into  *)
(* before anything is collected.                                           *)
(*                                                                         *)
(* A frame has a row for some of the keys of the Domain, its grid.  A plan *)
(* claims more than it holds: that the keys it has no row for carry one    *)
(* default, that it has a row for every key, that its keys are those of    *)
(* another plan with the same key identity, that its rows come in an order.*)
(* On these claims the runtime skips alignments, sorts and joins.          *)
(*                                                                         *)
(* The Domain is static and one, keys are valid, operators deterministic,  *)
(* and there is one trace column: the session at which a value became      *)
(* available.  A trace frame's row order is left out.                      *)
(***************************************************************************)
EXTENDS Integers, FiniteSets, FiniteSetsExt, Sequences, SequencesExt, Functions

CONSTANTS
    Sessions,     \* sessions of the calendar
    AssetCount,   \* assets, numbered in their order
    Null          \* no value, and no default

ASSUME GridAssumption == Sessions \in Nat \ {0} /\ AssetCount \in Nat \ {0}

VARIABLES
    graph,    \* [op, parents]: its nodes in topological order
    source    \* the keys its sparse, traced input has a row for

Nodes == DOMAIN graph.op
Op(n) == graph.op[n]
Parents(n) == graph.parents[n]
ParentSet(n) == Range(Parents(n))

Inputs == {"sparse", "exact"}
Scalable == {"add", "sub"}             \* also the reducers of implicit frames
Windowed == {"rolling", "aged", "smooth"}    \* read two rows of an asset
DenseRequired == Windowed \cup {"fillna", "constant", "lag", "diff", "ffill", "repeated", "rank", "percentile",
                                "covariance", "regression", "extension"}
Eager == {"rank", "percentile", "regression", "extension"}
\* Those with a plan operation: of one frame, in the order of assets, or of two.
TimeSeries == Windowed \cup {"diff", "ffill", "repeated"}
Planned == TimeSeries \cup {"negate", "add", "sub", "covariance"}
Operators == Planned \cup {"fillna", "constant", "lag", "rank", "percentile", "demean", "grouped",
                           "regression", "extension"}
IsBuiltin(n) == Op(n) # "extension"

TraceRule(n) ==
    CASE Op(n) \in {"negate", "fillna", "constant"} -> "passthrough"
      [] Op(n) = "lag" -> "shift"
      [] Op(n) \in {"diff", "repeated"} -> "current_and_shift_max"
      [] Op(n) = "ffill" -> "forward_fill"
      [] Op(n) \in {"rolling", "aged", "rank", "percentile"} -> "rolling_max"
      [] Op(n) = "demean" -> "cross_section_max"
      [] Op(n) = "grouped" -> "group_max"
      [] Op(n) \in {"smooth", "covariance", "regression"} -> "custom"
      [] OTHER -> "parent_max"

\* Nodes of one logical identity: authored twice over the same parents.
PhysicalIdentity[n \in Nodes] ==
    Min({n} \cup {m \in 1 .. n - 1 : /\ Op(m) = Op(n)
                                     /\ Len(Parents(m)) = Len(Parents(n))
                                     /\ \A i \in DOMAIN Parents(n) :
                                            PhysicalIdentity[Parents(m)[i]] = PhysicalIdentity[Parents(n)[i]]})

-----------------------------------------------------------------------------
(* Frames and the operators' own definitions of their values. *)

Grid == (1 .. Sessions) \X (1 .. AssetCount)

\* The rows of the same asset before k, and the last of some rows.
Before(f, k) == {j \in DOMAIN f : j[2] = k[2] /\ j[1] < k[1]}
LastOf(f, keys) == IF keys = {} THEN Null ELSE f[CHOOSE j \in keys : \A i \in keys : i[1] <= j[1]]
Prior(f, k) == LastOf(f, Before(f, k))
Filled(f, k) == LastOf(f, {j \in Before(f, k) \cup {k} : f[j] # Null})

Plus(u, v) == IF Null \in {u, v} THEN Null ELSE u + v
Minus(u, v) == IF Null \in {u, v} THEN Null ELSE u - v
OrElse(u, v) == IF u = Null THEN v ELSE u
Later(u, v) == IF u = Null THEN v ELSE IF v = Null \/ u >= v THEN u ELSE v
At(f, k) == IF k \in DOMAIN f THEN f[k] ELSE Null

Scalar == 2    \* what "constant" is configured with; "fillna" has 0

\* The row before k, and the values in a window of two rows that ends with k.
Previous(f, k) == {j \in Before(f, k) : \A i \in Before(f, k) : i[1] <= j[1]}
Window(f, k) == {j \in {k} \cup Previous(f, k) : f[j] # Null}
Added(f) == FoldFunction(+, 0, f)
Total(f, keys) == Added(Restrict(f, keys))

\* Windows of time: a rolling sum of at least one value, a weighted one, a value
\* that is not too rarely known, a value that is not that of the row before.
RollingValue(op, f, k) ==
    LET w == Window(f, k) IN
    CASE op = "rolling" -> IF w = {} THEN Null ELSE Total(f, w)
      [] op = "smooth" -> IF w = {} THEN Null ELSE Total(f, w) + Total(f, w \cap {k})
      [] op = "aged" -> IF Cardinality(w) = 2 THEN f[k] ELSE Null
      [] op = "repeated" -> IF f[k] = Prior(f, k) THEN Null ELSE f[k]

\* The average rank, in halves, that the last value of a window has in it, and
\* the share of the window that this is, in quarters.
RollingRank(f, k) ==
    LET w == Window(f, k)
        last == LastOf(f, w)
    IN  2 * Cardinality({j \in w : f[j] < last}) + Cardinality({j \in w : f[j] = last}) + 1
RankValue(op, f, k) ==
    LET w == Window(f, k) IN
    IF w = {} THEN Null
    ELSE IF op = "rank" THEN RollingRank(f, k) ELSE RollingRank(f, k) * (2 \div Cardinality(w))

\* Twice the covariance of the pairs in a window, if both are known.
Covariance(f, g, k) ==
    LET w == Window(f, k) \cap Window(g, k)
        j == CHOOSE i \in w : i # k
    IN  IF Cardinality(w) = 2 THEN (f[k] - f[j]) * (g[k] - g[j]) ELSE Null

\* A fit to the row before, applied to the factor of this row: a number made of
\* these three in place of the prediction.
Prediction(f, g, k) ==
    LET w == Previous(f, k)
        j == CHOOSE i \in w : TRUE
    IN  IF w = {} THEN Null
        ELSE IF Null \in {f[j], g[j], g[k]} THEN Null ELSE f[j] + 2 * g[j] + 3 * g[k]

\* Distance from the mean of those that are compared, times their number.
Centered(f, peers, k) ==
    LET known == {j \in peers : f[j] # Null} IN
    IF f[k] = Null THEN Null ELSE Cardinality(known) * f[k] - Total(f, known)
Session(f, k) == {j \in DOMAIN f : j[1] = k[1]}
Label(v) == v \div 6    \* classes of values, when they are categories

Cell(op, f, g, k) ==
    CASE op = "negate" -> Minus(0, f[k])
      [] op = "fillna" -> OrElse(f[k], 0)
      [] op = "constant" -> Scalar
      [] op = "lag" -> Prior(f, k)
      [] op = "diff" -> Minus(f[k], Prior(f, k))
      [] op = "ffill" -> Filled(f, k)
      [] op \in {"rolling", "smooth", "aged", "repeated"} -> RollingValue(op, f, k)
      [] op \in {"rank", "percentile"} -> RankValue(op, f, k)
      [] op = "demean" -> Centered(f, Session(f, k), k)
      [] op = "grouped" -> Centered(f, {j \in Session(f, k) : Label(g[j]) = Label(g[k])}, k)
      [] op = "covariance" -> Covariance(f, g, k)
      [] op = "regression" -> Prediction(f, g, k)
      [] op = "extension" -> Plus(f[k], f[k])
      [] op = "add" -> Plus(f[k], g[k])
      [] op = "sub" -> Minus(f[k], g[k])

\* Operators of several frames join them on the keys they share; those of
\* groups drop the keys without a label.
Joined(op, frames) ==
    {k \in DOMAIN Head(frames) \cap DOMAIN Last(frames) : op = "grouped" => Last(frames)[k] # Null}
Apply(op, frames) ==
    LET keys == Joined(op, frames)
        f == Restrict(Head(frames), keys)
        g == Restrict(Last(frames), keys)
    IN  [k \in keys |-> Cell(op, f, g, k)]

OverGrid(f, default) == [k \in Grid |-> IF k \in DOMAIN f THEN f[k] ELSE default]
Valued(f, default) == [k \in Grid |-> OrElse(At(f, k), default)]

\* How many rows of an asset before its own a value may be made of: Null when
\* all of them.
OwnHistoryOfWindow(op) ==    \* a regression has its window without the row itself
    CASE op \in Windowed \cup {"lag", "diff", "repeated", "rank", "percentile", "covariance"} -> 1
      [] op \in {"ffill", "extension"} -> Null
      [] OTHER -> 0
OwnHistory(op) ==
    CASE op \in Windowed \cup {"lag", "diff", "repeated", "rank", "percentile", "covariance", "regression"} -> 1
      [] op \in {"ffill", "extension"} -> Null
      [] OTHER -> 0
History[n \in Nodes] ==
    LET own == OwnHistory(Op(n))
        parents == {History[p] : p \in ParentSet(n)}
    IN  IF Op(n) \in Inputs THEN 0 ELSE IF Null \in {own} \cup parents THEN Null ELSE own + Max(parents)

\* The inputs: the sparse one is traced and its first session was restated
\* late, the exact one has a row without a value.
Observed(n) ==
    IF Op(n) = "sparse" THEN [k \in source |-> 5 * k[1] + k[2]]
    ELSE [k \in Grid |-> IF k = <<Sessions, AssetCount>> THEN Null ELSE 3 * k[2] - 7 * k[1]]
Available(n) ==
    IF Op(n) = "sparse" THEN [k \in source |-> IF k[1] = 1 THEN Sessions + 1 ELSE k[1]] ELSE <<>>

-----------------------------------------------------------------------------
(* Plan values. *)

NoKeys == <<"none", 0>>
DomainKeys == <<"domain", 0>>

\* What rows of trace a plan derived by rule from one parent carries.
TransformedAlone(rule, t) ==    \* a change has the evidence of its current row
    CASE rule = "rolling_max" -> [k \in DOMAIN t |-> Later(t[k], Prior(t, k))]
      [] rule = "forward_fill" -> [k \in DOMAIN t |-> Filled(t, k)]
      [] OTHER -> t
RollingMax(t) == [k \in DOMAIN t |-> Later(t[k], Prior(t, k))]
Transformed(rule, t) ==
    CASE rule = "current_and_shift_max" ->
            [k \in DOMAIN t |-> IF t[k] = Null THEN Null ELSE Later(t[k], Prior(t, k))]
      [] rule = "rolling_max" -> RollingMax(t)
      [] rule = "forward_fill" -> [k \in DOMAIN t |-> Filled(t, k)]
      [] OTHER -> t

TraceIds(ps) == {ps[i].traceId : i \in {j \in DOMAIN ps : ps[j].traced}}
Traced(ps) == SelectSeq(ps, LAMBDA p : p.traced)
AnyTraced(ps) == \E i \in DOMAIN ps : ps[i].traced

\* Parents with one trace identity need no join when the keys are the result's.
SharesTraces(ps, keys) ==
    Cardinality(TraceIds(ps)) = 1 /\ keys = Head(Traced(ps)).traceKeys

LatestOf(ts, k) == FoldSeq(LAMBDA t, best : Later(At(t, k), best), Null, ts)

\* Rules of their own: each reads the traces of the rows of its parents.
WithTraces(p) == [k \in DOMAIN p.frame |-> At(p.traces, k)]
SmoothTraces(ps) == <<RollingMax(WithTraces(ps[1]))>>
PairTraces(ps) == [i \in DOMAIN ps |-> RollingMax(WithTraces(ps[i]))]
RegressionTraces(ps) ==    \* targets of the rows before, factors of this row too
    LET target == WithTraces(ps[1]) IN
    <<[k \in DOMAIN target |-> Prior(target, k)], RollingMax(WithTraces(ps[2]))>>
CustomTraces(n, ps) ==
    CASE Op(n) = "smooth" -> SmoothTraces(ps)
      [] Op(n) = "covariance" -> PairTraces(ps)
      [] Op(n) = "regression" -> RegressionTraces(ps)

\* The latest evidence in some rows of a trace.
LatestIn(t, keys) == FoldSet(LAMBDA k, best : Later(t[k], best), Null, keys)
DailyMax(t, k) == LatestIn(t, {j \in DOMAIN t : j[1] = k[1]})
\* A row of a group has the evidence of its members, and of all labels of its
\* session: that an asset is not a member is known from its label.
MembersMax(ps, k) ==    \* without the labels'
    LET labels == ps[2].frame
        label(j) == IF At(labels, j) = Null THEN Null ELSE Label(labels[j])
    IN  IF ~ps[1].traced THEN Null
        ELSE LatestIn(ps[1].traces, {j \in DOMAIN ps[1].traces : j[1] = k[1] /\ label(j) # Null /\ label(j) = label(k)})
GroupMax(ps, k) ==
    Later(MembersMax(ps, k), IF ps[2].traced THEN DailyMax(ps[2].traces, k) ELSE Null)

BuildTraces(n, frame, ps, keys) ==
    LET rows(value(_)) == [k \in DOMAIN frame |-> value(k)]
        traces == [i \in DOMAIN Traced(ps) |-> Traced(ps)[i].traces]
        first == Head(traces)
        latest(k) == LatestOf(traces, k)
        daily(k) == FoldSeq(LAMBDA t, best : Later(DailyMax(t, k), best), Null, traces)
        custom(k) == LatestOf(CustomTraces(n, ps), k)
        group(k) == GroupMax(ps, k)
        transformed == Transformed(TraceRule(n), first)
        moved(k) == At(transformed, k)
    IN  CASE ~AnyTraced(ps) -> <<>>
          [] TraceRule(n) = "parent_max" -> IF SharesTraces(ps, keys) THEN first ELSE rows(latest)
          [] TraceRule(n) = "cross_section_max" -> rows(daily)
          [] TraceRule(n) = "group_max" -> rows(group)
          [] TraceRule(n) = "custom" -> rows(custom)
          [] OTHER -> IF keys = ps[1].traceKeys THEN transformed ELSE rows(moved)

\* Rules that only pass evidence on keep the identity of what they pass on.
TracePlanIdentity(n, ps) ==
    IF ~AnyTraced(ps) THEN <<>>
    ELSE IF TraceRule(n) \in {"passthrough", "parent_max"} /\ Cardinality(TraceIds(ps)) = 1
         THEN Head(Traced(ps)).traceId ELSE <<n>>

CombinedKeys(n, ps) ==
    IF \A i \in DOMAIN ps : ps[i].keys = ps[1].keys THEN ps[1].keys ELSE <<"plan", n>>

InputPlan(n) ==
    [id |-> <<n, "input", "own">>, frame |-> Observed(n), default |-> Null, exact |-> DOMAIN Observed(n) = Grid,
     keys |-> IF Op(n) = "exact" \/ source = Grid THEN DomainKeys ELSE <<"plan", n>>,
     order |-> "time_asset", rows |-> "time_asset",
     traced |-> Op(n) = "sparse", traces |-> Available(n),
     traceKeys |-> IF source = Grid THEN DomainKeys ELSE <<"plan", n>>,
     traceId |-> IF Op(n) = "sparse" THEN <<n>> ELSE <<>>,
     phys |-> PhysicalIdentity[n], lineage |-> {}]

\* A plan of node n over its parents: ready to be altered where a rule differs.
\* rows is the order its rows do come in, lineage what collecting it computes.
Derived(n, how, frame, ps, keys, order, rows) ==
    [id |-> <<n, how, "own">>, frame |-> frame, default |-> Null, exact |-> ps[1].exact,
     keys |-> keys, order |-> order, rows |-> rows,
     traced |-> AnyTraced(ps), traces |-> BuildTraces(n, frame, ps, keys), traceKeys |-> keys,
     traceId |-> TracePlanIdentity(n, ps),
     phys |-> PhysicalIdentity[n], lineage |-> {n} \cup UNION {ps[i].lineage : i \in DOMAIN ps}]

\* Which rows two equally ordered frames pair up: the i-th with the i-th.
PositionallyAligned(ps) ==
    \A i \in DOMAIN ps : /\ ps[i].exact
                         /\ ps[i].keys = ps[1].keys
                         /\ ps[i].order = ps[1].order /\ ps[1].order # "none"

\* Frames that are laid out alike share the keys of one: the values of the
\* others are put beside them, row by row.
Ordered(keys, rows) ==
    SetToSortSeq(keys, LAMBDA j, k :
        IF rows = "time_asset" THEN j[1] < k[1] \/ (j[1] = k[1] /\ j[2] < k[2])
        ELSE j[2] < k[2] \/ (j[2] = k[2] /\ j[1] < k[1]))
Pasted(f, rows, keys) ==
    LET own == Ordered(DOMAIN f, rows)
        place(k) == CHOOSE i \in DOMAIN keys : keys[i] = k
    IN  [k \in Range(keys) |-> IF place(k) \in DOMAIN own THEN f[own[place(k)]] ELSE Null]
ByPlace(ps) ==
    [i \in DOMAIN ps |-> Pasted(ps[i].frame, ps[i].rows, Ordered(DOMAIN ps[1].frame, ps[1].rows))]
Frames(ps) == [i \in DOMAIN ps |-> ps[i].frame]

\* The inputs of a kernel: the first of those that claim one layout owns the keys.
Collected(ps) ==
    LET alike(p, r) == p.exact /\ r.exact /\ p.keys = r.keys /\ p.order = r.order /\ p.order # "none"
        owner(i) == ps[Min({j \in 1 .. i : j = i \/ alike(ps[j], ps[i])})]
    IN  [i \in DOMAIN ps |->
            Pasted(ps[i].frame, ps[i].rows, Ordered(DOMAIN owner(i).frame, owner(i).rows))]
Operands(n, ps) ==
    IF Op(n) \in Eager THEN Collected(ps)
    ELSE IF Op(n) \in Planned /\ PositionallyAligned(ps) THEN ByPlace(ps) ELSE Frames(ps)

ResultKeys(n, ps) == IF Len(ps) = 1 /\ IsBuiltin(n) THEN ps[1].keys ELSE CombinedKeys(n, ps)
ResultExactDomain(n, ps) ==
    IsBuiltin(n) /\ \A i \in DOMAIN ps : ps[i].exact /\ ps[i].keys = ps[1].keys

-----------------------------------------------------------------------------
(* The forms without a grid, and the grid. *)

\* A binary operation with a constant becomes an expression over the other
\* operand, whose default it forgets.
LowersScalar(n) == Op(n) \in Scalable /\ \E c \in ParentSet(n) : Op(c) = "constant"
ConstantIndex(n) == IF Op(Parents(n)[1]) = "constant" THEN 1 ELSE 2
ScalarPlan(n, plans) ==
    LET i == ConstantIndex(n)
        other == plans[Parents(n)[3 - i]]
        origin == plans[Head(Parents(Parents(n)[i]))]
        scaled(u) == IF i = 1 THEN Cell(Op(n), <<Scalar>>, <<u>>, 1) ELSE Cell(Op(n), <<u>>, <<Scalar>>, 1)
        frame == [k \in DOMAIN other.frame |-> scaled(other.frame[k])]
    IN  [Derived(n, "scalar", frame, <<origin, other>>, other.keys, other.order, other.rows)
            EXCEPT !.exact = other.exact, !.lineage = {n} \cup other.lineage]

\* fillna and constant have a value for keys without a row.
ImplicitPlan(n, p) ==
    LET frame == [k \in DOMAIN p.frame |-> Cell(Op(n), p.frame, p.frame, k)] IN
    [Derived(n, "implicit", frame, <<p>>, p.keys, p.order, p.rows)
        EXCEPT !.default = IF Op(n) = "constant" THEN Scalar ELSE OrElse(p.default, 0)]

\* A reducer of frames one of which has a default joins all their keys.
JoinsImplicit(n, ps) == Op(n) \in Scalable /\ \E i \in DOMAIN ps : ps[i].default # Null
ImplicitJoinInner(n, ps) ==    \* joins the keys that all frames have
    LET keys == DOMAIN ps[1].frame \cap DOMAIN ps[2].frame
        frame == [k \in keys |-> Cell(Op(n), ps[1].frame, ps[2].frame, k)]
        default == Cell(Op(n), <<ps[1].default>>, <<ps[2].default>>, 1)
    IN  [Derived(n, "implicit", frame, ps, CombinedKeys(n, ps), "none", "none")
            EXCEPT !.default = default,
                   !.exact = default # Null /\ \A i \in DOMAIN ps : ps[i].exact]
ImplicitJoin(n, ps) ==
    LET column(p, k) == OrElse(At(p.frame, k), p.default)
        keys == UNION {DOMAIN ps[i].frame : i \in DOMAIN ps}
        frame == [k \in keys |-> Cell(Op(n), <<column(ps[1], k)>>, <<column(ps[2], k)>>, 1)]
        default == Cell(Op(n), <<ps[1].default>>, <<ps[2].default>>, 1)
    IN  [Derived(n, "implicit", frame, ps, CombinedKeys(n, ps), "none", "none")
            EXCEPT !.default = default,
                   !.exact = default # Null /\ \A i \in DOMAIN ps : ps[i].exact]

\* lag moves keys along the calendar.  Its default stays that of its parent.
Shifted(f) ==
    LET keys == {<<k[1] + 1, k[2]>> : k \in {j \in DOMAIN f : j[1] < Sessions}}
    IN  [k \in keys |-> f[<<k[1] - 1, k[2]>>]]
ShiftPlanInPlace(n, p) ==    \* claims the keys of its parent
    [Derived(n, "shift", Shifted(p.frame), <<p>>, p.keys, "time_asset", "time_asset")
        EXCEPT !.default = p.default,
               !.traces = IF p.traced THEN Shifted(p.traces) ELSE <<>>,
               !.traceId = IF p.traced THEN Append(p.traceId, 0) ELSE <<>>]
ShiftPlan(n, p) ==
    [Derived(n, "shift", Shifted(p.frame), <<p>>, <<"plan", n>>, "time_asset", "time_asset")
        EXCEPT !.default = p.default, !.exact = FALSE,
               !.traces = IF p.traced THEN Shifted(p.traces) ELSE <<>>,
               !.traceId = IF p.traced THEN Append(p.traceId, 0) ELSE <<>>]

Gridded(p, how) ==
    [p EXCEPT !.id = Append(p.id, how), !.frame = Valued(p.frame, p.default), !.default = Null, !.exact = TRUE,
              !.keys = DomainKeys, !.order = "time_asset", !.rows = "time_asset",
              !.traces = IF p.traced THEN OverGrid(p.traces, Null) ELSE <<>>,
              !.traceKeys = IF p.traced THEN DomainKeys ELSE NoKeys]
ExpandImplicit(p) == IF p.default = Null THEN p ELSE Gridded(p, "expanded")
EnsureDense(p) == IF p.default = Null /\ p.exact THEN p
                  ELSE IF p.default # Null THEN ExpandImplicit(p) ELSE Gridded(p, "dense")
Prepared(n, p) == IF Op(n) \in DenseRequired THEN EnsureDense(p) ELSE ExpandImplicit(p)

\* An operation over prepared parents.  Rows that are not known to be in order
\* are sorted by the operations that need it, or by those without a plan.
GeneralPlan(n, ps) ==
    LET frame == Apply(Op(n), Operands(n, ps))
        aligned == Op(n) \in Planned /\ (Len(ps) = 1 \/ PositionallyAligned(ps))
        sorts == Op(n) \in TimeSeries /\ ps[1].order = "none"
        sorted(order) == IF sorts THEN "asset_time" ELSE order
        order == IF aligned /\ sorted(ps[1].order) # "none" THEN sorted(ps[1].order)
                 ELSE IF IsBuiltin(n) THEN "time_asset" ELSE "none"
        rows == IF aligned THEN sorted(ps[1].rows) ELSE IF IsBuiltin(n) THEN "time_asset" ELSE "none"
    IN  [Derived(n, "own", frame, ps, ResultKeys(n, ps), order, rows) EXCEPT !.exact = ResultExactDomain(n, ps)]

\* The form that planning gives node n without cached plans.
Lowers(n, ps) == LowersScalar(n) \/ Op(n) \in {"lag", "fillna", "constant"} \/ JoinsImplicit(n, ps)
Lowered(n, plans, ps) ==
    CASE LowersScalar(n) -> ScalarPlan(n, plans)
      [] Op(n) = "lag" -> ShiftPlan(n, ps[1])
      [] Op(n) \in {"fillna", "constant"} -> ImplicitPlan(n, ps[1])
      [] OTHER -> ImplicitJoin(n, ps)

\* What a published result is read back as: a scan with keys of its own.
Frozen(p, q) ==
    LET whole == ExpandImplicit(p) IN
    [whole EXCEPT !.id = p.id, !.keys = <<"stored", q>>, !.exact = FALSE,
                  !.order = "time_asset", !.rows = "time_asset",
                  !.traces = IF p.traced THEN [k \in DOMAIN whole.frame |-> At(whole.traces, k)] ELSE <<>>,
                  !.traceKeys = <<"stored", q>>, !.traceId = IF p.traced THEN <<-q>> ELSE <<>>,
                  !.phys = q, !.lineage = {}]

\* What a caller is given.
DenseOutput(p) ==
    LET whole == ExpandImplicit(p) IN IF whole.exact THEN whole.frame ELSE Valued(whole.frame, Null)

\* Outputs are collected together: one of them has the keys, and the values of
\* another are put beside them, sorted first unless they are said to be.
OutputRows(p) ==
    LET whole == ExpandImplicit(p) IN
    IF whole.exact /\ whole.order = "time_asset" THEN whole.rows ELSE "time_asset"
Presented(owner, p) ==
    Pasted(DenseOutput(p), OutputRows(p), Ordered(DOMAIN DenseOutput(owner), OutputRows(owner)))
=============================================================================
