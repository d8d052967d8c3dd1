-------------------------- MODULE MCExecutionRuntime --------------------------
(* Graphs for ExecutionRuntime: small ones of every shape for the meaning of *)
(* plans, some larger ones for the order in which they are run.              *)
EXTENDS ExecutionRuntime

CONSTANTS
    Unary, Binary,      \* operations that graphs of every shape are made of
    MoreUnary, Pairs    \* more of them, for graphs of two operations

Leaves == [op |-> <<"sparse", "exact">>, parents |-> << <<>>, <<>> >>]
\* What graphs grow by: an operation of some over every choice of its parents.
With(g, op, ps) == [op |-> Append(g.op, op), parents |-> Append(g.parents, ps)]
ExtensionsBy(ones, twos, g, used) ==
    LET ns == DOMAIN g.op IN
    {With(g, op, <<n>>) : op \in ones, n \in {m \in ns : used \subseteq {m}}}
        \cup {With(g, op, p) : op \in twos, p \in {q \in ns \X ns : used \subseteq Range(q)}}
Extensions(g, used) == ExtensionsBy(Unary, Binary, g, used)

\* Every node but the last is used: all that is not yet, by the last.
Unused(g) == {n \in 3 .. Len(g.op) : \A m \in DOMAIN g.op : n \notin Range(g.parents[m])}
Grown2 == UNION {Extensions(g, {}) : g \in Extensions(Leaves, {})}
Graphs2 == UNION {Extensions(g, Unused(g)) : g \in Extensions(Leaves, {})}
Graphs3 == UNION {Extensions(g, Unused(g)) : g \in Grown2}

\* Where a default goes that no frame has rows for.
Defaulted(g) ==
    LET d[n \in DOMAIN g.op] ==
          CASE g.op[n] \in {"fillna", "constant"} -> TRUE
            [] g.op[n] = "lag" -> d[g.parents[n][1]]
            [] g.op[n] \in Binary -> \A i \in {1, 2} : d[g.parents[n][i]]
            [] OTHER -> FALSE
    IN  d
ScalarOperand(g, n) == IF g.op[g.parents[n][1]] = "constant" THEN g.parents[n][2] ELSE g.parents[n][1]
IsScalar(g, n) == g.op[n] \in Binary /\ \E m \in Range(g.parents[n]) : g.op[m] = "constant"
\* No lag and no scalar arithmetic drops or moves a default.
KeepsDefaults(g) ==
    \A n \in DOMAIN g.op : LET d == Defaulted(g) IN
        /\ g.op[n] = "lag" => ~d[g.parents[n][1]]
        /\ IsScalar(g, n) => ~d[ScalarOperand(g, n)]

Scenario(g, s, w, h, d, f) ==
    [graph |-> g, source |-> s, workers |-> w, headroom |-> h, durable |-> d, failures |-> f]
Rows == {<<1, 1>>, <<2, 1>>, <<2, 2>>}
Algebra == {Scenario(g, Rows, 1, 1, FALSE, 0) : g \in {h \in Graphs2 \cup Graphs3 : KeepsDefaults(h)}}

\* Two operations, of those that read windows, pairs and sessions too.  Those with
\* traces of their own need them of all parents; labels are those of an input
\* that has one in every row.
MoreGraphs ==
    LET by(g, used) == ExtensionsBy(Unary \cup MoreUnary, Binary \cup Pairs, g, used) IN
    UNION {by(g, Unused(g)) : g \in by(Leaves, {})}
IsTraced(g) ==
    LET t[n \in DOMAIN g.op] ==
          IF g.op[n] \in Inputs THEN g.op[n] = "sparse" ELSE \E m \in Range(g.parents[n]) : t[m]
    IN  t
Admitted(g) ==
    \A n \in DOMAIN g.op : LET ps == g.parents[n] IN
        /\ g.op[n] \in {"covariance", "regression"} => IsTraced(g)[ps[1]] = IsTraced(g)[ps[2]]
        /\ g.op[n] = "grouped" => g.op[ps[2]] = "sparse"
Windows ==
    {Scenario(g, s, 1, 1, FALSE, 0) :
        g \in {h \in MoreGraphs : KeepsDefaults(h) /\ Admitted(h)}, s \in {Rows, Grid}}

\* Graphs of eager work: two kernels for one frame and two of their own, over
\* lazy plans that are shared, twins of each other, or published before they
\* are used again.
Graph(ops, parents) == [op |-> Leaves.op \o ops, parents |-> Leaves.parents \o parents]
Ranks == Graph(<<"rank", "percentile", "extension", "extension", "add", "sub", "add">>,
               << <<1>>, <<1>>, <<2>>, <<1>>, <<3, 5>>, <<4, 6>>, <<7, 8>> >>)
Twins == Graph(<<"negate", "negate", "extension", "extension", "rank", "rank", "sub", "add">>,
               << <<1>>, <<1>>, <<3>>, <<4>>, <<3>>, <<4>>, <<5, 7>>, <<6, 9>> >>)
Stages == Graph(<<"fillna", "negate", "diff", "extension", "lag", "rank", "add", "extension">>,
               << <<1>>, <<3>>, <<4>>, <<4>>, <<2>>, <<7>>, <<5, 8>>, <<9>> >>)
\* Regressions that are one computation, or have a first parent in common.
Fits == Graph(<<"negate", "negate", "regression", "regression", "regression", "rank", "add", "sub", "add">>,
              << <<1>>, <<1>>, <<3, 1>>, <<4, 1>>, <<3, 4>>, <<3>>, <<5, 6>>, <<7, 8>>, <<9, 10>> >>)
Schedules ==
    {Scenario(g, Rows, w, h, TRUE, 1) : g \in {Ranks, Twins, Stages, Fits}, w \in 2 .. 3, h \in {20, 50}}
        \cup {Scenario(g, Rows, 1, 1, TRUE, 1) : g \in {Ranks, Twins, Stages}}

MCScenarios == Algebra \cup Windows \cup Schedules

\* Every graph of three operations, those that lose a default with them.
AnyDefaults == {Scenario(g, {<<2, 1>>}, 1, 1, FALSE, 0) : g \in Graphs3}
===============================================================================
