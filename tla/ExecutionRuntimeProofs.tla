------------------------ MODULE ExecutionRuntimeProofs ------------------------
(***************************************************************************)
(* The execution runtime, for any graph, operators, memory and number of   *)
(* workers: evidence is published with its result, what awaits publication *)
(* is bounded, nothing published is collected again, and the rows that a   *)
(* node is proven to need give the values that the whole history does.     *)
(***************************************************************************)
EXTENDS ExecutionRuntime, WellFoundedInduction, SequenceTheorems, FiniteSetTheorems, TLAPS

LEMMA LeastNumber == ASSUME NEW S \in SUBSET Nat, S # {} PROVE \E n \in S : \A m \in S : n <= m
  <1> DEFINE R == OpToRel(<, Nat)
  <1>1. PICK n \in S : \A m \in S : <<m, n>> \notin R
    BY NatLessThanWellFounded, WFMin
  <1>2. \A m \in S : ~ (m < n)
    BY <1>1 DEF OpToRel
  <1> HIDE DEF R
  <1>3. \A m \in S : n <= m
    BY <1>2
  <1> QED
    BY <1>3

LEMMA MinOfNumbers == ASSUME NEW S \in SUBSET Nat, S # {} PROVE Min(S) \in S /\ \A n \in S : Min(S) <= n
  BY LeastNumber DEF Min

-----------------------------------------------------------------------------
(* The graph. *)

LEMMA GraphFacts ==
    ASSUME IsGraph(graph)
    PROVE  /\ Nodes = 1 .. Len(graph.op) /\ Len(graph.op) \in Nat
           /\ \A n \in Nodes : /\ Parents(n) \in Seq(Nodes)
                               /\ \A i \in DOMAIN Parents(n) : Parents(n)[i] \in Nodes /\ Parents(n)[i] < n
                               /\ \A m \in ParentSet(n) : m \in Nodes /\ m < n
  <1>1. Nodes = 1 .. Len(graph.op) /\ Len(graph.op) \in Nat
    BY DEF IsGraph, Nodes
  <1>2. ASSUME NEW n \in Nodes
        PROVE  /\ Parents(n) \in Seq(Nodes)
               /\ \A i \in DOMAIN Parents(n) : Parents(n)[i] \in Nodes /\ Parents(n)[i] < n
    <2>1. Parents(n) \in Seq(1 .. n - 1) /\ 1 .. n - 1 \subseteq Nodes
      BY <1>1 DEF IsGraph, Nodes, Parents
    <2> QED
      BY <1>1, <2>1
  <1>3. ASSUME NEW n \in Nodes, NEW m \in ParentSet(n) PROVE m \in Nodes /\ m < n
    BY <1>2 DEF ParentSet, Range
  <1> QED
    BY <1>1, <1>2, <1>3

\* The least of the nodes up to n that are the same computation as n, given the
\* identities of earlier nodes.
FirstTwin(f, n) ==
    Min({n} \cup {m \in 1 .. n - 1 : /\ Op(m) = Op(n)
                                     /\ Len(Parents(m)) = Len(Parents(n))
                                     /\ \A i \in DOMAIN Parents(n) : f[Parents(m)[i]] = f[Parents(n)[i]]})

\* There are identities for the nodes up to any one: the first without would have
\* them from those of the nodes before.
LEMMA IdentitiesExist ==
    ASSUME IsGraph(graph)
    PROVE  \E f : f = [n \in Nodes |-> FirstTwin(f, n)]
  <1> DEFINE Has(k) == \E f : f = [n \in 1 .. k |-> FirstTwin(f, n)]
             Without == {k \in 0 .. Len(graph.op) : ~ Has(k)}
  <1>1. Nodes = 1 .. Len(graph.op) /\ Len(graph.op) \in Nat
    BY GraphFacts
  <1>2. SUFFICES Without = {}
    BY <1>1
  <1>3. SUFFICES ASSUME Without # {} PROVE FALSE
    OBVIOUS
  <1>4. PICK k \in Without : \A j \in Without : k <= j
    <2>1. Without \in SUBSET Nat
      BY <1>1
    <2> HIDE DEF Without
    <2> QED
      BY <1>3, <2>1, LeastNumber
  <1>5. k # 0
    <2>1. \A f : [n \in 1 .. 0 |-> FirstTwin(f, n)] = [n \in 1 .. 0 |-> 0]
      OBVIOUS
    <2> DEFINE e == [n \in 1 .. 0 |-> 0]
    <2>2. e = [n \in 1 .. 0 |-> FirstTwin(e, n)]
      BY <2>1
    <2>3. Has(0)
      BY <2>2
    <2> QED
      BY <2>3
  <1>6. k - 1 \in 0 .. Len(graph.op) /\ k \in 1 .. Len(graph.op)
    BY <1>1, <1>5
  <1>7. Has(k - 1)
    BY <1>1, <1>4, <1>6
  <1>8. PICK f : f = [n \in 1 .. k - 1 |-> FirstTwin(f, n)]
    BY <1>7
  <1> DEFINE g == [n \in 1 .. k |-> IF n = k THEN FirstTwin(f, k) ELSE f[n]]
  <1>9. ASSUME NEW n \in 1 .. k PROVE FirstTwin(g, n) = FirstTwin(f, n)
    <2>1. n \in Nodes
      BY <1>1, <1>6
    <2>2. ASSUME NEW m \in 1 .. n - 1, Len(Parents(m)) = Len(Parents(n)), NEW i \in DOMAIN Parents(n)
          PROVE  g[Parents(m)[i]] = f[Parents(m)[i]] /\ g[Parents(n)[i]] = f[Parents(n)[i]]
      <3>1. m \in Nodes /\ m < n
        BY <1>1, <1>6
      <3>2. i \in DOMAIN Parents(m)
        BY <2>1, <2>2, <3>1, GraphFacts
      <3>3. Parents(m)[i] \in 1 .. k - 1 /\ Parents(n)[i] \in 1 .. k - 1
        BY <1>1, <1>6, <2>1, <3>1, <3>2, GraphFacts
      <3> QED
        BY <1>6, <3>3
    <2>3. \A m \in 1 .. n - 1 :
              (Len(Parents(m)) = Len(Parents(n)) /\ \A i \in DOMAIN Parents(n) : g[Parents(m)[i]] = g[Parents(n)[i]])
              <=> (Len(Parents(m)) = Len(Parents(n)) /\ \A i \in DOMAIN Parents(n) : f[Parents(m)[i]] = f[Parents(n)[i]])
      BY <2>2
    <2> HIDE DEF g
    <2> QED
      BY <2>3 DEF FirstTwin
  <1>10. \A n \in 1 .. k - 1 : f[n] = FirstTwin(f, n)
    BY <1>8
  <1>11. g = [n \in 1 .. k |-> FirstTwin(f, n)]
    BY <1>10, <1>6
  <1> HIDE DEF g
  <1>12. g = [n \in 1 .. k |-> FirstTwin(g, n)]
    BY <1>9, <1>11
  <1>13. Has(k)
    BY <1>12
  <1> QED
    BY <1>4, <1>13

LEMMA IdentitiesUnfold ==
    ASSUME IsGraph(graph)
    PROVE  \A n \in Nodes : Physical(n) = FirstTwin(PhysicalIdentity, n)
  <1>1. PhysicalIdentity = [n \in Nodes |-> FirstTwin(PhysicalIdentity, n)]
    BY IdentitiesExist DEF PhysicalIdentity, FirstTwin
  <1> QED
    BY <1>1 DEF Physical

\* Nodes of one identity have one operation, and parents of one identity each.
LEMMA TwinFacts ==
    ASSUME IsGraph(graph), NEW n \in Nodes
    PROVE  /\ Physical(n) \in Nodes /\ Physical(n) <= n
           /\ Op(Physical(n)) = Op(n)
           /\ Len(Parents(Physical(n))) = Len(Parents(n))
           /\ \A i \in DOMAIN Parents(n) : Physical(Parents(Physical(n))[i]) = Physical(Parents(n)[i])
  <1> DEFINE twins == {m \in 1 .. n - 1 : /\ Op(m) = Op(n)
                                          /\ Len(Parents(m)) = Len(Parents(n))
                                          /\ \A i \in DOMAIN Parents(n) : Physical(Parents(m)[i]) = Physical(Parents(n)[i])}
  <1>1. n \in Nat /\ Nodes = 1 .. Len(graph.op) /\ Len(graph.op) \in Nat
    BY GraphFacts
  <1>2. Physical(n) = Min({n} \cup twins)
    BY IdentitiesUnfold DEF FirstTwin, Physical
  <1>3. {n} \cup twins \in SUBSET Nat
    BY <1>1
  <1>4. Physical(n) \in {n} \cup twins
    BY <1>2, <1>3, MinOfNumbers
  <1>5. CASE Physical(n) = n
    BY <1>1, <1>5
  <1>6. CASE Physical(n) \in twins
    BY <1>1, <1>6
  <1> QED
    BY <1>4, <1>5, <1>6

\* The nodes with traces: the traced input, and what is made of them.
ClosedForTraces(S) ==
    \A n \in Nodes : Op(n) = "sparse" \/ (\E m \in ParentSet(n) : m \in S) => n \in S
HaveTraces == {n \in Nodes : \A S \in SUBSET Nodes : ClosedForTraces(S) => n \in S}

LEMMA TracesFollow ==
    \A n \in Nodes : n \in HaveTraces <=> Op(n) = "sparse" \/ \E m \in ParentSet(n) : m \in HaveTraces
  <1>1. ASSUME NEW n \in Nodes, Op(n) = "sparse" \/ \E m \in ParentSet(n) : m \in HaveTraces
        PROVE  n \in HaveTraces
    BY <1>1 DEF HaveTraces, ClosedForTraces
  <1>2. ASSUME NEW n \in HaveTraces, Op(n) # "sparse", \A m \in ParentSet(n) : m \notin HaveTraces
        PROVE  FALSE
    <2> DEFINE S == HaveTraces \ {n}
    <2>1. ClosedForTraces(S)
      BY <1>1, <1>2 DEF ClosedForTraces
    <2>2. S \in SUBSET Nodes
      BY DEF HaveTraces
    <2>3. n \in S
      BY <2>1, <2>2 DEF HaveTraces
    <2> QED
      BY <2>3
  <1>3. HaveTraces \subseteq Nodes
    BY DEF HaveTraces
  <1> QED
    BY <1>1, <1>2, <1>3

\* Nodes of one identity both have traces or neither: the first that differs from
\* its identity would have a parent that does.
LEMMA TwinsHaveTraces ==
    ASSUME IsGraph(graph)
    PROVE  \A n \in Nodes : Physical(n) \in HaveTraces <=> n \in HaveTraces
  <1> DEFINE Unlike == {n \in Nodes : ~ (Physical(n) \in HaveTraces <=> n \in HaveTraces)}
  <1>1. SUFFICES ASSUME Unlike # {} PROVE FALSE
    OBVIOUS
  <1>2. Unlike \in SUBSET Nat
    BY GraphFacts
  <1>3. PICK n \in Unlike : \A m \in Unlike : n <= m
    <2> HIDE DEF Unlike
    <2> QED
      BY <1>1, <1>2, LeastNumber
  <1>4. n \in Nodes /\ Physical(n) \in Nodes
    BY TwinFacts
  <1>5. ASSUME NEW i \in DOMAIN Parents(n)
        PROVE  Parents(n)[i] \in HaveTraces <=> Parents(Physical(n))[i] \in HaveTraces
    <2>1. /\ Parents(n)[i] \in Nodes /\ Parents(n)[i] < n
          /\ i \in DOMAIN Parents(Physical(n)) /\ Physical(n) <= n
      BY <1>4, <1>5, GraphFacts, TwinFacts
    <2>2. Parents(Physical(n))[i] \in Nodes /\ Parents(Physical(n))[i] < Physical(n)
      BY <1>4, <2>1, GraphFacts
    <2>3. Parents(n)[i] \notin Unlike /\ Parents(Physical(n))[i] \notin Unlike
      <3>1. \A a, b, c \in Nodes : a < b /\ b <= c => a < c
        <4>1. Nodes \subseteq Nat
          BY GraphFacts
        <4> QED
          BY <4>1
      <3>2. \A m \in Nodes : m < n => m \notin Unlike
        <4>1. Nodes \subseteq Nat
          BY GraphFacts
        <4> HIDE DEF Unlike
        <4> QED
          BY <1>3, <1>4, <4>1
      <3>3. Parents(Physical(n))[i] < n
        BY <1>4, <2>1, <2>2, <3>1
      <3> HIDE DEF Unlike
      <3> QED
        BY <2>1, <2>2, <3>2, <3>3
    <2>4. Physical(Parents(Physical(n))[i]) = Physical(Parents(n)[i])
      BY <1>4, TwinFacts
    <2> QED
      BY <2>1, <2>2, <2>3, <2>4
  <1>6. DOMAIN Parents(n) = DOMAIN Parents(Physical(n))
    BY <1>4, GraphFacts, TwinFacts
  <1>7. (\E m \in ParentSet(n) : m \in HaveTraces) <=> (\E m \in ParentSet(Physical(n)) : m \in HaveTraces)
    BY <1>5, <1>6 DEF ParentSet, Range
  <1>8. Op(Physical(n)) = Op(n)
    BY <1>4, TwinFacts
  <1> QED
    BY <1>3, <1>4, <1>7, <1>8, TracesFollow

-----------------------------------------------------------------------------
(* Plans, without their frames. *)

PlanFields == {"id", "frame", "default", "exact", "keys", "order", "rows", "traced", "traces",
               "traceKeys", "traceId", "phys", "lineage"}

Forms == {"input", "stored", "scalar", "implicit", "shift", "own", "expanded", "dense"}

\* A plan of node n: named for it, of its identity, with the traces it has.
IsPlan(p, n) ==
    /\ DOMAIN p = PlanFields
    /\ p.id \in Seq(Nodes \cup Forms) /\ Len(p.id) > 0 /\ p.id[1] = n
    /\ p.phys = Physical(n)
    /\ p.traced \in BOOLEAN /\ (p.traced <=> n \in HaveTraces)
    /\ p.lineage \subseteq Nodes

\* The plans of the parents of node n.
ArePlansFor(ps, n) ==
    /\ DOMAIN ps = DOMAIN Parents(n)
    /\ \A i \in DOMAIN ps : IsPlan(ps[i], Parents(n)[i])

LineageOf(plans) == UNION {p.lineage : p \in plans}

LEMMA GriddedFacts ==
    ASSUME NEW n \in Nodes, NEW p, IsPlan(p, n), NEW how \in Forms
    PROVE  IsPlan(Gridded(p, how), n) /\ Gridded(p, how).lineage = p.lineage
  <1> DEFINE g == Gridded(p, how)
  <1>1. DOMAIN g = PlanFields /\ g.id = Append(p.id, how) /\ g.phys = p.phys /\ g.traced = p.traced /\ g.lineage = p.lineage
    BY DEF Gridded, IsPlan, PlanFields
  <1>2. Append(p.id, how) \in Seq(Nodes \cup Forms) /\ Len(Append(p.id, how)) > 0 /\ Append(p.id, how)[1] = p.id[1]
    BY DEF IsPlan
  <1> HIDE DEF g
  <1>3. IsPlan(g, n)
    BY <1>1, <1>2 DEF IsPlan
  <1> QED
    BY <1>1, <1>3 DEF g

LEMMA ExpandedFacts ==
    ASSUME NEW n \in Nodes, NEW p, IsPlan(p, n)
    PROVE  IsPlan(ExpandImplicit(p), n) /\ ExpandImplicit(p).lineage = p.lineage
  <1>1. "expanded" \in Forms
    BY DEF Forms
  <1>2. IsPlan(Gridded(p, "expanded"), n) /\ Gridded(p, "expanded").lineage = p.lineage
    BY <1>1, GriddedFacts
  <1>3. ExpandImplicit(p) \in {p, Gridded(p, "expanded")}
    BY DEF ExpandImplicit
  <1> QED
    BY <1>2, <1>3

LEMMA PreparedFacts ==
    ASSUME NEW n \in Nodes, NEW p, IsPlan(p, n), NEW m
    PROVE  IsPlan(Prepared(m, p), n) /\ Prepared(m, p).lineage = p.lineage
  <1>1. IsPlan(Gridded(p, "dense"), n) /\ Gridded(p, "dense").lineage = p.lineage
    <2>1. "dense" \in Forms
      BY DEF Forms
    <2> QED
      BY <2>1, GriddedFacts
  <1>2. IsPlan(ExpandImplicit(p), n) /\ ExpandImplicit(p).lineage = p.lineage
    BY ExpandedFacts
  <1>3. Prepared(m, p) \in {p, ExpandImplicit(p), Gridded(p, "dense")}
    BY DEF Prepared, EnsureDense
  <1> QED
    BY <1>1, <1>2, <1>3

LEMMA DerivedFacts ==
    ASSUME NEW n \in Nodes, NEW how \in Forms, NEW frame, NEW ps, NEW keys, NEW order, NEW rows
    PROVE  LET d == Derived(n, how, frame, ps, keys, order, rows) IN
           /\ DOMAIN d = PlanFields
           /\ d.id \in Seq(Nodes \cup Forms) /\ Len(d.id) > 0 /\ d.id[1] = n /\ d.id = <<n, how, "own">>
           /\ d.phys = Physical(n) /\ d.traced = AnyTraced(ps)
           /\ d.lineage = {n} \cup UNION {ps[i].lineage : i \in DOMAIN ps}
  <1> DEFINE d == Derived(n, how, frame, ps, keys, order, rows)
  <1>1. /\ DOMAIN d = PlanFields /\ d.id = <<n, how, "own">>
        /\ d.phys = Physical(n) /\ d.traced = AnyTraced(ps)
    BY DEF Derived, PlanFields, Physical
  <1>2. d.lineage = {n} \cup UNION {ps[i].lineage : i \in DOMAIN ps}
    BY Zenon DEF Derived
  <1>3. <<n, how, "own">> \in Seq(Nodes \cup Forms) /\ Len(<<n, how, "own">>) > 0 /\ <<n, how, "own">>[1] = n
    <2>1. "own" \in Forms
      BY DEF Forms
    <2> QED
      BY <2>1
  <1> HIDE DEF d
  <1>4. /\ d.id \in Seq(Nodes \cup Forms) /\ Len(d.id) > 0 /\ d.id[1] = n
    BY <1>1, <1>3
  <1> QED
    BY <1>1, <1>2, <1>4 DEF d

\* What a node's parents carry is what the node carries.
LEMMA ParentsCarry ==
    ASSUME IsGraph(graph), NEW n \in Nodes, ~ IsInput(n), NEW ps, ArePlansFor(ps, n)
    PROVE  AnyTraced(ps) <=> n \in HaveTraces
  <1>1. Op(n) # "sparse"
    BY DEF IsInput, Inputs
  <1>2. AnyTraced(ps) <=> \E i \in DOMAIN Parents(n) : Parents(n)[i] \in HaveTraces
    BY DEF AnyTraced, ArePlansFor, IsPlan
  <1> QED
    BY <1>1, <1>2, TracesFollow DEF ParentSet, Range

LEMMA GeneralFacts ==
    ASSUME IsGraph(graph), NEW n \in Nodes, ~ IsInput(n), NEW ps, ArePlansFor(ps, n)
    PROVE  /\ IsPlan(GeneralPlan(n, ps), n)
           /\ GeneralPlan(n, ps).id = <<n, "own", "own">>
           /\ GeneralPlan(n, ps).lineage = {n} \cup LineageOf(Range(ps))
  <1> DEFINE g == GeneralPlan(n, ps)
  <1>1. PICK frame, keys, order, rows :
            g = [Derived(n, "own", frame, ps, keys, order, rows) EXCEPT !.exact = ResultExactDomain(n, ps)]
    BY DEF GeneralPlan
  <1> DEFINE d == Derived(n, "own", frame, ps, keys, order, rows)
  <1>2. /\ DOMAIN d = PlanFields
        /\ d.id \in Seq(Nodes \cup Forms) /\ Len(d.id) > 0 /\ d.id[1] = n /\ d.id = <<n, "own", "own">>
        /\ d.phys = Physical(n) /\ d.traced = AnyTraced(ps)
        /\ d.lineage = {n} \cup UNION {ps[i].lineage : i \in DOMAIN ps}
    <2>1. "own" \in Forms
      BY DEF Forms
    <2> QED
      BY <2>1, DerivedFacts
  <1> HIDE DEF d
  <1>3. g = [d EXCEPT !.exact = ResultExactDomain(n, ps)]
    BY <1>1 DEF d
  <1> HIDE DEF g
  <1>4. /\ DOMAIN g = PlanFields /\ g.id = d.id /\ g.phys = d.phys /\ g.traced = d.traced /\ g.lineage = d.lineage
    BY <1>2, <1>3 DEF PlanFields
  <1>5. UNION {ps[i].lineage : i \in DOMAIN ps} = LineageOf(Range(ps))
    BY DEF LineageOf, Range
  <1>6. LineageOf(Range(ps)) \subseteq Nodes
    BY <1>5 DEF ArePlansFor, IsPlan
  <1>7. IsPlan(g, n)
    BY <1>2, <1>4, <1>5, <1>6, ParentsCarry DEF IsPlan, AnyTraced
  <1> QED
    BY <1>2, <1>4, <1>5, <1>7 DEF g

\* A derived plan of which other fields are altered.
LEMMA AlteredFacts ==
    ASSUME NEW n \in Nodes, NEW how \in Forms, NEW frame, NEW qs, NEW keys, NEW order, NEW rows, NEW g,
           LET d == Derived(n, how, frame, qs, keys, order, rows) IN
               DOMAIN g = PlanFields /\ g.id = d.id /\ g.phys = d.phys /\ g.traced = d.traced,
           AnyTraced(qs) <=> n \in HaveTraces, g.lineage \subseteq Nodes
    PROVE  IsPlan(g, n)
  <1> DEFINE d == Derived(n, how, frame, qs, keys, order, rows)
  <1>1. d.id \in Seq(Nodes \cup Forms) /\ Len(d.id) > 0 /\ d.id[1] = n /\ d.phys = Physical(n) /\ d.traced = AnyTraced(qs)
    BY DerivedFacts
  <1>2. DOMAIN g = PlanFields /\ g.id = d.id /\ g.phys = d.phys /\ g.traced = d.traced
    OBVIOUS
  <1> HIDE DEF d
  <1> QED
    BY <1>1, <1>2 DEF IsPlan, AnyTraced

\* A node with one parent.
LEMMA OneParent ==
    ASSUME IsGraph(graph), NEW n \in Nodes, ~ IsInput(n), Len(Parents(n)) = 1, NEW ps, ArePlansFor(ps, n)
    PROVE  /\ 1 \in DOMAIN ps /\ Parents(n)[1] \in Nodes /\ IsPlan(ps[1], Parents(n)[1])
           /\ AnyTraced(<<ps[1]>>) <=> n \in HaveTraces
  <1>1. DOMAIN Parents(n) = {1} /\ Parents(n)[1] \in Nodes
    BY GraphFacts
  <1>2. AnyTraced(ps) <=> AnyTraced(<<ps[1]>>)
    BY <1>1 DEF ArePlansFor, AnyTraced
  <1> QED
    BY <1>1, <1>2, ParentsCarry DEF ArePlansFor

LEMMA ImplicitFacts ==
    ASSUME IsGraph(graph), NEW n \in Nodes, ~ IsInput(n), Len(Parents(n)) = 1, NEW ps, ArePlansFor(ps, n)
    PROVE  /\ IsPlan(ImplicitPlan(n, ps[1]), n)
           /\ ImplicitPlan(n, ps[1]).lineage = {n} \cup ps[1].lineage
  <1> DEFINE p == ps[1]
             frame == [k \in DOMAIN p.frame |-> Cell(Op(n), p.frame, p.frame, k)]
             d == Derived(n, "implicit", frame, <<p>>, p.keys, p.order, p.rows)
             g == ImplicitPlan(n, ps[1])
  <1>1. "implicit" \in Forms
    BY DEF Forms
  <1>2. DOMAIN d = PlanFields /\ d.lineage = {n} \cup UNION {<<p>>[i].lineage : i \in DOMAIN <<p>>}
    BY <1>1, DerivedFacts
  <1>3. UNION {<<p>>[i].lineage : i \in DOMAIN <<p>>} = p.lineage
    OBVIOUS
  <1>4. g = [d EXCEPT !.default = IF Op(n) = "constant" THEN Scalar ELSE OrElse(p.default, 0)]
    BY DEF ImplicitPlan
  <1>5. p.lineage \subseteq Nodes /\ (AnyTraced(<<p>>) <=> n \in HaveTraces)
    BY OneParent DEF IsPlan
  <1> HIDE DEF d, g
  <1>6. DOMAIN g = PlanFields /\ g.id = d.id /\ g.phys = d.phys /\ g.traced = d.traced /\ g.lineage = {n} \cup p.lineage
    BY <1>2, <1>3, <1>4 DEF PlanFields
  <1>7. g.lineage \subseteq Nodes
    BY <1>5, <1>6
  <1>8. IsPlan(g, n)
    BY <1>1, <1>5, <1>6, <1>7, AlteredFacts DEF d
  <1> QED
    BY <1>6, <1>8 DEF g

LEMMA ShiftFacts ==
    ASSUME IsGraph(graph), NEW n \in Nodes, ~ IsInput(n), Len(Parents(n)) = 1, NEW ps, ArePlansFor(ps, n)
    PROVE  /\ IsPlan(ShiftPlan(n, ps[1]), n)
           /\ ShiftPlan(n, ps[1]).lineage = {n} \cup ps[1].lineage
  <1> DEFINE p == ps[1]
             d == Derived(n, "shift", Shifted(p.frame), <<p>>, <<"plan", n>>, "time_asset", "time_asset")
             g == ShiftPlan(n, ps[1])
  <1>1. "shift" \in Forms
    BY DEF Forms
  <1>2. DOMAIN d = PlanFields /\ d.lineage = {n} \cup UNION {<<p>>[i].lineage : i \in DOMAIN <<p>>}
    BY <1>1, DerivedFacts
  <1>3. UNION {<<p>>[i].lineage : i \in DOMAIN <<p>>} = p.lineage
    OBVIOUS
  <1>4. PICK traces, traceId :
            g = [d EXCEPT !.default = p.default, !.exact = FALSE, !.traces = traces, !.traceId = traceId]
    BY DEF ShiftPlan
  <1>5. p.lineage \subseteq Nodes /\ (AnyTraced(<<p>>) <=> n \in HaveTraces)
    BY OneParent DEF IsPlan
  <1> HIDE DEF d, g
  <1>6. DOMAIN g = PlanFields /\ g.id = d.id /\ g.phys = d.phys /\ g.traced = d.traced /\ g.lineage = {n} \cup p.lineage
    BY <1>2, <1>3, <1>4 DEF PlanFields
  <1>7. g.lineage \subseteq Nodes
    BY <1>5, <1>6
  <1>8. IsPlan(g, n)
    BY <1>1, <1>5, <1>6, <1>7, AlteredFacts DEF d
  <1> QED
    BY <1>6, <1>8 DEF g

LEMMA JoinFacts ==
    ASSUME IsGraph(graph), NEW n \in Nodes, ~ IsInput(n), NEW ps, ArePlansFor(ps, n)
    PROVE  /\ IsPlan(ImplicitJoin(n, ps), n)
           /\ ImplicitJoin(n, ps).lineage = {n} \cup LineageOf(Range(ps))
  <1> DEFINE g == ImplicitJoin(n, ps)
  <1>1. "implicit" \in Forms
    BY DEF Forms
  <1>2. PICK frame, default, exact :
            g = [Derived(n, "implicit", frame, ps, CombinedKeys(n, ps), "none", "none")
                    EXCEPT !.default = default, !.exact = exact]
    BY DEF ImplicitJoin
  <1> DEFINE d == Derived(n, "implicit", frame, ps, CombinedKeys(n, ps), "none", "none")
  <1>3. DOMAIN d = PlanFields /\ d.lineage = {n} \cup UNION {ps[i].lineage : i \in DOMAIN ps}
    BY <1>1, DerivedFacts
  <1>4. UNION {ps[i].lineage : i \in DOMAIN ps} = LineageOf(Range(ps))
    BY DEF LineageOf, Range
  <1>5. LineageOf(Range(ps)) \subseteq Nodes
    BY <1>4 DEF ArePlansFor, IsPlan
  <1>6. AnyTraced(ps) <=> n \in HaveTraces
    BY ParentsCarry
  <1>7. g = [d EXCEPT !.default = default, !.exact = exact]
    BY <1>2
  <1> HIDE DEF d, g
  <1>8. DOMAIN g = PlanFields /\ g.id = d.id /\ g.phys = d.phys /\ g.traced = d.traced /\ g.lineage = d.lineage
    BY <1>3, <1>7 DEF PlanFields
  <1>9. g.lineage \subseteq Nodes
    BY <1>3, <1>4, <1>5, <1>8
  <1>10. IsPlan(g, n)
    BY <1>1, <1>6, <1>8, <1>9, AlteredFacts DEF d
  <1> QED
    BY <1>3, <1>4, <1>8, <1>10 DEF g

\* An expression with a constant is made of the other operand, and has the traces
\* of both: the constant's are those of its parent.
LEMMA ScalarFacts ==
    ASSUME IsGraph(graph), NEW n \in Nodes, LowersScalar(n), NEW plans,
           \A m \in DOMAIN plans : m \in Nodes /\ IsPlan(plans[m], m) /\ ParentSet(m) \subseteq DOMAIN plans,
           ParentSet(n) \subseteq DOMAIN plans
    PROVE  /\ IsPlan(ScalarPlan(n, plans), n)
           /\ \E m \in ParentSet(n) : ScalarPlan(n, plans).lineage = {n} \cup plans[m].lineage
  <1> DEFINE i == ConstantIndex(n)
             c == Parents(n)[i]
             m == Parents(n)[3 - i]
             o == Head(Parents(c))
             g == ScalarPlan(n, plans)
  <1>1. Parents(n) \in Seq(Nodes) /\ Len(Parents(n)) = 2 /\ n \in DOMAIN graph.op
    BY GraphFacts DEF LowersScalar, IsGraph, Op, Parents, Nodes
  <1>2. ParentSet(n) = {Parents(n)[1], Parents(n)[2]}
    BY <1>1 DEF ParentSet, Range
  <1>3. i \in {1, 2} /\ 3 - i \in {1, 2} /\ ParentSet(n) = {c, m}
    BY <1>2 DEF ConstantIndex
  <1>4. Op(c) = "constant"
    BY <1>2 DEF ConstantIndex, LowersScalar
  <1>5. c \in Nodes /\ m \in Nodes
    BY <1>1, <1>3
  <1>6. Parents(c) \in Seq(Nodes) /\ Len(Parents(c)) = 1 /\ ParentSet(c) = {o} /\ o \in Nodes
    <2>1. Parents(c) \in Seq(Nodes)
      BY <1>5, GraphFacts
    <2>2. Len(Parents(c)) = 1
      BY <1>4, <1>5 DEF IsGraph, Op, Parents, Nodes
    <2> HIDE DEF c
    <2> QED
      BY <2>1, <2>2 DEF ParentSet, Range
  <1>7. o \in DOMAIN plans /\ m \in DOMAIN plans
    BY <1>3, <1>6
  <1>8. IsPlan(plans[o], o) /\ IsPlan(plans[m], m)
    BY <1>7
  <1>9. "scalar" \in Forms
    BY DEF Forms
  <1>10. PICK frame : g = [Derived(n, "scalar", frame, <<plans[o], plans[m]>>, plans[m].keys, plans[m].order, plans[m].rows)
                              EXCEPT !.exact = plans[m].exact, !.lineage = {n} \cup plans[m].lineage]
    BY DEF ScalarPlan
  <1> DEFINE qs == <<plans[o], plans[m]>>
             d == Derived(n, "scalar", frame, qs, plans[m].keys, plans[m].order, plans[m].rows)
  <1>11. DOMAIN d = PlanFields
    BY <1>9, DerivedFacts
  <1>12. AnyTraced(qs) <=> n \in HaveTraces
    <2>1. AnyTraced(qs) <=> o \in HaveTraces \/ m \in HaveTraces
      BY <1>8 DEF AnyTraced, IsPlan
    <2>2. c \in HaveTraces <=> o \in HaveTraces
      BY <1>4, <1>5, <1>6, TracesFollow
    <2>3. Op(n) # "sparse"
      BY DEF LowersScalar, Scalable
    <2> HIDE DEF o, m, c, qs
    <2> QED
      BY <1>3, <2>1, <2>2, <2>3, TracesFollow
  <1>13. plans[m].lineage \subseteq Nodes
    BY <1>8 DEF IsPlan
  <1>14. g = [d EXCEPT !.exact = plans[m].exact, !.lineage = {n} \cup plans[m].lineage]
    BY <1>10
  <1> HIDE DEF d, g, o, m, c
  <1>15. DOMAIN g = PlanFields /\ g.id = d.id /\ g.phys = d.phys /\ g.traced = d.traced /\ g.lineage = {n} \cup plans[m].lineage
    BY <1>11, <1>14 DEF PlanFields
  <1>16. g.lineage \subseteq Nodes
    BY <1>13, <1>15
  <1>17. IsPlan(g, n)
    BY <1>9, <1>12, <1>15, <1>16, AlteredFacts DEF d
  <1> QED
    BY <1>3, <1>15, <1>17 DEF g

\* Whatever form a node is lowered to computes itself and what its parents do.
LEMMA LoweredFacts ==
    ASSUME IsGraph(graph), NEW n \in Nodes, ~ IsInput(n), NEW plans, NEW ps, Lowers(n, ps),
           \A m \in DOMAIN plans : m \in Nodes /\ IsPlan(plans[m], m) /\ ParentSet(m) \subseteq DOMAIN plans,
           ParentSet(n) \subseteq DOMAIN plans, ArePlansFor(ps, n)
    PROVE  /\ IsPlan(Lowered(n, plans, ps), n)
           /\ Lowered(n, plans, ps).lineage \subseteq
                  {n} \cup LineageOf({plans[m] : m \in ParentSet(n)}) \cup LineageOf(Range(ps))
  <1>1. CASE LowersScalar(n)
    <2>1. Lowered(n, plans, ps) = ScalarPlan(n, plans)
      <3>1. Op(n) # "lag" /\ Op(n) \notin {"fillna", "constant"}
        BY <1>1 DEF LowersScalar, Scalable
      <3> QED
        BY <1>1, <3>1, Zenon DEF Lowered
    <2> QED
      BY <1>1, <2>1, ScalarFacts DEF LineageOf
  <1>2. CASE ~ LowersScalar(n) /\ Op(n) \in {"lag", "fillna", "constant"}
    <2>1. Len(Parents(n)) = 1
      BY <1>2 DEF IsGraph, Op, Parents, Nodes
    <2>2. Lowered(n, plans, ps) \in {ShiftPlan(n, ps[1]), ImplicitPlan(n, ps[1])}
      <3>1. CASE Op(n) = "lag"
        <4>1. Lowered(n, plans, ps) = ShiftPlan(n, ps[1])
          BY <1>2, <3>1, Zenon DEF Lowered
        <4> QED
          BY <4>1
      <3>2. CASE Op(n) \in {"fillna", "constant"}
        <4>1. Op(n) # "lag"
          BY <3>2
        <4>2. Lowered(n, plans, ps) = ImplicitPlan(n, ps[1])
          BY <1>2, <3>2, <4>1, Zenon DEF Lowered
        <4> QED
          BY <4>2
      <3> QED
        BY <1>2, <3>1, <3>2
    <2>3. ps[1] \in Range(ps)
      BY <2>1, OneParent DEF Range
    <2>4. IsPlan(ShiftPlan(n, ps[1]), n) /\ ShiftPlan(n, ps[1]).lineage = {n} \cup ps[1].lineage
      BY <2>1, ShiftFacts
    <2>5. IsPlan(ImplicitPlan(n, ps[1]), n) /\ ImplicitPlan(n, ps[1]).lineage = {n} \cup ps[1].lineage
      BY <2>1, ImplicitFacts
    <2> QED
      BY <2>2, <2>3, <2>4, <2>5 DEF LineageOf
  <1>3. CASE ~ LowersScalar(n) /\ Op(n) \notin {"lag", "fillna", "constant"}
    <2>1. Lowered(n, plans, ps) = ImplicitJoin(n, ps)
      BY <1>3 DEF Lowered
    <2> QED
      BY <2>1, JoinFacts
  <1> QED
    BY <1>1, <1>2, <1>3

LEMMA InputFacts ==
    ASSUME IsGraph(graph), NEW n \in Nodes, IsInput(n)
    PROVE  IsPlan(InputPlan(n), n) /\ InputPlan(n).lineage = {}
  <1> DEFINE p == InputPlan(n)
  <1>1. DOMAIN p = PlanFields /\ p.id = <<n, "input", "own">> /\ p.phys = Physical(n) /\ p.lineage = {}
        /\ p.traced = (Op(n) = "sparse")
    BY DEF InputPlan, PlanFields, Physical
  <1>2. <<n, "input", "own">> \in Seq(Nodes \cup Forms) /\ Len(<<n, "input", "own">>) > 0 /\ <<n, "input", "own">>[1] = n
    <2>1. "own" \in Forms /\ "input" \in Forms
      BY DEF Forms
    <2> QED
      BY <2>1
  <1>3. n \in HaveTraces <=> Op(n) = "sparse"
    <2>1. Parents(n) = <<>>
      BY DEF IsInput, IsGraph, Op, Parents, Nodes
    <2>2. ParentSet(n) = {}
      BY <2>1 DEF ParentSet, Range
    <2> QED
      BY <2>2, TracesFollow
  <1> HIDE DEF p
  <1>4. IsPlan(p, n)
    BY <1>1, <1>2, <1>3 DEF IsPlan
  <1> QED
    BY <1>1, <1>4 DEF p

\* A record is the plan of the first node of its identity.
LEMMA FrozenFacts ==
    ASSUME IsGraph(graph), NEW n \in Nodes, NEW p, IsPlan(p, n), NEW q, q = Physical(n)
    PROVE  /\ DOMAIN Frozen(p, q) = PlanFields
           /\ Frozen(p, q).phys = q /\ Frozen(p, q).lineage = {}
           /\ Frozen(p, q).traced \in BOOLEAN /\ (Frozen(p, q).traced <=> q \in HaveTraces)
  <1> DEFINE whole == ExpandImplicit(p)
             g == Frozen(p, q)
  <1>1. IsPlan(whole, n)
    BY ExpandedFacts
  <1>2. DOMAIN g = DOMAIN whole /\ g.traced = whole.traced
    BY <1>1 DEF Frozen, IsPlan, PlanFields
  <1>3. g.phys = q /\ g.lineage = {}
    BY <1>1 DEF Frozen, IsPlan, PlanFields
  <1> HIDE DEF g, whole
  <1> QED
    BY <1>1, <1>2, <1>3, TwinsHaveTraces DEF IsPlan, g

-----------------------------------------------------------------------------
(* The inductive invariant. *)

\* With a store, all that collecting a plan would compute awaits publication.
Computes(p) == durable => \A m \in p.lineage : IsPending(Physical(m))
Good(p, n) == IsPlan(p, n) /\ Computes(p) /\ (IsInput(n) => p.lineage = {})

\* A planned node awaits publication, or is published.
Recorded(n) == durable /\ ~IsInput(n) => IsPending(Physical(n)) \/ Physical(n) \in loaded

\* The evidence of node n, if it has any, is at hand.
Proven(n) == HasEvidence(n) => Physical(n) \in evidence

IsSequence(s) == s \in Seq(Range(s))

RunTyped ==
    /\ IsGraph(graph) /\ durable \in BOOLEAN /\ workers \in Nat \ {0}
    /\ phase \in {"planning", "batching", "running", "done", "failed"}

\* What is published, by this run or an earlier one.
IsRecord(q) ==
    LET p == stored[q].plan IN
    /\ DOMAIN p = PlanFields /\ p.phys = q /\ p.lineage = {}
    /\ p.traced \in BOOLEAN /\ (p.traced <=> q \in HaveTraces)
    /\ HasEvidence(q) => stored[q].evidence
Published ==
    /\ \A q \in DOMAIN stored : IsRecord(q)
    /\ \A q \in loaded : q \in DOMAIN stored /\ ~IsPending(q) /\ (HasEvidence(q) => q \in evidence)
    /\ ~durable => pending = <<>> /\ loaded = {}

\* What awaits publication.
Awaiting(p) ==
    /\ p.id[1] \in Nodes /\ ~IsInput(p.id[1]) /\ Good(p, p.id[1])
    /\ HasEvidence(p.phys) => p.phys \in evidence
Pending ==
    /\ IsSequence(pending)
    /\ \A i \in DOMAIN pending : Awaiting(pending[i])
    /\ Len(pending) > 1 => PendingBytes <= PendingLimit

\* What is planned, with its parents.
IsEvaluated(n) ==
    /\ Good(evaluated[n], n) /\ Recorded(n) /\ Proven(n)
    /\ ParentSet(n) \subseteq DOMAIN evaluated
Evaluated == DOMAIN evaluated \subseteq Nodes /\ \A n \in DOMAIN evaluated : IsEvaluated(n)

\* Plans that are kept for their next use.
IsOwn(i) ==
    LET p == cached.own[i] IN p.id = i /\ i[1] \in Nodes /\ Good(p, i[1]) /\ Proven(i[1])
IsPhysical(q) ==
    LET p == cached.physical[q] IN
    /\ DOMAIN p = PlanFields /\ p.phys = q
    /\ p.traced \in BOOLEAN /\ (p.traced <=> q \in HaveTraces)
    /\ p.lineage \subseteq Nodes /\ Computes(p)
Caches ==
    /\ DOMAIN cached = {"own", "physical"}
    /\ \A i \in DOMAIN cached.own : IsOwn(i)
    /\ \A q \in DOMAIN cached.physical : IsPhysical(q)
    /\ \A q \in results : ~HasEvidence(q)

\* Work that was deferred: plans captured before a publication are refreshed.
Kept(p, m) == IsPlan(p, m) /\ (Physical(m) \in loaded \/ Good(p, m))
Due(n) == n \in Nodes /\ Op(n) \in Eager /\ ParentSet(n) \subseteq DOMAIN evaluated
IsWork(w) ==
    /\ DOMAIN w = {"node", "prepared"} /\ Due(w.node)
    /\ DOMAIN w.prepared = DOMAIN Parents(w.node)
    /\ \A j \in DOMAIN w.prepared : Kept(w.prepared[j], Parents(w.node)[j])
Groups(groups) ==
    /\ IsSequence(groups)
    /\ \A g \in DOMAIN groups : IsSequence(groups[g]) /\ groups[g] # <<>>
Deferred(groups) == UNION {{groups[g][i].node : i \in DOMAIN groups[g]} : g \in DOMAIN groups}
Waiting ==
    /\ ready \in Seq(Nodes) /\ \A i \in DOMAIN ready : ParentSet(ready[i]) \subseteq DOMAIN evaluated
    /\ Groups(waiting) /\ \A g \in DOMAIN waiting : \A i \in DOMAIN waiting[g] : IsWork(waiting[g][i])
    /\ Groups(batch) /\ \A n \in Deferred(batch) : Due(n)

\* No node is forgotten.
Scheduled ==
    /\ phase \in {"planning", "batching"} => batch = <<>>
    /\ phase = "running" => batch # <<>>
    /\ ~Frontiers => ready = <<>> /\ waiting = <<>>
    /\ Frontiers => \A n \in Nodes \ DOMAIN evaluated :
          ParentSet(n) \subseteq DOMAIN evaluated => n \in Range(ready) \cup Deferred(waiting) \cup Deferred(batch)
    /\ phase = "done" => DOMAIN evaluated = Nodes /\ pending = <<>>

RunInv ==
    /\ RunTyped /\ Published /\ Pending /\ Evaluated /\ Caches /\ Waiting /\ Scheduled
    /\ recollected = {}

-----------------------------------------------------------------------------
(* Sequences. *)

LEMMA FunctionIsSequence ==
    ASSUME NEW k \in Nat, NEW s, DOMAIN s = 1 .. k, s = [i \in 1 .. k |-> s[i]]
    PROVE  IsSequence(s) /\ Len(s) = k
  <1>1. s \in [1 .. k -> Range(s)]
    BY DEF Range
  <1>2. s \in Seq(Range(s))
    BY <1>1, SeqDef
  <1>3. Len(s) = k
    BY <1>2
  <1> QED
    BY <1>2, <1>3 DEF IsSequence

LEMMA AnySequence == ASSUME NEW T, NEW s \in Seq(T) PROVE IsSequence(s)
  <1>1. s \in [1 .. Len(s) -> T] /\ Len(s) \in Nat
    OBVIOUS
  <1>2. s \in [1 .. Len(s) -> Range(s)]
    BY <1>1 DEF Range
  <1> QED
    BY <1>1, <1>2, SeqDef DEF IsSequence

LEMMA WiderSequence == ASSUME NEW S, NEW T, S \subseteq T, NEW s \in Seq(S) PROVE s \in Seq(T)
  <1>1. s \in [1 .. Len(s) -> S] /\ Len(s) \in Nat
    OBVIOUS
  <1>2. s \in [1 .. Len(s) -> T]
    BY <1>1
  <1> QED
    BY <1>1, <1>2, SeqDef

LEMMA SequenceFacts ==
    ASSUME NEW s, IsSequence(s)
    PROVE  /\ Len(s) \in Nat /\ DOMAIN s = 1 .. Len(s)
           /\ \A i \in DOMAIN s : s[i] \in Range(s)
           /\ s # <<>> <=> Len(s) > 0
           /\ s # <<>> => 1 \in DOMAIN s /\ Head(s) = s[1]
  BY DEF IsSequence, Range

LEMMA AppendFacts ==
    ASSUME NEW s, IsSequence(s), NEW e
    PROVE  /\ IsSequence(Append(s, e)) /\ Len(Append(s, e)) = Len(s) + 1
           /\ \A i \in DOMAIN s : Append(s, e)[i] = s[i]
           /\ Append(s, e)[Len(s) + 1] = e
           /\ \A i \in DOMAIN Append(s, e) : i \in DOMAIN s \/ i = Len(s) + 1
  <1> DEFINE T == Range(s) \cup {e}
             a == Append(s, e)
  <1>1. s \in Seq(Range(s)) /\ Len(s) \in Nat /\ DOMAIN s = 1 .. Len(s)
    BY DEF IsSequence
  <1>2. s \in Seq(T)
    <2>1. s \in [1 .. Len(s) -> Range(s)]
      BY <1>1
    <2>2. s \in [1 .. Len(s) -> T]
      BY <2>1
    <2> QED
      BY <1>1, <2>2, SeqDef
  <1>3. /\ Len(a) = Len(s) + 1 /\ DOMAIN a = 1 .. Len(s) + 1
        /\ \A i \in 1 .. Len(s) : a[i] = s[i]
        /\ a[Len(s) + 1] = e /\ a \in Seq(T)
    BY <1>2
  <1> HIDE DEF a
  <1>6. IsSequence(a)
    BY <1>3, AnySequence
  <1> QED
    BY <1>1, <1>3, <1>6 DEF a

LEMMA TailFacts ==
    ASSUME NEW s, IsSequence(s), s # <<>>
    PROVE  /\ IsSequence(Tail(s)) /\ Len(Tail(s)) = Len(s) - 1
           /\ \A i \in DOMAIN Tail(s) : i + 1 \in DOMAIN s /\ Tail(s)[i] = s[i + 1]
           /\ \A i \in DOMAIN s : i = 1 \/ (i - 1 \in DOMAIN Tail(s) /\ Tail(s)[i - 1] = s[i])
           /\ Head(s) = s[1] /\ 1 \in DOMAIN s
  <1> DEFINE t == Tail(s)
  <1>1. s \in Seq(Range(s)) /\ Len(s) \in Nat /\ DOMAIN s = 1 .. Len(s) /\ Len(s) > 0
    BY DEF IsSequence
  <1>2. /\ Len(t) = Len(s) - 1 /\ DOMAIN t = 1 .. Len(s) - 1
        /\ \A i \in 1 .. Len(s) - 1 : t[i] = s[i + 1]
        /\ t \in Seq(Range(s))
    BY <1>1
  <1> HIDE DEF t
  <1>4. IsSequence(t)
    BY <1>2, AnySequence
  <1> QED
    BY <1>1, <1>2, <1>4 DEF t

LEMMA RestFacts ==
    ASSUME NEW s, IsSequence(s), NEW k \in 0 .. Len(s)
    PROVE  LET r == SubSeq(s, k + 1, Len(s)) IN
           /\ IsSequence(r) /\ Len(r) = Len(s) - k
           /\ \A i \in DOMAIN r : i + k \in DOMAIN s /\ r[i] = s[i + k]
           /\ \A i \in DOMAIN s : i <= k \/ (i - k \in DOMAIN r /\ r[i - k] = s[i])
  <1> DEFINE r == SubSeq(s, k + 1, Len(s))
  <1>1. s \in Seq(Range(s)) /\ Len(s) \in Nat /\ DOMAIN s = 1 .. Len(s) /\ k \in Nat /\ k <= Len(s)
    BY DEF IsSequence
  <1>2. k + 1 \in Int /\ Len(s) \in Int /\ \A i \in k + 1 .. Len(s) : s[i] \in Range(s)
    BY <1>1
  <1>3. r \in Seq(Range(s)) /\ Len(r) = (IF k + 1 <= Len(s) THEN Len(s) - (k + 1) + 1 ELSE 0)
        /\ \A i \in 1 .. Len(s) - (k + 1) + 1 : r[i] = s[k + 1 + i - 1]
    BY <1>2, SubSeqProperties
  <1> HIDE DEF r
  <1>4. Len(r) = Len(s) - k /\ DOMAIN r = 1 .. Len(s) - k
    <2>1. Len(r) = Len(s) - k
      <3>1. \A a, b \in Nat : b <= a => (IF b + 1 <= a THEN a - (b + 1) + 1 ELSE 0) = a - b
        OBVIOUS
      <3>2. Len(r) = (IF k + 1 <= Len(s) THEN Len(s) - (k + 1) + 1 ELSE 0)
        BY <1>3
      <3> QED
        BY <1>1, <3>1, <3>2
    <2>2. DOMAIN r = 1 .. Len(r)
      BY <1>3
    <2> QED
      BY <2>1, <2>2
  <1>5. ASSUME NEW i \in DOMAIN r PROVE i + k \in DOMAIN s /\ r[i] = s[i + k]
    <2>1. i \in 1 .. Len(s) - (k + 1) + 1 /\ k + 1 + i - 1 = i + k
      BY <1>1, <1>4
    <2>2. r[i] = s[k + 1 + i - 1]
      BY <1>3, <2>1
    <2>3. i + k \in DOMAIN s
      BY <1>1, <1>4
    <2> QED
      BY <2>1, <2>2, <2>3
  <1>6. ASSUME NEW i \in DOMAIN s, ~ (i <= k) PROVE i - k \in DOMAIN r /\ r[i - k] = s[i]
    <2>1. i - k \in DOMAIN r /\ i - k + k = i
      BY <1>1, <1>4, <1>6
    <2> QED
      BY <1>5, <2>1
  <1>7. IsSequence(r)
    BY <1>3, AnySequence
  <1> QED
    BY <1>4, <1>5, <1>6, <1>7 DEF r

\* A set of nodes in order: every node has a place of its own.
LEMMA InOrderFacts ==
    ASSUME NEW S \in SUBSET Nat, IsFiniteSet(S)
    PROVE  InOrder(S) \in Seq(S) /\ S = Range(InOrder(S))
  <1> DEFINE below(n) == {m \in S : m < n}
             place == [n \in S |-> Cardinality(below(n)) + 1]
             s == InOrder(S)
  <1>1. Cardinality(S) \in Nat
    BY FS_CardinalityType
  <1>2. ASSUME NEW n \in S
        PROVE  IsFiniteSet(below(n)) /\ Cardinality(below(n)) \in Nat /\ Cardinality(below(n)) < Cardinality(S)
    <2>1. below(n) \in SUBSET S
      OBVIOUS
    <2>2. n \notin below(n)
      OBVIOUS
    <2> HIDE DEF below
    <2>3. IsFiniteSet(below(n)) /\ Cardinality(below(n)) <= Cardinality(S) /\ (Cardinality(S) = Cardinality(below(n)) => S = below(n))
      BY <2>1, FS_Subset
    <2>4. Cardinality(below(n)) \in Nat
      BY <2>3, FS_CardinalityType
    <2> QED
      BY <1>1, <2>2, <2>3, <2>4
  <1>3. ASSUME NEW m \in S, NEW n \in S, m < n PROVE Cardinality(below(m)) < Cardinality(below(n))
    <2>1. below(m) \in SUBSET below(n) /\ m \in below(n) /\ m \notin below(m)
      <3>1. m \in Nat /\ n \in Nat /\ \A l \in S : l \in Nat
        OBVIOUS
      <3>2. \A l \in S : l < m => l < n
        BY <1>3, <3>1
      <3>3. \A l : l \in below(m) => l \in below(n)
        BY <3>2
      <3>4. m \in below(n)
        BY <1>3
      <3>5. m \notin below(m)
        BY <3>1
      <3> HIDE DEF below
      <3> QED
        BY <3>3, <3>4, <3>5
    <2>2. IsFiniteSet(below(n)) /\ Cardinality(below(n)) \in Nat /\ Cardinality(below(m)) \in Nat
      BY <1>2
    <2> HIDE DEF below
    <2>3. Cardinality(below(m)) <= Cardinality(below(n)) /\ (Cardinality(below(n)) = Cardinality(below(m)) => below(n) = below(m))
      BY <2>1, <2>2, FS_Subset
    <2> QED
      BY <2>1, <2>2, <2>3
  <1>4. ASSUME NEW m \in S, NEW n \in S, Cardinality(below(m)) = Cardinality(below(n)) PROVE m = n
    <2>1. ~ (m < n) /\ ~ (n < m)
      <3>1. Cardinality(below(m)) \in Nat /\ Cardinality(below(n)) \in Nat
        BY <1>2
      <3>2. m < n => Cardinality(below(m)) < Cardinality(below(n))
        BY <1>3
      <3>3. n < m => Cardinality(below(n)) < Cardinality(below(m))
        BY <1>3
      <3> HIDE DEF below
      <3> QED
        BY <1>4, <3>1, <3>2, <3>3
    <2> QED
      BY <2>1
  <1>5. place \in Injection(S, 1 .. Cardinality(S))
    <2>1. \A n \in S : place[n] \in 1 .. Cardinality(S)
      BY <1>1, <1>2
    <2>2. \A m, n \in S : place[m] = place[n] => m = n
      <3>1. \A n \in S : Cardinality(below(n)) \in Nat
        BY <1>2
      <3> HIDE DEF below
      <3> QED
        BY <1>4, <3>1
    <2>3. place \in [S -> 1 .. Cardinality(S)]
      BY <2>1
    <2> HIDE DEF place
    <2> QED
      BY <2>2, <2>3 DEF Injection, IsInjective
  <1>6. place \in Surjection(S, 1 .. Cardinality(S))
    <2>1. IsFiniteSet(1 .. Cardinality(S)) /\ Cardinality(1 .. Cardinality(S)) = Cardinality(S)
      BY <1>1, FS_Interval
    <2> HIDE DEF place
    <2> QED
      BY <1>5, <2>1, FS_Injection
  <1>7. ASSUME NEW i \in 1 .. Cardinality(S) PROVE \E n \in S : Cardinality(below(n)) = i - 1
    <2>1. PICK n \in S : place[n] = i
      BY <1>6 DEF Surjection
    <2>2. Cardinality(below(n)) \in Nat
      BY <1>2
    <2> QED
      BY <2>1, <2>2
  <1>8. s = [i \in 1 .. Cardinality(S) |-> CHOOSE n \in S : Cardinality(below(n)) = i - 1]
    BY DEF InOrder
  <1>9. ASSUME NEW i \in 1 .. Cardinality(S) PROVE s[i] \in S /\ Cardinality(below(s[i])) = i - 1
    BY <1>7, <1>8
  <1>10. DOMAIN s = 1 .. Cardinality(S)
    BY <1>8
  <1>11. s \in [1 .. Cardinality(S) -> S]
    BY <1>7, <1>8
  <1> HIDE DEF s
  <1>12. s \in Seq(S)
    BY <1>1, <1>11, SeqDef
  <1>13. ASSUME NEW n \in S PROVE n \in Range(s)
    <2> DEFINE i == Cardinality(below(n)) + 1
    <2>1. i \in 1 .. Cardinality(S) /\ i - 1 = Cardinality(below(n))
      BY <1>1, <1>2
    <2>2. s[i] = n
      <3>1. s[i] \in S /\ Cardinality(below(s[i])) = Cardinality(below(n))
        BY <1>9, <2>1
      <3> HIDE DEF below, i
      <3> QED
        BY <1>4, <3>1
    <2> HIDE DEF i
    <2> QED
      BY <1>10, <2>1, <2>2 DEF Range
  <1>14. Range(s) \subseteq S
    BY <1>9, <1>10 DEF Range
  <1> QED
    BY <1>12, <1>13, <1>14 DEF s

-----------------------------------------------------------------------------
(* What steps keep. *)

LEMMA GraphStays ==
    ASSUME graph' = graph
    PROVE  /\ Nodes' = Nodes /\ HaveTraces' = HaveTraces
           /\ \A n : /\ Op(n)' = Op(n) /\ Parents(n)' = Parents(n) /\ ParentSet(n)' = ParentSet(n)
                     /\ Physical(n)' = Physical(n) /\ IsInput(n)' = IsInput(n)
                     /\ HasEvidence(n)' = HasEvidence(n)
           /\ \A p, n : IsPlan(p, n)' = IsPlan(p, n)
  <1>1. Nodes' = Nodes
    BY DEF Nodes
  <1>2. \A n : Op(n)' = Op(n) /\ Parents(n)' = Parents(n)
    BY DEF Op, Parents
  <1>3. \A n : ParentSet(n)' = ParentSet(n) /\ IsInput(n)' = IsInput(n) /\ HasEvidence(n)' = HasEvidence(n)
    BY <1>2 DEF ParentSet, IsInput, HasEvidence
  <1>4. HaveTraces' = HaveTraces
    <2>1. \A S : ClosedForTraces(S)' = ClosedForTraces(S)
      BY <1>1, <1>2, <1>3 DEF ClosedForTraces
    <2> QED
      BY <1>1, <2>1 DEF HaveTraces
  <1>5. \A n : Physical(n)' = Physical(n)
    <2>1. PhysicalIdentity' = PhysicalIdentity
      BY DEF PhysicalIdentity, Nodes, Op, Parents
    <2> QED
      BY <2>1 DEF Physical
  <1>6. \A p, n : IsPlan(p, n)' = IsPlan(p, n)
    BY <1>1, <1>4, <1>5 DEF IsPlan
  <1> QED
    BY <1>1, <1>2, <1>3, <1>4, <1>5, <1>6

\* A step within a run, other than a publication.
Grows ==
    /\ UNCHANGED <<graph, durable, workers>>
    /\ \A q : IsPending(q) => IsPending(q)'
    /\ loaded \subseteq loaded'
    /\ \A q : HasEvidence(q) /\ q \in evidence => q \in evidence'
    /\ DOMAIN evaluated \subseteq DOMAIN evaluated'

LEMMA GoodStays ==
    ASSUME UNCHANGED <<graph, durable>>, \A q : IsPending(q) => IsPending(q)'
    PROVE  /\ \A p : Computes(p) => Computes(p)'
           /\ \A p, n : Good(p, n) => Good(p, n)'
  <1>1. \A p : Computes(p) => Computes(p)'
    BY GraphStays DEF Computes
  <1> QED
    BY <1>1, GraphStays DEF Good

LEMMA GrowthKeeps ==
    ASSUME Grows, IsGraph(graph)
    PROVE  /\ \A p, n : Good(p, n) => Good(p, n)'
           /\ \A n : Recorded(n) => Recorded(n)'
           /\ \A n \in Nodes : Proven(n) => Proven(n)'
           /\ \A n : Due(n) => Due(n)'
           /\ \A w : IsWork(w) => IsWork(w)'
           /\ \A p : Awaiting(p) => Awaiting(p)'
           /\ \A q : IsPhysical(q) /\ cached'.physical = cached.physical => IsPhysical(q)'
  <1>1. /\ \A p, n : Good(p, n) => Good(p, n)'
        /\ \A p : Computes(p) => Computes(p)'
    BY GoodStays DEF Grows
  <1>2. \A n : Recorded(n) => Recorded(n)'
    BY GraphStays DEF Grows, Recorded
  <1>3. \A n \in Nodes : Proven(n) => Proven(n)'
    <2>1. ASSUME NEW n \in Nodes, HasEvidence(n), Physical(n) \in evidence PROVE Physical(n) \in evidence'
      <3>1. HasEvidence(Physical(n))
        BY <2>1, TwinFacts DEF HasEvidence
      <3> QED
        BY <2>1, <3>1 DEF Grows
    <2> QED
      BY <2>1, GraphStays DEF Grows, Proven
  <1>4. \A n : Due(n) => Due(n)'
    BY GraphStays DEF Grows, Due
  <1>5. \A p, m : Kept(p, m) => Kept(p, m)'
    BY <1>1, GraphStays DEF Grows, Kept
  <1>6. \A w : IsWork(w) => IsWork(w)'
    BY <1>4, <1>5, GraphStays DEF Grows, IsWork
  <1>7. \A p : Awaiting(p) => Awaiting(p)'
    BY <1>1, GraphStays DEF Grows, Awaiting
  <1>8. \A q : IsPhysical(q) /\ cached'.physical = cached.physical => IsPhysical(q)'
    BY <1>1, GraphStays DEF Grows, IsPhysical
  <1> QED
    BY <1>1, <1>2, <1>3, <1>4, <1>6, <1>7, <1>8

-----------------------------------------------------------------------------
(* The plans that a node is planned from. *)

\* Good plans for the parents of node n.
AreGood(ps, n) ==
    /\ DOMAIN ps = DOMAIN Parents(n)
    /\ \A i \in DOMAIN ps : Good(ps[i], Parents(n)[i])

LEMMA RecordIsGood ==
    ASSUME IsGraph(graph), NEW m \in Nodes, IsRecord(Physical(m)),
           NEW id \in Seq(Nodes \cup Forms), Len(id) > 0, id[1] = m
    PROVE  Good([stored[Physical(m)].plan EXCEPT !.id = id], m)
  <1> DEFINE s == stored[Physical(m)].plan
             p == [s EXCEPT !.id = id]
  <1>1. DOMAIN s = PlanFields /\ s.phys = Physical(m) /\ s.lineage = {} /\ s.traced \in BOOLEAN
        /\ (s.traced <=> m \in HaveTraces)
    BY TwinsHaveTraces DEF IsRecord
  <1> HIDE DEF s
  <1>2. DOMAIN p = PlanFields /\ p.id = id /\ p.phys = s.phys /\ p.lineage = s.lineage /\ p.traced = s.traced
    BY <1>1 DEF PlanFields
  <1> HIDE DEF p
  <1>3. Good(p, m)
    BY <1>1, <1>2 DEF Good, Computes, IsPlan
  <1> QED
    BY <1>3 DEF p, s

LEMMA RefreshFacts ==
    ASSUME IsGraph(graph), Published, NEW m \in Nodes, NEW p, Kept(p, m)
    PROVE  Good(Refresh(p), m)
  <1>1. CASE Physical(m) \in loaded
    <2>1. IsRecord(Physical(m))
      BY <1>1 DEF Published
    <2>2. p.id \in Seq(Nodes \cup Forms) /\ Len(p.id) > 0 /\ p.id[1] = m /\ p.phys = Physical(m)
      BY DEF Kept, IsPlan
    <2>3. Good([stored[Physical(m)].plan EXCEPT !.id = p.id], m)
      BY <2>1, <2>2, RecordIsGood
    <2> QED
      BY <1>1, <2>2, <2>3 DEF Refresh
  <1>2. CASE Physical(m) \notin loaded
    BY <1>2 DEF Kept, Refresh, IsPlan
  <1> QED
    BY <1>1, <1>2

LEMMA SharedFacts ==
    ASSUME Caches, NEW m, NEW p, Good(p, m)
    PROVE  Good(Shared(p), m)
  <1>1. p.id[1] = m
    BY DEF Good, IsPlan
  <1> QED
    BY <1>1 DEF Shared, Caches, IsOwn

LEMMA ParentPlansFacts ==
    ASSUME IsGraph(graph), Published, Evaluated, NEW n \in Nodes, ParentSet(n) \subseteq DOMAIN evaluated
    PROVE  AreGood(ParentPlans(n), n)
  <1> DEFINE ps == ParentPlans(n)
  <1>1. DOMAIN ps = DOMAIN Parents(n) /\ \A i \in DOMAIN ps : ps[i] = Refresh(evaluated[Parents(n)[i]])
    BY DEF ParentPlans
  <1>2. ASSUME NEW i \in DOMAIN Parents(n) PROVE Good(Refresh(evaluated[Parents(n)[i]]), Parents(n)[i])
    <2>1. Parents(n)[i] \in DOMAIN evaluated /\ Parents(n)[i] \in Nodes
      BY GraphFacts DEF ParentSet, Range
    <2>2. Kept(evaluated[Parents(n)[i]], Parents(n)[i])
      BY <2>1 DEF Evaluated, IsEvaluated, Good, Kept
    <2> QED
      BY <2>1, <2>2, RefreshFacts
  <1> HIDE DEF ps
  <1>3. AreGood(ps, n)
    BY <1>1, <1>2 DEF AreGood
  <1> QED
    BY <1>3 DEF ps

LEMMA PreparedPlansFacts ==
    ASSUME IsGraph(graph), Caches, NEW n \in Nodes, NEW ps, AreGood(ps, n)
    PROVE  AreGood(PreparedPlans(n, ps), n)
  <1> DEFINE rs == PreparedPlans(n, ps)
  <1>1. DOMAIN rs = DOMAIN ps
        /\ \A i \in DOMAIN ps : rs[i] = Prepared(n, ps[i]) \/ rs[i] = Shared(Prepared(n, ps[i]))
    BY DEF PreparedPlans
  <1>2. ASSUME NEW i \in DOMAIN ps
        PROVE  Good(Prepared(n, ps[i]), Parents(n)[i]) /\ Good(Shared(Prepared(n, ps[i])), Parents(n)[i])
    <2>1. Parents(n)[i] \in Nodes /\ Good(ps[i], Parents(n)[i])
      BY GraphFacts DEF AreGood
    <2>2. IsPlan(Prepared(n, ps[i]), Parents(n)[i]) /\ Prepared(n, ps[i]).lineage = ps[i].lineage
      BY <2>1, PreparedFacts DEF Good
    <2>3. Good(Prepared(n, ps[i]), Parents(n)[i])
      BY <2>1, <2>2 DEF Good, Computes
    <2> QED
      BY <2>3, SharedFacts
  <1> HIDE DEF rs
  <1>3. AreGood(rs, n)
    BY <1>1, <1>2 DEF AreGood
  <1> QED
    BY <1>3 DEF rs

\* Collecting good plans computes nothing that is published.
LEMMA NothingRepeats ==
    ASSUME Published, NEW plans, \A p \in plans : Computes(p)
    PROVE  Repeats(plans) = {}
  <1>1. ASSUME NEW p \in plans, NEW m \in p.lineage, Physical(m) \in loaded PROVE FALSE
    BY <1>1 DEF Published, Computes
  <1> QED
    BY <1>1 DEF Repeats

\* What is planned from some plans carries their traces, if they have any.
LEMMA TracedFromParents ==
    ASSUME IsGraph(graph), NEW n \in Nodes, ~ IsInput(n), NEW ps, AreGood(ps, n), NEW p, IsPlan(p, n)
    PROVE  Bytes(<<p>>) = Bytes(ps) /\ Bytes(<<p>>) = 5 + (IF p.traced THEN 1 ELSE 0)
  <1>1. AnyTraced(ps) <=> n \in HaveTraces
    BY ParentsCarry DEF AreGood, Good, ArePlansFor
  <1>2. AnyTraced(<<p>>) <=> p.traced
    BY DEF AnyTraced, IsPlan
  <1> QED
    BY <1>1, <1>2 DEF Bytes, IsPlan

-----------------------------------------------------------------------------
(* Recording a plan for publication. *)

LEMMA RecordFacts ==
    ASSUME IsSequence(pending), NEW p, Record(p)
    PROVE  /\ IsSequence(pending')
           /\ \A i \in DOMAIN pending' : (\E j \in DOMAIN pending : pending'[i] = pending[j]) \/ pending'[i] = p
           /\ \A q : IsPending(q) => IsPending(q)'
           /\ \A q : IsPending(q)' => IsPending(q) \/ q = p.phys
           /\ durable => IsPending(p.phys)'
           /\ ~ durable => pending' = pending
  <1>1. CASE durable /\ ~ IsPending(p.phys)
    <2>1. pending' = Append(pending, p)
      BY <1>1 DEF Record
    <2>2. /\ IsSequence(pending') /\ Len(pending') = Len(pending) + 1
          /\ \A i \in DOMAIN pending : pending'[i] = pending[i]
          /\ pending'[Len(pending) + 1] = p
          /\ \A i \in DOMAIN pending' : i \in DOMAIN pending \/ i = Len(pending) + 1
      BY <2>1, AppendFacts
    <2>3. Len(pending) \in Nat /\ DOMAIN pending = 1 .. Len(pending) /\ DOMAIN pending' = 1 .. Len(pending')
      BY <2>2, SequenceFacts
    <2>4. DOMAIN pending \subseteq DOMAIN pending' /\ Len(pending) + 1 \in DOMAIN pending'
      BY <2>2, <2>3
    <2> QED
      BY <1>1, <2>2, <2>4 DEF IsPending
  <1>2. CASE ~ (durable /\ ~ IsPending(p.phys))
    <2>1. pending' = pending
      BY <1>2 DEF Record
    <2> QED
      BY <1>2, <2>1 DEF IsPending
  <1> QED
    BY <1>1, <1>2

\* What is set aside for publication is enough for what is recorded.
LEMMA RecordFits ==
    ASSUME Pending, NEW p, Record(p), p.traced \in BOOLEAN,
           durable /\ pending # <<>> => PendingBytes + (5 + (IF p.traced THEN 1 ELSE 0)) <= PendingLimit
    PROVE  Len(pending') > 1 => PendingBytes' <= PendingLimit
  <1> DEFINE T == {i \in DOMAIN pending : pending[i].traced}
             U == {i \in DOMAIN pending' : pending'[i].traced}
  <1>1. CASE durable /\ ~ IsPending(p.phys)
    <2>1. pending' = Append(pending, p)
      BY <1>1 DEF Record
    <2>2. /\ IsSequence(pending') /\ Len(pending') = Len(pending) + 1
          /\ \A i \in DOMAIN pending : pending'[i] = pending[i]
          /\ pending'[Len(pending) + 1] = p
      BY <2>1, AppendFacts DEF Pending
    <2>3. Len(pending) \in Nat /\ DOMAIN pending = 1 .. Len(pending) /\ DOMAIN pending' = 1 .. Len(pending')
          /\ (pending # <<>> <=> Len(pending) > 0)
      BY <2>2, SequenceFacts DEF Pending
    <2> DEFINE k == Len(pending) + 1
    <2>4. DOMAIN pending' = DOMAIN pending \cup {k} /\ k \notin DOMAIN pending
      BY <2>2, <2>3
    <2>5. IsFiniteSet(T)
      <3>1. IsFiniteSet(DOMAIN pending)
        BY <2>3, FS_Interval
      <3>2. T \in SUBSET (DOMAIN pending)
        OBVIOUS
      <3> HIDE DEF T
      <3> QED
        BY <3>1, <3>2, FS_Subset
    <2>6. Cardinality(T) \in Nat
      BY <2>5, FS_CardinalityType
    <2>7. U = IF p.traced THEN T \cup {k} ELSE T
      BY <2>2, <2>4
    <2>8. k \notin T
      BY <2>4
    <2> HIDE DEF T, U
    <2>9. Cardinality(U) = Cardinality(T) + (IF p.traced THEN 1 ELSE 0)
      <3>1. CASE p.traced
        BY <2>5, <2>7, <2>8, <3>1, FS_AddElement
      <3>2. CASE ~ p.traced
        BY <2>6, <2>7, <3>2
      <3> QED
        BY <3>1, <3>2
    <2>10. PendingBytes = 5 * Len(pending) + Cardinality(T)
      BY DEF PendingBytes, T
    <2>11. PendingBytes' = 5 * Len(pending') + Cardinality(U)
      BY DEF PendingBytes, U
    <2>12. PendingBytes' = PendingBytes + (5 + (IF p.traced THEN 1 ELSE 0))
      BY <2>2, <2>3, <2>6, <2>9, <2>10, <2>11
    <2> QED
      BY <1>1, <2>2, <2>3, <2>12
  <1>2. CASE ~ (durable /\ ~ IsPending(p.phys))
    <2>1. pending' = pending
      BY <1>2 DEF Record
    <2>2. PendingBytes' = PendingBytes
      BY <2>1 DEF PendingBytes
    <2> QED
      BY <2>1, <2>2 DEF Pending
  <1> QED
    BY <1>1, <1>2

-----------------------------------------------------------------------------
(* Keeping plans for their next use. *)

\* A plan that may be kept under its name.
MayShare(p) == p.id[1] \in Nodes /\ Good(p, p.id[1]) /\ Proven(p.id[1])

LEMMA CacheFacts ==
    ASSUME Caches, NEW plans, NEW i \in DOMAIN Cache(plans)
    PROVE  \/ i \in DOMAIN cached.own /\ Cache(plans)[i] = cached.own[i]
           \/ \E p \in plans : Cache(plans)[i] = p /\ p.id = i
  BY DEF Cache, Over

\* Plans that are kept are still as good after a step.
LEMMA CachesGrow ==
    ASSUME IsGraph(graph), Caches, Grows, DOMAIN cached' = {"own", "physical"},
           NEW plans, cached'.own = Cache(plans), \A p \in plans : MayShare(p) \/ MayShare(p)',
           \A q \in DOMAIN cached'.physical :
               \/ q \in DOMAIN cached.physical /\ cached'.physical[q] = cached.physical[q]
               \/ IsPhysical(q)',
           \A q \in results' : ~ HasEvidence(q)
    PROVE  Caches'
  <1>1. ASSUME NEW i \in DOMAIN cached'.own PROVE IsOwn(i)'
    <2>1. CASE i \in DOMAIN cached.own /\ cached'.own[i] = cached.own[i]
      <3>1. cached.own[i].id = i /\ i[1] \in Nodes /\ Good(cached.own[i], i[1]) /\ Proven(i[1])
        BY <2>1 DEF Caches, IsOwn
      <3>2. Good(cached.own[i], i[1])' /\ Proven(i[1])' /\ Nodes' = Nodes
        <4>1. \A p, n : Good(p, n) => Good(p, n)'
          BY GrowthKeeps
        <4> QED
          BY <2>1, <3>1, <4>1, GrowthKeeps, GraphStays DEF Grows
      <3> QED
        BY <2>1, <3>1, <3>2 DEF IsOwn
    <2>2. CASE \E p \in plans : cached'.own[i] = p /\ p.id = i
      <3>1. PICK p \in plans : cached'.own[i] = p /\ p.id = i
        BY <2>2
      <3>2. CASE MayShare(p)
        <4>1. p.id[1] \in Nodes /\ Good(p, p.id[1]) /\ Proven(p.id[1])
          BY <3>2 DEF MayShare
        <4>2. Good(p, p.id[1])' /\ Proven(p.id[1])' /\ Nodes' = Nodes
          BY <4>1, GrowthKeeps, GraphStays DEF Grows
        <4> QED
          BY <3>1, <4>1, <4>2 DEF IsOwn
      <3>3. CASE MayShare(p)'
        BY <3>1, <3>3 DEF IsOwn, MayShare
      <3> QED
        BY <3>2, <3>3
    <2> QED
      BY <2>1, <2>2, CacheFacts
  <1>2. ASSUME NEW q \in DOMAIN cached'.physical PROVE IsPhysical(q)'
    <2>1. CASE q \in DOMAIN cached.physical /\ cached'.physical[q] = cached.physical[q]
      <3>1. \A r : Computes(r) => Computes(r)'
        BY GoodStays DEF Grows
      <3> QED
        BY <2>1, <3>1, GraphStays DEF Grows, Caches, IsPhysical
    <2> QED
      BY <2>1
  <1>3. ASSUME NEW q \in results' PROVE ~ HasEvidence(q)'
    BY GraphStays DEF Grows
  <1> QED
    BY <1>1, <1>2, <1>3 DEF Caches

-----------------------------------------------------------------------------
(* Planning one node. *)

LEMMA EvaluatedGrows ==
    ASSUME IsGraph(graph), Evaluated, Grows, NEW n \in Nodes, ParentSet(n) \subseteq DOMAIN evaluated,
           NEW p, Good(p, n)', Recorded(n)', Proven(n)', evaluated' = Over([m \in {n} |-> p], evaluated)
    PROVE  Evaluated' /\ DOMAIN evaluated' = DOMAIN evaluated \cup {n}
  <1>1. DOMAIN evaluated' = DOMAIN evaluated \cup {n} /\ evaluated'[n] = p
        /\ \A m \in DOMAIN evaluated : m # n => evaluated'[m] = evaluated[m]
    BY DEF Over
  <1>2. Nodes' = Nodes /\ \A m : ParentSet(m)' = ParentSet(m)
    BY GraphStays DEF Grows
  <1>3. IsEvaluated(n)'
    BY <1>1, <1>2 DEF IsEvaluated
  <1>4. ASSUME NEW m \in DOMAIN evaluated, m # n PROVE IsEvaluated(m)'
    <2>1. m \in Nodes /\ Good(evaluated[m], m) /\ Recorded(m) /\ Proven(m) /\ ParentSet(m) \subseteq DOMAIN evaluated
      BY DEF Evaluated, IsEvaluated
    <2>2. Good(evaluated[m], m)' /\ Recorded(m)' /\ Proven(m)'
      <3>1. \A r, l : Good(r, l) => Good(r, l)'
        BY GrowthKeeps
      <3>2. evaluated'[m] = evaluated[m]
        BY <1>1, <1>4
      <3>3. Recorded(m)' /\ Proven(m)'
        BY <2>1, GrowthKeeps
      <3> QED
        BY <2>1, <3>1, <3>2, <3>3
    <2> QED
      BY <1>1, <1>2, <2>1, <2>2 DEF IsEvaluated
  <1> QED
    BY <1>1, <1>2, <1>3, <1>4 DEF Evaluated

\* Collecting p computes node n and what awaits publication.
Extends(p, n) == durable => \A m \in p.lineage : m = n \/ IsPending(Physical(m))

\* What planning keeps of the store, of the plans and of what is kept of them.
Held == Grows /\ Published' /\ Pending' /\ Evaluated' /\ Caches'

LEMMA SettlePlanKeeps ==
    ASSUME IsGraph(graph), durable \in BOOLEAN, Published, Pending, Evaluated, Caches,
           UNCHANGED <<graph, durable, workers>>, evidence \subseteq evidence',
           \A q \in results' : ~ HasEvidence(q),
           NEW n \in Nodes, ~ IsInput(n), ParentSet(n) \subseteq DOMAIN evaluated,
           Physical(n) \notin loaded, ~ MustPublish(n), Proven(n)',
           NEW p, IsPlan(p, n), Extends(p, n),
           NEW ps, \A r \in Range(ps) : MayShare(r), NEW rest, SettlePlan(n, p, ps, rest)
    PROVE  Held
  <1>1. /\ Record(p) /\ evaluated' = Over([m \in {n} |-> p], evaluated)
        /\ cached' = [cached EXCEPT !.own = Cache(Range(ps) \cup {p}),
                                    !.physical = IF Op(n) \in Lazy /\ p.id[2] = "own"
                                                 THEN Over(@, [q \in {p.phys} |-> p]) ELSE @]
        /\ loaded' = loaded /\ stored' = stored
    BY DEF SettlePlan, Settle
  <1>2. /\ IsSequence(pending')
        /\ \A i \in DOMAIN pending' : (\E j \in DOMAIN pending : pending'[i] = pending[j]) \/ pending'[i] = p
        /\ \A q : IsPending(q) => IsPending(q)'
        /\ \A q : IsPending(q)' => IsPending(q) \/ q = p.phys
        /\ durable => IsPending(p.phys)'
        /\ ~ durable => pending' = pending
    BY <1>1, RecordFacts DEF Pending
  <1>3. Grows
    <2>1. DOMAIN evaluated \subseteq DOMAIN evaluated'
      BY <1>1 DEF Over
    <2> QED
      BY <1>1, <1>2, <2>1 DEF Grows
  <1>4. Good(p, n)' /\ Recorded(n)' /\ Computes(p)'
    <2>1. p.phys = Physical(n)
      BY DEF IsPlan
    <2>2. Computes(p)'
      BY <1>2, <2>1, GraphStays DEF Extends, Computes
    <2>3. Good(p, n)'
      BY <2>2, GraphStays DEF Good
    <2>4. Recorded(n)'
      BY <1>2, <2>1, GraphStays DEF Recorded
    <2> QED
      BY <2>2, <2>3, <2>4
  <1>5. Published'
    <2>1. ASSUME NEW q \in DOMAIN stored PROVE IsRecord(q)'
      BY <1>1, <2>1, GraphStays DEF Published, IsRecord
    <2>2. ASSUME NEW q \in loaded
          PROVE  q \in DOMAIN stored /\ ~ IsPending(q)' /\ (HasEvidence(q)' => q \in evidence')
      BY <1>2, <2>2, GraphStays DEF Published, IsPlan
    <2>3. ~ durable' => pending' = <<>> /\ loaded' = {}
      BY <1>1, <1>2 DEF Published
    <2> QED
      BY <1>1, <2>1, <2>2, <2>3 DEF Published
  <1>6. Pending'
    <2>1. ASSUME NEW i \in DOMAIN pending' PROVE Awaiting(pending[i])'
      <3>1. CASE \E j \in DOMAIN pending : pending'[i] = pending[j]
        <4>1. PICK j \in DOMAIN pending : pending'[i] = pending[j]
          BY <3>1
        <4>2. Awaiting(pending[j])
          BY DEF Pending
        <4>3. \A r : Awaiting(r) => Awaiting(r)'
          BY <1>3, GrowthKeeps
        <4> QED
          BY <4>1, <4>2, <4>3
      <3>2. CASE pending'[i] = p
        <4>1. p.id[1] = n /\ p.phys = Physical(n)
          BY DEF IsPlan
        <4>2. HasEvidence(Physical(n)) <=> HasEvidence(n)
          BY TwinFacts DEF HasEvidence
        <4> QED
          BY <1>4, <3>2, <4>1, <4>2, GraphStays DEF Awaiting, Proven
      <3> QED
        BY <1>2, <3>1, <3>2
    <2>2. durable /\ pending # <<>> => PendingBytes + (5 + (IF p.traced THEN 1 ELSE 0)) <= PendingLimit
      <3>1. Bytes(<<p>>) = Bytes(ParentPlans(n)) /\ Bytes(<<p>>) = 5 + (IF p.traced THEN 1 ELSE 0)
        BY ParentPlansFacts, TracedFromParents
      <3>2. durable /\ pending # <<>> => ~ (PendingBytes + Bytes(ParentPlans(n)) > PendingLimit)
        BY DEF MustPublish
      <3>3. PendingBytes \in Int /\ p.traced \in BOOLEAN /\ PendingLimit \in Int
        <4>1. Len(pending) \in Nat /\ DOMAIN pending = 1 .. Len(pending)
          BY SequenceFacts DEF Pending
        <4>2. IsFiniteSet(DOMAIN pending)
          BY <4>1, FS_Interval
        <4> DEFINE T == {i \in DOMAIN pending : pending[i].traced}
        <4>3. T \in SUBSET (DOMAIN pending)
          OBVIOUS
        <4> HIDE DEF T
        <4>4. Cardinality(T) \in Nat
          BY <4>2, <4>3, FS_Subset, FS_CardinalityType
        <4>5. PendingBytes = 5 * Len(pending) + Cardinality(T)
          BY DEF PendingBytes, T
        <4> QED
          BY <4>1, <4>4, <4>5, RuntimeAssumption DEF IsPlan
      <3> QED
        BY <3>1, <3>2, <3>3
    <2>3. Len(pending') > 1 => PendingBytes' <= PendingLimit
      BY <1>1, <2>2, RecordFits DEF IsPlan
    <2> QED
      BY <1>2, <2>1, <2>3 DEF Pending
  <1>7. Evaluated'
    BY <1>1, <1>3, <1>4, EvaluatedGrows
  <1>8. Caches'
    <2>1. DOMAIN cached' = {"own", "physical"} /\ cached'.own = Cache(Range(ps) \cup {p})
          /\ cached'.physical = IF Op(n) \in Lazy /\ p.id[2] = "own"
                                THEN Over(cached.physical, [q \in {p.phys} |-> p]) ELSE cached.physical
      BY <1>1 DEF Caches
    <2>2. ASSUME NEW q \in DOMAIN cached'.physical
          PROVE  \/ q \in DOMAIN cached.physical /\ cached'.physical[q] = cached.physical[q]
                 \/ IsPhysical(q)'
      <3>1. \/ q \in DOMAIN cached.physical /\ cached'.physical[q] = cached.physical[q]
            \/ q = p.phys /\ cached'.physical[q] = p
        BY <2>1 DEF Over
      <3>2. CASE q = p.phys /\ cached'.physical[q] = p
        BY <1>4, <3>2, TwinsHaveTraces, GraphStays DEF IsPhysical, IsPlan
      <3> QED
        BY <3>1, <3>2
    <2>3. MayShare(p)'
      <3>1. p.id[1] = n
        BY DEF IsPlan
      <3> QED
        BY <1>4, <3>1, GraphStays DEF MayShare
    <2>4. \A r \in Range(ps) \cup {p} : MayShare(r) \/ MayShare(r)'
      BY <2>3
    <2> QED
      BY <1>3, <2>1, <2>2, <2>4, CachesGrow
  <1> QED
    BY <1>3, <1>5, <1>6, <1>7, <1>8 DEF Held

LEMMA SettleStoredKeeps ==
    ASSUME IsGraph(graph), Published, Pending, Evaluated, Caches,
           UNCHANGED <<graph, durable, workers>>,
           NEW n \in Nodes, ~ IsInput(n), ParentSet(n) \subseteq DOMAIN evaluated, Hits(n),
           NEW held, evidence \subseteq held, NEW rest, SettleStored(n, held, rest)
    PROVE  Held
  <1> DEFINE q == Physical(n)
  <1>0. PICK p : p = [stored[q].plan EXCEPT !.id = <<n, "stored", "own">>]
    OBVIOUS
  <1>1. /\ evaluated' = Over([m \in {n} |-> p], evaluated)
        /\ loaded' = loaded \cup {q}
        /\ evidence' = IF q \in loaded THEN held ELSE IF stored[q].evidence THEN held \cup {q} ELSE held \ {q}
        /\ UNCHANGED <<pending, stored, cached, results>>
    BY <1>0 DEF SettleStored, Settle
  <1>2. q \in DOMAIN stored /\ ~ IsPending(q) /\ IsRecord(q) /\ durable
    BY DEF Hits, Published
  <1>3. q \in Nodes /\ (HasEvidence(q) <=> HasEvidence(n))
    BY TwinFacts DEF HasEvidence
  <1>4. HasEvidence(q) => stored[q].evidence
    BY <1>2 DEF IsRecord
  <1>5. Good(p, n)
    <2>1. <<n, "stored", "own">> \in Seq(Nodes \cup Forms) /\ Len(<<n, "stored", "own">>) > 0 /\ <<n, "stored", "own">>[1] = n
      <3>1. "own" \in Forms /\ "stored" \in Forms
        BY DEF Forms
      <3> QED
        BY <3>1
    <2> QED
      BY <1>0, <1>2, <2>1, RecordIsGood
  <1> HIDE DEF q
  <1>6. Grows
    <2>1. DOMAIN evaluated \subseteq DOMAIN evaluated'
      BY <1>1 DEF Over
    <2>2. \A r : IsPending(r)' = IsPending(r)
      BY <1>1 DEF IsPending
    <2>3. ASSUME NEW r \in evidence, HasEvidence(r) PROVE r \in evidence'
      BY <1>1, <1>4, <2>3
    <2> QED
      BY <1>1, <2>1, <2>2, <2>3 DEF Grows
  <1>7. HasEvidence(n) => q \in evidence'
    BY <1>1, <1>3, <1>4 DEF q, Published
  <1>8. Published'
    <2>1. ASSUME NEW r \in DOMAIN stored PROVE IsRecord(r)'
      BY <1>1, <2>1, GraphStays DEF Published, IsRecord
    <2>2. \A r : IsPending(r)' = IsPending(r)
      BY <1>1 DEF IsPending
    <2>3. ASSUME NEW r \in loaded'
          PROVE  r \in DOMAIN stored /\ ~ IsPending(r) /\ (HasEvidence(r) => r \in evidence')
      <3>1. CASE r \in loaded
        BY <1>6, <3>1 DEF Published, Grows
      <3>2. CASE r = q
        BY <1>2, <1>3, <1>7, <3>2
      <3> QED
        BY <1>1, <3>1, <3>2
    <2> QED
      BY <1>1, <1>2, <2>1, <2>2, <2>3, GraphStays DEF Published
  <1>9. Pending'
    <2>1. \A r : Awaiting(r) => Awaiting(r)'
      BY <1>6, GrowthKeeps
    <2>2. PendingBytes' = PendingBytes
      BY <1>1 DEF PendingBytes
    <2> QED
      BY <1>1, <2>1, <2>2 DEF Pending
  <1>10. Evaluated'
    <2>1. Good(p, n)'
      BY <1>5, <1>6, GrowthKeeps
    <2>2. Recorded(n)' /\ Proven(n)'
      BY <1>1, <1>7, GraphStays DEF Recorded, Proven, q
    <2> QED
      BY <1>1, <1>6, <2>1, <2>2, EvaluatedGrows
  <1>11. Caches'
    <2>1. \A r, m : Good(r, m) => Good(r, m)'
      BY <1>6, GrowthKeeps
    <2>2. ASSUME NEW i \in DOMAIN cached.own PROVE IsOwn(i)'
      <3>1. cached.own[i].id = i /\ i[1] \in Nodes /\ Good(cached.own[i], i[1]) /\ Proven(i[1])
        BY DEF Caches, IsOwn
      <3>2. Proven(i[1])'
        BY <1>6, <3>1, GrowthKeeps
      <3> QED
        BY <1>1, <2>1, <3>1, <3>2, GraphStays DEF IsOwn
    <2>3. ASSUME NEW r \in DOMAIN cached.physical PROVE IsPhysical(r)'
      BY <1>1, <1>6, GrowthKeeps DEF Caches
    <2> QED
      BY <1>1, <2>2, <2>3, GraphStays DEF Caches
  <1> QED
    BY <1>6, <1>8, <1>9, <1>10, <1>11 DEF Held

-----------------------------------------------------------------------------
(* The order of planning. *)

LEMMA JoinedFacts ==
    ASSUME NEW S, NEW s \in Seq(S), NEW t \in Seq(S)
    PROVE  s \o t \in Seq(S) /\ Range(s \o t) = Range(s) \cup Range(t)
  <1>1. s \o t \in Seq(S) /\ Len(s \o t) = Len(s) + Len(t) /\ Len(s) \in Nat /\ Len(t) \in Nat
    OBVIOUS
  <1>2. \A i \in 1 .. Len(s) : (s \o t)[i] = s[i]
    OBVIOUS
  <1>3. \A i \in 1 .. Len(t) : (s \o t)[Len(s) + i] = t[i]
    OBVIOUS
  <1>4. DOMAIN (s \o t) = 1 .. Len(s) + Len(t) /\ DOMAIN s = 1 .. Len(s) /\ DOMAIN t = 1 .. Len(t)
    BY <1>1
  <1>5. ASSUME NEW i \in 1 .. Len(s) + Len(t), ~ (i <= Len(s)) PROVE i - Len(s) \in 1 .. Len(t) /\ Len(s) + (i - Len(s)) = i
    BY <1>1, <1>5
  <1> DEFINE r == s \o t
  <1> HIDE DEF r
  <1>6. Range(r) \subseteq Range(s) \cup Range(t)
    <2>1. ASSUME NEW i \in DOMAIN r PROVE r[i] \in Range(s) \cup Range(t)
      <3>1. CASE i <= Len(s)
        BY <1>1, <1>2, <1>4, <3>1 DEF r, Range
      <3>2. CASE ~ (i <= Len(s))
        <4>1. i - Len(s) \in 1 .. Len(t) /\ Len(s) + (i - Len(s)) = i
          BY <1>4, <1>5, <3>2 DEF r
        <4>2. r[i] = t[i - Len(s)]
          BY <1>3, <4>1 DEF r
        <4> QED
          BY <1>4, <4>1, <4>2 DEF Range
      <3> QED
        BY <3>1, <3>2
    <2> QED
      BY <2>1 DEF Range
  <1>7. Range(s) \subseteq Range(r)
    <2>1. \A i \in DOMAIN s : i \in DOMAIN r /\ r[i] = s[i]
      BY <1>1, <1>2, <1>4 DEF r
    <2> QED
      BY <2>1 DEF Range
  <1>8. Range(t) \subseteq Range(r)
    <2>1. \A i \in DOMAIN t : Len(s) + i \in DOMAIN r /\ r[Len(s) + i] = t[i]
      BY <1>1, <1>3, <1>4 DEF r
    <2> QED
      BY <2>1 DEF Range
  <1>9. Range(r) = Range(s) \cup Range(t)
    BY <1>6, <1>7, <1>8
  <1> QED
    BY <1>1, <1>9 DEF r

\* The node that is asked for has planned parents.
LEMMA AskedFacts ==
    ASSUME IsGraph(graph), Evaluated, Waiting, Planning
    PROVE  /\ NextNode \in Nodes /\ ParentSet(NextNode) \subseteq DOMAIN evaluated
           /\ phase = "planning" /\ (Frontiers => ready # <<>> /\ NextNode = Head(ready) /\ Rest = Tail(ready))
  <1>1. CASE Frontiers
    <2>1. ready # <<>> /\ NextNode = Head(ready) /\ Rest = Tail(ready) /\ phase = "planning"
      BY <1>1 DEF Planning, NextNode, Rest
    <2>2. IsSequence(ready)
      BY AnySequence DEF Waiting
    <2>3. 1 \in DOMAIN ready /\ Head(ready) = ready[1]
      BY <2>1, <2>2, SequenceFacts
    <2>4. ready[1] \in Nodes
      BY <2>3 DEF Waiting
    <2> QED
      BY <2>1, <2>3, <2>4 DEF Waiting
  <1>2. CASE ~ Frontiers
    <2> DEFINE S == Nodes \ DOMAIN evaluated
    <2>1. phase = "planning" /\ S # {} /\ NextNode = Min(S)
      BY <1>2 DEF Planning, NextNode, Evaluated
    <2>2. S \in SUBSET Nat
      BY GraphFacts
    <2> HIDE DEF S
    <2>3. NextNode \in S /\ \A m \in S : NextNode <= m
      BY <2>1, <2>2, MinOfNumbers
    <2>4. ASSUME NEW m \in ParentSet(NextNode) PROVE m \in DOMAIN evaluated
      <3>1. NextNode \in Nodes
        BY <2>3 DEF S
      <3>2. m \in Nodes /\ m < NextNode /\ m \in Nat /\ NextNode \in Nat
        BY <3>1, GraphFacts
      <3>3. m \notin S
        BY <2>3, <3>2
      <3> QED
        BY <3>2, <3>3 DEF S
    <2> QED
      BY <1>2, <2>1, <2>3, <2>4 DEF S
  <1> QED
    BY <1>1, <1>2

\* Nodes that are ready once n is planned.
LEMMA ReleasedFacts ==
    ASSUME IsGraph(graph), NEW n
    PROVE  /\ Released(n) \in Seq(Nodes)
           /\ Range(Released(n)) = {c \in Nodes : n \in ParentSet(c) /\ ParentSet(c) \subseteq DOMAIN evaluated \cup {n}}
  <1> DEFINE S == {c \in Nodes : n \in ParentSet(c) /\ ParentSet(c) \subseteq DOMAIN evaluated \cup {n}}
  <1>1. S \subseteq Nodes /\ Nodes \subseteq Nat /\ IsFiniteSet(Nodes)
    BY GraphFacts, FS_Interval
  <1>2. Released(n) = InOrder(S)
    BY DEF Released
  <1> HIDE DEF S
  <1>3. S \in SUBSET Nat /\ IsFiniteSet(S)
    BY <1>1, FS_Subset
  <1>4. InOrder(S) \in Seq(S) /\ S = Range(InOrder(S))
    BY <1>3, InOrderFacts
  <1>5. InOrder(S) \in Seq(Nodes)
    BY <1>1, <1>4, WiderSequence
  <1> QED
    BY <1>2, <1>4, <1>5 DEF S

\* Planning node n makes its children ready and leaves deferred work alone.
LEMMA WaitingKept ==
    ASSUME IsGraph(graph), Waiting, Grows, waiting' = waiting,
           Groups(batch'), \A n \in Deferred(batch') : n \in Deferred(batch),
           NEW n \in Nodes, DOMAIN evaluated' = DOMAIN evaluated \cup {n},
           NEW rest \in Seq(Nodes), Range(rest) \subseteq Range(ready),
           ready' = IF Frontiers THEN rest \o Released(n) ELSE rest
    PROVE  Waiting'
  <1>1. Nodes' = Nodes /\ \A m : ParentSet(m)' = ParentSet(m)
    BY GraphStays DEF Grows
  <1>2. ASSUME NEW r \in Range(ready) PROVE ParentSet(r) \subseteq DOMAIN evaluated'
    <2>1. PICK i \in DOMAIN ready : ready[i] = r
      BY DEF Range
    <2> QED
      BY <2>1 DEF Waiting, Grows
  <1>3. ready' \in Seq(Nodes) /\ \A r \in Range(ready') : ParentSet(r) \subseteq DOMAIN evaluated'
    <2>1. CASE Frontiers
      <3>1. Released(n) \in Seq(Nodes)
            /\ Range(Released(n)) = {c \in Nodes : n \in ParentSet(c) /\ ParentSet(c) \subseteq DOMAIN evaluated \cup {n}}
        BY ReleasedFacts
      <3> DEFINE more == Released(n)
      <3>2. ready' = rest \o more
        BY <2>1
      <3>3. \A r \in Range(more) : ParentSet(r) \subseteq DOMAIN evaluated'
        BY <3>1
      <3>4. more \in Seq(Nodes)
        BY <3>1
      <3> HIDE DEF more
      <3>5. rest \o more \in Seq(Nodes) /\ Range(rest \o more) = Range(rest) \cup Range(more)
        BY <3>4, JoinedFacts
      <3> QED
        BY <1>2, <3>2, <3>3, <3>5
    <2>2. CASE ~ Frontiers
      BY <1>2, <2>2
    <2> QED
      BY <2>1, <2>2
  <1>4. \A i \in DOMAIN ready' : ParentSet(ready'[i]) \subseteq DOMAIN evaluated'
    BY <1>3 DEF Range
  <1>5. ASSUME NEW g \in DOMAIN waiting, NEW i \in DOMAIN waiting[g] PROVE IsWork(waiting[g][i])'
    <2>1. IsWork(waiting[g][i])
      BY DEF Waiting
    <2>2. \A w : IsWork(w) => IsWork(w)'
      BY GrowthKeeps
    <2> QED
      BY <2>1, <2>2
  <1>6. ASSUME NEW m \in Deferred(batch') PROVE Due(m)'
    <2>1. Due(m)
      BY DEF Waiting
    <2> QED
      BY <2>1, GrowthKeeps
  <1>7. Groups(waiting')
    BY DEF Waiting
  <1> QED
    BY <1>1, <1>3, <1>4, <1>5, <1>6, <1>7 DEF Waiting

\* No node is forgotten when node n is planned.
LEMMA NoneForgotten ==
    ASSUME IsGraph(graph), Scheduled, UNCHANGED <<graph, workers, waiting>>,
           NEW n \in Nodes, DOMAIN evaluated' = DOMAIN evaluated \cup {n},
           NEW rest \in Seq(Nodes), Range(ready) \subseteq Range(rest) \cup {n},
           ready' = IF Frontiers THEN rest \o Released(n) ELSE rest,
           \A m \in Deferred(batch) : m = n \/ m \in Deferred(batch'),
           NEW m \in Nodes \ DOMAIN evaluated', ParentSet(m) \subseteq DOMAIN evaluated', Frontiers
    PROVE  m \in Range(ready') \cup Deferred(waiting') \cup Deferred(batch')
  <1>1. /\ Released(n) \in Seq(Nodes)
        /\ Range(Released(n)) = {c \in Nodes : n \in ParentSet(c) /\ ParentSet(c) \subseteq DOMAIN evaluated \cup {n}}
    BY ReleasedFacts
  <1> DEFINE more == Released(n)
  <1>2. ready' = rest \o more /\ more \in Seq(Nodes)
    BY <1>1
  <1>3. m \in Nodes /\ m # n /\ m \notin DOMAIN evaluated
    OBVIOUS
  <1>4. n \in ParentSet(m) => m \in Range(more)
    BY <1>1
  <1> HIDE DEF more
  <1>5. Range(rest \o more) = Range(rest) \cup Range(more)
    BY <1>2, JoinedFacts
  <1>6. Range(ready') = Range(rest) \cup Range(more)
    BY <1>2, <1>5
  <1>7. CASE n \in ParentSet(m)
    BY <1>7, <1>4, <1>6
  <1>8. CASE n \notin ParentSet(m)
    <2>1. ParentSet(m) \subseteq DOMAIN evaluated
      BY <1>8
    <2>2. m \in Range(ready) \cup Deferred(waiting) \cup Deferred(batch)
      BY <1>3, <2>1 DEF Scheduled
    <2>3. m \in Range(ready) => m \in Range(ready')
      BY <1>3, <1>6
    <2> QED
      BY <1>3, <2>2, <2>3
  <1> QED
    BY <1>7, <1>8

\* Steps that leave the store alone.
LEMMA StoreStays ==
    ASSUME IsGraph(graph), Published, Pending,
           UNCHANGED <<graph, durable, pending, loaded, stored>>, evidence \subseteq evidence'
    PROVE  Published' /\ Pending'
  <1>1. \A q : IsPending(q)' = IsPending(q)
    BY DEF IsPending
  <1>2. \A p, n : Good(p, n) => Good(p, n)'
    BY <1>1, GoodStays
  <1>3. Published'
    <2>1. ASSUME NEW q \in DOMAIN stored PROVE IsRecord(q)'
      BY <2>1, GraphStays DEF Published, IsRecord
    <2> QED
      BY <1>1, <2>1, GraphStays DEF Published
  <1>4. Pending'
    <2>1. \A p : Awaiting(p) => Awaiting(p)'
      BY <1>2, GraphStays DEF Awaiting
    <2>2. PendingBytes' = PendingBytes
      BY DEF PendingBytes
    <2> QED
      BY <2>1, <2>2 DEF Pending
  <1> QED
    BY <1>3, <1>4

\* Steps that leave the kept plans alone.
LEMMA CachesStay ==
    ASSUME IsGraph(graph), Caches, UNCHANGED <<graph, durable, pending, cached, results>>, evidence \subseteq evidence'
    PROVE  Caches'
  <1>1. /\ \A p : Computes(p) => Computes(p)'
        /\ \A p, n : Good(p, n) => Good(p, n)'
    <2>1. \A q : IsPending(q)' = IsPending(q)
      BY DEF IsPending
    <2> QED
      BY <2>1, GoodStays
  <1>2. ASSUME NEW i \in DOMAIN cached.own PROVE IsOwn(i)'
    <2>1. cached.own[i].id = i /\ i[1] \in Nodes /\ Good(cached.own[i], i[1]) /\ Proven(i[1])
      BY DEF Caches, IsOwn
    <2>2. Proven(i[1])'
      BY <2>1, GraphStays DEF Proven
    <2> QED
      BY <1>1, <2>1, <2>2, GraphStays DEF IsOwn
  <1>3. ASSUME NEW q \in DOMAIN cached.physical PROVE IsPhysical(q)'
    BY <1>1, GraphStays DEF Caches, IsPhysical
  <1> QED
    BY <1>2, <1>3, GraphStays DEF Caches

\* Planning the node that is asked for.
LEMMA PlannedSchedule ==
    ASSUME RunInv, NEW n, Asks(n), Held, UNCHANGED <<phase, waiting, batch>>,
           DOMAIN evaluated' = DOMAIN evaluated \cup {n},
           ready' = IF Frontiers THEN Rest \o Released(n) ELSE Rest
    PROVE  RunTyped' /\ Waiting' /\ Scheduled'
  <1>1. IsGraph(graph) /\ Evaluated /\ Waiting /\ Scheduled /\ Planning /\ n = NextNode /\ Grows
    BY DEF RunInv, RunTyped, Asks, Held
  <1>2. /\ n \in Nodes /\ ParentSet(n) \subseteq DOMAIN evaluated
        /\ phase = "planning" /\ (Frontiers => ready # <<>> /\ n = Head(ready) /\ Rest = Tail(ready))
    BY <1>1, AskedFacts
  <1>3. UNCHANGED <<graph, durable, workers>> /\ Frontiers' = Frontiers /\ Nodes' = Nodes
        /\ \A m : ParentSet(m)' = ParentSet(m)
    BY <1>1, GraphStays DEF Grows, Frontiers
  <1>4. RunTyped'
    BY <1>3 DEF RunInv, RunTyped, IsGraph
  <1>5. Rest \in Seq(Nodes) /\ Range(Rest) \subseteq Range(ready) /\ Range(ready) \subseteq Range(Rest) \cup {n}
        /\ (~ Frontiers => Rest = <<>>)
    <2>1. CASE Frontiers
      <3>1. ready \in Seq(Nodes) /\ ready # <<>>
        BY <1>1, <1>2, <2>1 DEF Waiting
      <3>2. IsSequence(ready)
        BY <3>1, AnySequence
      <3>3. Tail(ready) \in Seq(Nodes)
        BY <3>1
      <3>4. /\ \A i \in DOMAIN Tail(ready) : i + 1 \in DOMAIN ready /\ Tail(ready)[i] = ready[i + 1]
            /\ \A i \in DOMAIN ready : i = 1 \/ (i - 1 \in DOMAIN Tail(ready) /\ Tail(ready)[i - 1] = ready[i])
            /\ Head(ready) = ready[1]
        BY <3>1, <3>2, TailFacts
      <3>5. Rest = Tail(ready) /\ n = ready[1]
        BY <1>2, <2>1, <3>4
      <3>6. Range(Rest) \subseteq Range(ready)
        BY <3>4, <3>5 DEF Range
      <3>7. Range(ready) \subseteq Range(Rest) \cup {n}
        <4>1. ASSUME NEW i \in DOMAIN ready PROVE ready[i] \in Range(Rest) \cup {n}
          <5>1. CASE i = 1
            BY <3>5, <5>1
          <5>2. CASE i - 1 \in DOMAIN Tail(ready) /\ Tail(ready)[i - 1] = ready[i]
            BY <3>5, <5>2 DEF Range
          <5> QED
            BY <3>4, <5>1, <5>2
        <4> QED
          BY <4>1 DEF Range
      <3> QED
        BY <2>1, <3>3, <3>5, <3>6, <3>7
    <2>2. CASE ~ Frontiers
      BY <1>1, <2>2 DEF Rest, Scheduled, Waiting
    <2> QED
      BY <2>1, <2>2
  <1>6. Waiting'
    <2>1. Groups(batch') /\ batch' = batch
      BY <1>1 DEF Waiting
    <2> QED
      BY <1>1, <1>2, <1>5, <2>1, WaitingKept
  <1>7. Scheduled'
    <2>1. ASSUME Frontiers, NEW m \in Nodes \ DOMAIN evaluated', ParentSet(m) \subseteq DOMAIN evaluated'
          PROVE  m \in Range(ready') \cup Deferred(waiting') \cup Deferred(batch')
      BY <1>1, <1>2, <1>3, <1>5, <2>1, NoneForgotten
    <2>2. ~ Frontiers => ready' = <<>> /\ waiting' = <<>>
      BY <1>1, <1>5 DEF Scheduled
    <2>3. phase' = "planning" /\ batch' = <<>>
      BY <1>1, <1>2 DEF Scheduled
    <2> QED
      BY <1>3, <2>1, <2>2, <2>3 DEF Scheduled
  <1> QED
    BY <1>4, <1>6, <1>7

LEMMA PlanInputKeeps ==
    ASSUME RunInv, NEW n, PlanInput(n)
    PROVE  RunInv'
  <1>1. PICK p : p = InputPlan(n)
    OBVIOUS
  <1>2. /\ Asks(n) /\ IsInput(n)
        /\ evaluated' = Over([m \in {n} |-> p], evaluated)
        /\ ready' = IF Frontiers THEN Rest \o Released(n) ELSE Rest
        /\ UNCHANGED <<graph, durable, workers, phase, pending, loaded, stored, evidence, cached, results>>
        /\ UNCHANGED <<waiting, batch, recollected>>
    BY <1>1 DEF PlanInput, Settle, scenario, store
  <1>3. IsGraph(graph) /\ n \in Nodes /\ ParentSet(n) \subseteq DOMAIN evaluated
    BY <1>2, AskedFacts DEF Asks, RunInv, RunTyped
  <1>4. \A q : IsPending(q)' = IsPending(q)
    BY <1>2 DEF IsPending
  <1>5. Grows
    <2>1. DOMAIN evaluated \subseteq DOMAIN evaluated'
      BY <1>2 DEF Over
    <2> QED
      BY <1>2, <1>4, <2>1 DEF Grows
  <1>6. Good(p, n)' /\ Recorded(n)' /\ Proven(n)'
    <2>1. IsPlan(p, n) /\ p.lineage = {}
      BY <1>1, <1>2, <1>3, InputFacts
    <2>2. Good(p, n)
      BY <2>1 DEF Good, Computes
    <2>3. Good(p, n)'
      BY <1>3, <1>5, <2>2, GrowthKeeps
    <2>4. ~ HasEvidence(n)
      BY <1>2 DEF HasEvidence, IsInput, Inputs
    <2> QED
      BY <1>2, <2>3, <2>4, GraphStays DEF Recorded, Proven
  <1>7. Evaluated' /\ DOMAIN evaluated' = DOMAIN evaluated \cup {n}
    BY <1>2, <1>3, <1>5, <1>6, EvaluatedGrows DEF RunInv
  <1>8. Published' /\ Pending' /\ Caches'
    BY <1>2, <1>3, StoreStays, CachesStay DEF RunInv
  <1>9. Held
    BY <1>5, <1>7, <1>8 DEF Held
  <1>10. RunTyped' /\ Waiting' /\ Scheduled'
    BY <1>2, <1>7, <1>9, PlannedSchedule
  <1> QED
    BY <1>2, <1>7, <1>8, <1>10 DEF RunInv

LEMMA PlanStoredKeeps ==
    ASSUME RunInv, NEW n, PlanStored(n)
    PROVE  RunInv'
  <1>1. /\ Asks(n) /\ ~ IsInput(n) /\ Hits(n)
        /\ SettleStored(n, evidence, Rest)
        /\ UNCHANGED <<graph, durable, workers, phase, waiting, batch, recollected>>
    BY DEF PlanStored, scenario
  <1>2. IsGraph(graph) /\ n \in Nodes /\ ParentSet(n) \subseteq DOMAIN evaluated
    BY <1>1, AskedFacts DEF Asks, RunInv, RunTyped
  <1>3. Held
    BY <1>1, <1>2, SettleStoredKeeps DEF RunInv
  <1>4. /\ DOMAIN evaluated' = DOMAIN evaluated \cup {n}
        /\ ready' = IF Frontiers THEN Rest \o Released(n) ELSE Rest
    BY <1>1 DEF SettleStored, Settle, Over
  <1>5. RunTyped' /\ Waiting' /\ Scheduled'
    BY <1>1, <1>3, <1>4, PlannedSchedule
  <1> QED
    BY <1>1, <1>3, <1>5 DEF RunInv, Held

\* The prepared plans of a node's parents may be kept.
LEMMA ParentsMayShare ==
    ASSUME IsGraph(graph), Evaluated, NEW n \in Nodes, ParentSet(n) \subseteq DOMAIN evaluated,
           NEW ps, AreGood(ps, n)
    PROVE  \A r \in Range(ps) : MayShare(r) /\ Computes(r)
  <1>1. ASSUME NEW i \in DOMAIN ps PROVE MayShare(ps[i]) /\ Computes(ps[i])
    <2>1. Parents(n)[i] \in Nodes /\ Parents(n)[i] \in DOMAIN evaluated
      BY GraphFacts DEF AreGood, ParentSet, Range
    <2>2. Good(ps[i], Parents(n)[i]) /\ ps[i].id[1] = Parents(n)[i]
      BY DEF AreGood, Good, IsPlan
    <2>3. Proven(Parents(n)[i])
      BY <2>1 DEF Evaluated, IsEvaluated
    <2> QED
      BY <2>1, <2>2, <2>3 DEF MayShare, Good
  <1> QED
    BY <1>1 DEF Range

\* Plans from which a node is planned.
LEMMA PreparedParents ==
    ASSUME IsGraph(graph), Published, Evaluated, Caches, NEW n \in Nodes, ParentSet(n) \subseteq DOMAIN evaluated
    PROVE  LET ps == PreparedPlans(n, ParentPlans(n)) IN
           /\ AreGood(ps, n) /\ ArePlansFor(ps, n)
           /\ \A r \in Range(ps) : MayShare(r) /\ Computes(r)
  <1> DEFINE ps == PreparedPlans(n, ParentPlans(n))
  <1>1. AreGood(ps, n)
    BY ParentPlansFacts, PreparedPlansFacts
  <1> HIDE DEF ps
  <1>2. ArePlansFor(ps, n)
    BY <1>1 DEF AreGood, ArePlansFor, Good
  <1> QED
    BY <1>1, <1>2, ParentsMayShare DEF ps

\* Eager work: the plan of a kernel's frame.
LEMMA EagerFacts ==
    ASSUME IsGraph(graph), Caches, NEW n \in Nodes, ~ IsInput(n), NEW ps, ArePlansFor(ps, n)
    PROVE  IsPlan(EagerPlan(n, ps), n) /\ Extends(EagerPlan(n, ps), n)
  <1>1. PICK g : g = GeneralPlan(n, ps)
    OBVIOUS
  <1>2. IsPlan(g, n)
    BY <1>1, GeneralFacts
  <1> DEFINE e == [g EXCEPT !.lineage = {}]
  <1>3. DOMAIN e = PlanFields /\ e.id = g.id /\ e.phys = g.phys /\ e.traced = g.traced /\ e.lineage = {}
    BY <1>2 DEF IsPlan, PlanFields
  <1>4. EagerPlan(n, ps) = Shared(e)
    BY <1>1 DEF EagerPlan
  <1> HIDE DEF e
  <1>5. Good(e, n)
    BY <1>2, <1>3 DEF Good, IsPlan, Computes
  <1>6. Good(Shared(e), n)
    BY <1>5, SharedFacts
  <1> QED
    BY <1>4, <1>6 DEF Good, Computes, Extends

LEMMA SettleEagerKeeps ==
    ASSUME IsGraph(graph), durable \in BOOLEAN, Published, Pending, Evaluated, Caches,
           UNCHANGED <<graph, durable, workers>>, evidence \subseteq evidence',
           NEW n \in Nodes, ~ IsInput(n), ParentSet(n) \subseteq DOMAIN evaluated,
           ~ Hits(n), ~ MustPublish(n), Proven(n)',
           NEW rest, SettleEager(n, PreparedPlans(n, ParentPlans(n)), rest)
    PROVE  Held
  <1>1. PICK ps : ps = PreparedPlans(n, ParentPlans(n))
    OBVIOUS
  <1>2. PICK p : p = EagerPlan(n, ps)
    OBVIOUS
  <1>3. SettlePlan(n, p, ps, rest) /\ results' = IF IsBuiltin(n) THEN results \cup {Physical(n)} ELSE results
    BY <1>1, <1>2 DEF SettleEager
  <1>4. ArePlansFor(ps, n) /\ \A r \in Range(ps) : MayShare(r)
    BY <1>1, PreparedParents
  <1>5. IsPlan(p, n) /\ Extends(p, n)
    BY <1>2, <1>4, EagerFacts
  <1>6. \A q \in results' : ~ HasEvidence(q)
    <2>1. IsBuiltin(n) => ~ HasEvidence(Physical(n))
      BY TwinFacts DEF IsBuiltin, HasEvidence
    <2> QED
      BY <1>3, <2>1 DEF Caches
  <1>7. Physical(n) \notin loaded
    BY DEF Hits, Published
  <1> QED
    BY <1>3, <1>4, <1>5, <1>6, <1>7, SettlePlanKeeps

LEMMA PlanKnownKeeps ==
    ASSUME RunInv, NEW n, PlanKnown(n)
    PROVE  RunInv'
  <1>1. PICK ps : ps = PreparedPlans(n, ParentPlans(n))
    OBVIOUS
  <1>2. /\ Asks(n) /\ Op(n) \in Eager /\ ~ Hits(n) /\ Known(n, ps)
        /\ SettleEager(n, ps, Rest)
        /\ UNCHANGED <<graph, durable, workers, phase, evidence, waiting, batch, recollected>>
    BY <1>1 DEF PlanKnown, AsksEager, scenario
  <1>3. /\ IsGraph(graph) /\ durable \in BOOLEAN /\ n \in Nodes /\ ~ IsInput(n)
        /\ ParentSet(n) \subseteq DOMAIN evaluated /\ ~ MustPublish(n)
    BY <1>2, AskedFacts DEF Asks, RunInv, RunTyped, IsInput, Inputs, Eager
  <1>4. Proven(n)
    <2>1. CASE Physical(n) \in results
      <3>1. ~ HasEvidence(Physical(n))
        BY <2>1 DEF RunInv, Caches
      <3> QED
        BY <1>3, <3>1, TwinFacts DEF HasEvidence, Proven
    <2>2. CASE GeneralPlan(n, ps).id \in DOMAIN cached.own
      <3>1. ArePlansFor(ps, n)
        BY <1>1, <1>3, PreparedParents DEF RunInv
      <3>2. GeneralPlan(n, ps).id = <<n, "own", "own">>
        BY <1>3, <3>1, GeneralFacts
      <3>3. IsOwn(<<n, "own", "own">>)
        BY <2>2, <3>2 DEF RunInv, Caches
      <3> QED
        BY <3>3 DEF IsOwn
    <2> QED
      BY <1>2, <2>1, <2>2 DEF Known
  <1>5. Proven(n)'
    BY <1>2, <1>4, GraphStays DEF Proven
  <1>6. Held
    BY <1>1, <1>2, <1>3, <1>5, SettleEagerKeeps DEF RunInv
  <1>7. /\ DOMAIN evaluated' = DOMAIN evaluated \cup {n}
        /\ ready' = IF Frontiers THEN Rest \o Released(n) ELSE Rest
    BY <1>2 DEF SettleEager, SettlePlan, Settle, Over
  <1>8. RunTyped' /\ Waiting' /\ Scheduled'
    BY <1>2, <1>6, <1>7, PlannedSchedule
  <1> QED
    BY <1>2, <1>6, <1>8 DEF RunInv, Held

LEMMA EvidencedFacts ==
    ASSUME NEW n
    PROVE  evidence \subseteq Evidenced(n) /\ (HasEvidence(n) => Physical(n) \in Evidenced(n))
  BY DEF Evidenced

LEMMA RunInPlaceKeeps ==
    ASSUME RunInv, NEW n, RunInPlace(n)
    PROVE  RunInv'
  <1>1. PICK ps : ps = PreparedPlans(n, ParentPlans(n))
    OBVIOUS
  <1>2. /\ Asks(n) /\ Op(n) \in Eager /\ ~ Hits(n)
        /\ SettleEager(n, ps, Rest) /\ evidence' = Evidenced(n)
        /\ recollected' = recollected \cup Repeats(Range(ps))
        /\ UNCHANGED <<graph, durable, workers, phase, waiting, batch>>
    BY <1>1 DEF RunInPlace, AsksEager, scenario
  <1>3. /\ IsGraph(graph) /\ durable \in BOOLEAN /\ n \in Nodes /\ ~ IsInput(n)
        /\ ParentSet(n) \subseteq DOMAIN evaluated /\ ~ MustPublish(n)
    BY <1>2, AskedFacts DEF Asks, RunInv, RunTyped, IsInput, Inputs, Eager
  <1>4. Proven(n)' /\ evidence \subseteq evidence'
    BY <1>2, EvidencedFacts, GraphStays DEF Proven
  <1>5. Held
    BY <1>1, <1>2, <1>3, <1>4, SettleEagerKeeps DEF RunInv
  <1>6. /\ DOMAIN evaluated' = DOMAIN evaluated \cup {n}
        /\ ready' = IF Frontiers THEN Rest \o Released(n) ELSE Rest
    BY <1>2 DEF SettleEager, SettlePlan, Settle, Over
  <1>7. RunTyped' /\ Waiting' /\ Scheduled'
    BY <1>2, <1>5, <1>6, PlannedSchedule
  <1>8. recollected' = {}
    <2>1. \A r \in Range(ps) : Computes(r)
      BY <1>1, <1>3, PreparedParents DEF RunInv
    <2>2. Repeats(Range(ps)) = {}
      BY <2>1, NothingRepeats DEF RunInv
    <2> QED
      BY <1>2, <2>2 DEF RunInv
  <1> QED
    BY <1>5, <1>7, <1>8 DEF RunInv, Held

\* The form without a grid that a node is given.
LEMMA LoweredExtends ==
    ASSUME IsGraph(graph), Published, Evaluated, Caches, NEW n \in Nodes, ~ IsInput(n),
           ParentSet(n) \subseteq DOMAIN evaluated, Lowers(n, ParentPlans(n))
    PROVE  LET p == Shared(Lowered(n, evaluated, ParentPlans(n))) IN IsPlan(p, n) /\ Extends(p, n)
  <1>1. PICK ps : ps = ParentPlans(n)
    OBVIOUS
  <1>2. PICK l : l = Lowered(n, evaluated, ps)
    OBVIOUS
  <1>3. AreGood(ps, n) /\ ArePlansFor(ps, n)
    BY <1>1, ParentPlansFacts DEF AreGood, ArePlansFor, Good
  <1>4. \A m \in DOMAIN evaluated : m \in Nodes /\ IsPlan(evaluated[m], m) /\ ParentSet(m) \subseteq DOMAIN evaluated
    BY DEF Evaluated, IsEvaluated, Good
  <1>5. IsPlan(l, n) /\ l.lineage \subseteq {n} \cup LineageOf({evaluated[m] : m \in ParentSet(n)}) \cup LineageOf(Range(ps))
    BY <1>1, <1>2, <1>3, <1>4, LoweredFacts
  <1>6. Extends(l, n)
    <2>1. ASSUME durable, NEW k \in LineageOf({evaluated[m] : m \in ParentSet(n)}) PROVE IsPending(Physical(k))
      <3>1. PICK m \in ParentSet(n) : k \in evaluated[m].lineage
        BY DEF LineageOf
      <3>2. Computes(evaluated[m])
        BY <3>1 DEF Evaluated, IsEvaluated, Good
      <3> QED
        BY <2>1, <3>1, <3>2 DEF Computes
    <2>2. ASSUME durable, NEW k \in LineageOf(Range(ps)) PROVE IsPending(Physical(k))
      <3>1. PICK r \in Range(ps) : k \in r.lineage
        BY DEF LineageOf
      <3>2. Computes(r)
        BY <1>3, ParentsMayShare
      <3> QED
        BY <2>2, <3>1, <3>2 DEF Computes
    <2> QED
      BY <1>5, <2>1, <2>2 DEF Extends
  <1>7. CASE l.id \in DOMAIN cached.own
    <2>1. Shared(l) = cached.own[l.id] /\ IsOwn(l.id) /\ l.id[1] = n
      BY <1>5, <1>7 DEF Shared, Caches, IsPlan
    <2>2. Good(Shared(l), n)
      BY <2>1 DEF IsOwn
    <2> QED
      BY <1>1, <1>2, <2>2 DEF Good, Computes, Extends
  <1>8. CASE l.id \notin DOMAIN cached.own
    BY <1>1, <1>2, <1>5, <1>6, <1>8 DEF Shared
  <1> QED
    BY <1>7, <1>8

LEMMA LazyExtends ==
    ASSUME IsGraph(graph), Caches, NEW n \in Nodes, ~ IsInput(n), NEW ps, ArePlansFor(ps, n),
           \A r \in Range(ps) : Computes(r)
    PROVE  IsPlan(LazyPlan(n, ps), n) /\ Extends(LazyPlan(n, ps), n)
  <1>1. PICK g : g = GeneralPlan(n, ps)
    OBVIOUS
  <1>2. IsPlan(g, n) /\ g.lineage = {n} \cup LineageOf(Range(ps))
    BY <1>1, GeneralFacts
  <1>3. CASE g.id \in DOMAIN cached.own
    <2>1. LazyPlan(n, ps) = cached.own[g.id] /\ IsOwn(g.id) /\ g.id[1] = n
      BY <1>1, <1>2, <1>3 DEF LazyPlan, Caches, IsPlan
    <2>2. Good(LazyPlan(n, ps), n)
      BY <2>1 DEF IsOwn
    <2> QED
      BY <2>2 DEF Good, Computes, Extends
  <1>4. CASE g.id \notin DOMAIN cached.own /\ g.phys \in DOMAIN cached.physical
    <2>1. PICK s : s = cached.physical[g.phys]
      OBVIOUS
    <2> DEFINE e == [s EXCEPT !.id = g.id, !.traceId = g.traceId]
    <2>2. LazyPlan(n, ps) = e
      BY <1>1, <1>4, <2>1 DEF LazyPlan
    <2>3. /\ DOMAIN s = PlanFields /\ s.phys = Physical(n)
          /\ s.traced \in BOOLEAN /\ (s.traced <=> Physical(n) \in HaveTraces)
          /\ s.lineage \subseteq Nodes /\ Computes(s)
      BY <1>2, <1>4, <2>1 DEF Caches, IsPhysical, IsPlan
    <2>4. DOMAIN e = PlanFields /\ e.id = g.id /\ e.phys = s.phys /\ e.traced = s.traced /\ e.lineage = s.lineage
      BY <2>3 DEF PlanFields
    <2> HIDE DEF e
    <2>5. IsPlan(e, n)
      BY <1>2, <2>3, <2>4, TwinsHaveTraces DEF IsPlan
    <2>6. Extends(e, n)
      BY <2>3, <2>4 DEF Computes, Extends
    <2> QED
      BY <2>2, <2>5, <2>6
  <1>5. CASE g.id \notin DOMAIN cached.own /\ g.phys \notin DOMAIN cached.physical
    <2>1. LazyPlan(n, ps) = g
      BY <1>1, <1>5 DEF LazyPlan
    <2>2. ASSUME durable, NEW k \in LineageOf(Range(ps)) PROVE IsPending(Physical(k))
      BY <2>2 DEF LineageOf, Computes
    <2>3. Extends(g, n)
      BY <1>2, <2>2 DEF Extends
    <2> QED
      BY <1>2, <2>1, <2>3
  <1> QED
    BY <1>3, <1>4, <1>5

LEMMA PlanLazilyKeeps ==
    ASSUME RunInv, NEW n, PlanLazily(n)
    PROVE  RunInv'
  <1>1. /\ Asks(n) /\ ~ IsInput(n) /\ ~ Hits(n)
        /\ UNCHANGED <<graph, durable, workers, phase, evidence, results, waiting, batch, recollected>>
    BY DEF PlanLazily, scenario
  <1>2. /\ IsGraph(graph) /\ durable \in BOOLEAN /\ n \in Nodes
        /\ ParentSet(n) \subseteq DOMAIN evaluated /\ ~ MustPublish(n)
    BY <1>1, AskedFacts DEF Asks, RunInv, RunTyped
  <1>3. \E p, ps : /\ ~ HasEvidence(n) /\ IsPlan(p, n) /\ Extends(p, n)
                   /\ (\A r \in Range(ps) : MayShare(r)) /\ SettlePlan(n, p, ps, Rest)
    <2>1. CASE Lowers(n, ParentPlans(n))
      <3>1. PICK p : p = Shared(Lowered(n, evaluated, ParentPlans(n)))
        OBVIOUS
      <3>2. SettlePlan(n, p, <<>>, Rest)
        BY <2>1, <3>1 DEF PlanLazily
      <3>3. IsPlan(p, n) /\ Extends(p, n)
        BY <1>1, <1>2, <2>1, <3>1, LoweredExtends DEF RunInv
      <3>4. ~ HasEvidence(n)
        BY <2>1 DEF Lowers, LowersScalar, JoinsImplicit, Scalable, HasEvidence
      <3>5. \A r \in Range(<<>>) : MayShare(r)
        BY DEF Range
      <3> QED
        BY <3>2, <3>3, <3>4, <3>5
    <2>2. CASE ~ Lowers(n, ParentPlans(n))
      <3>1. PICK ps : ps = PreparedPlans(n, ParentPlans(n))
        OBVIOUS
      <3>2. PICK p : p = LazyPlan(n, ps)
        OBVIOUS
      <3>3. SettlePlan(n, p, ps, Rest) /\ Op(n) \notin Eager
        BY <2>2, <3>1, <3>2 DEF PlanLazily
      <3>4. ArePlansFor(ps, n) /\ \A r \in Range(ps) : MayShare(r) /\ Computes(r)
        BY <1>2, <3>1, PreparedParents DEF RunInv
      <3>5. IsPlan(p, n) /\ Extends(p, n)
        BY <1>1, <1>2, <3>2, <3>4, LazyExtends DEF RunInv
      <3>6. ~ HasEvidence(n)
        BY <3>3 DEF Eager, HasEvidence
      <3> QED
        BY <3>3, <3>4, <3>5, <3>6
    <2> QED
      BY <2>1, <2>2
  <1>4. PICK p, ps : /\ ~ HasEvidence(n) /\ IsPlan(p, n) /\ Extends(p, n)
                     /\ (\A r \in Range(ps) : MayShare(r)) /\ SettlePlan(n, p, ps, Rest)
    BY <1>3
  <1>5. Proven(n)'
    BY <1>1, <1>4, GraphStays DEF Proven
  <1>6. Physical(n) \notin loaded
    BY <1>1 DEF Hits, Published, RunInv
  <1>7. \A q \in results' : ~ HasEvidence(q)
    BY <1>1 DEF RunInv, Caches
  <1>8. Held
    BY <1>1, <1>2, <1>4, <1>5, <1>6, <1>7, SettlePlanKeeps DEF RunInv
  <1>9. /\ DOMAIN evaluated' = DOMAIN evaluated \cup {n}
        /\ ready' = IF Frontiers THEN Rest \o Released(n) ELSE Rest
    BY <1>4 DEF SettlePlan, Settle, Over
  <1>10. RunTyped' /\ Waiting' /\ Scheduled'
    BY <1>1, <1>8, <1>9, PlannedSchedule
  <1> QED
    BY <1>1, <1>8, <1>10 DEF RunInv, Held

\* Steps that plan nothing.
LEMMA EvaluatedStays ==
    ASSUME IsGraph(graph), Evaluated, Grows, evaluated' = evaluated
    PROVE  Evaluated'
  <1>1. Nodes' = Nodes /\ \A m : ParentSet(m)' = ParentSet(m)
    BY GraphStays DEF Grows
  <1>2. ASSUME NEW m \in DOMAIN evaluated PROVE IsEvaluated(m)'
    <2>1. m \in Nodes /\ Good(evaluated[m], m) /\ Recorded(m) /\ Proven(m) /\ ParentSet(m) \subseteq DOMAIN evaluated
      BY DEF Evaluated, IsEvaluated
    <2>2. \A r, l : Good(r, l) => Good(r, l)'
      BY GrowthKeeps
    <2>3. Recorded(m)' /\ Proven(m)'
      BY <2>1, GrowthKeeps
    <2> QED
      BY <1>1, <2>1, <2>2, <2>3 DEF IsEvaluated
  <1> QED
    BY <1>1, <1>2 DEF Evaluated

LEMMA PlansStay ==
    ASSUME IsGraph(graph), Published, Pending, Evaluated,
           UNCHANGED <<graph, durable, workers, evaluated, pending, loaded, stored>>, evidence \subseteq evidence'
    PROVE  Grows /\ Published' /\ Pending' /\ Evaluated'
  <1>1. \A q : IsPending(q)' = IsPending(q)
    BY DEF IsPending
  <1>2. Grows
    BY <1>1 DEF Grows
  <1> QED
    BY <1>2, StoreStays, EvaluatedStays

-----------------------------------------------------------------------------
(* Deferred work. *)

\* Work is added to a group of its kernel, or as a group of its own.
Placed(groups, S, work) ==
    IF S = {} THEN Append(groups, <<work>>) ELSE [groups EXCEPT ![Min(S)] = Append(@, work)]

LEMMA GroupsGrow ==
    ASSUME NEW old, Groups(old), NEW work, NEW S \in SUBSET (DOMAIN old), NEW new, new = Placed(old, S, work)
    PROVE  /\ Groups(new)
           /\ \A g \in DOMAIN new : \A i \in DOMAIN new[g] :
                 new[g][i] = work \/ \E h \in DOMAIN old : \E j \in DOMAIN old[h] : new[g][i] = old[h][j]
           /\ work.node \in Deferred(new) /\ Deferred(old) \subseteq Deferred(new)
  <1>1. /\ IsSequence(old) /\ Len(old) \in Nat /\ DOMAIN old = 1 .. Len(old)
        /\ \A g \in DOMAIN old : IsSequence(old[g]) /\ old[g] # <<>>
    BY SequenceFacts DEF Groups
  <1>2. CASE S = {}
    <2> DEFINE alone == <<work>>
    <2>1. new = Append(old, alone)
      BY <1>2 DEF Placed
    <2> HIDE DEF alone
    <2>2. /\ IsSequence(new) /\ Len(new) = Len(old) + 1
          /\ \A i \in DOMAIN old : new[i] = old[i]
          /\ new[Len(old) + 1] = alone
          /\ \A i \in DOMAIN new : i \in DOMAIN old \/ i = Len(old) + 1
      BY <1>1, <2>1, AppendFacts
    <2>3. DOMAIN new = 1 .. Len(old) + 1
      BY <2>2, SequenceFacts
    <2>4. IsSequence(alone) /\ alone # <<>> /\ DOMAIN alone = {1} /\ alone[1] = work
      <3>1. alone \in Seq({work}) /\ alone # <<>> /\ DOMAIN alone = {1} /\ alone[1] = work
        BY DEF alone
      <3> QED
        BY <3>1, AnySequence
    <2>5. Groups(new)
      BY <1>1, <2>2, <2>4 DEF Groups
    <2>6. Len(old) + 1 \in DOMAIN new /\ DOMAIN old \subseteq DOMAIN new
      BY <1>1, <2>3
    <2>7. work.node \in Deferred(new)
      BY <2>2, <2>4, <2>6 DEF Deferred
    <2>8. Deferred(old) \subseteq Deferred(new)
      BY <2>2, <2>6 DEF Deferred
    <2> QED
      BY <2>2, <2>4, <2>5, <2>7, <2>8
  <1>3. CASE S # {}
    <2> DEFINE m == Min(S)
    <2>1. S \in SUBSET Nat
      BY <1>1
    <2>2. m \in DOMAIN old
      BY <1>3, <2>1, MinOfNumbers
    <2> HIDE DEF m
    <2>3. new = [old EXCEPT ![m] = Append(old[m], work)]
      BY <1>3 DEF Placed, m
    <2>4. DOMAIN new = DOMAIN old /\ new[m] = Append(old[m], work) /\ \A g \in DOMAIN old : g # m => new[g] = old[g]
      BY <2>2, <2>3
    <2>5. IsSequence(old[m])
      BY <1>1, <2>2
    <2>6. /\ IsSequence(new[m]) /\ Len(new[m]) = Len(old[m]) + 1
          /\ \A i \in DOMAIN old[m] : new[m][i] = old[m][i]
          /\ new[m][Len(old[m]) + 1] = work
          /\ \A i \in DOMAIN new[m] : i \in DOMAIN old[m] \/ i = Len(old[m]) + 1
      BY <2>4, <2>5, AppendFacts
    <2>7. /\ Len(old[m]) \in Nat /\ DOMAIN old[m] = 1 .. Len(old[m]) /\ DOMAIN new[m] = 1 .. Len(old[m]) + 1
          /\ new[m] # <<>>
      <3>1. Len(old[m]) \in Nat /\ DOMAIN old[m] = 1 .. Len(old[m])
        BY <2>5, SequenceFacts
      <3>2. DOMAIN new[m] = 1 .. Len(new[m]) /\ (new[m] # <<>> <=> Len(new[m]) > 0)
        BY <2>6, SequenceFacts
      <3>3. Len(new[m]) = Len(old[m]) + 1
        BY <2>6
      <3> QED
        BY <3>1, <3>2, <3>3
    <2>8. IsSequence(new)
      <3>1. new = [i \in 1 .. Len(old) |-> new[i]] /\ DOMAIN new = 1 .. Len(old)
        BY <1>1, <2>3, <2>4
      <3> QED
        BY <1>1, <3>1, FunctionIsSequence
    <2>9. Groups(new)
      BY <1>1, <2>4, <2>6, <2>7, <2>8 DEF Groups
    <2>10. Len(old[m]) + 1 \in DOMAIN new[m] /\ DOMAIN old[m] \subseteq DOMAIN new[m]
      <3>1. \A k \in Nat : k + 1 \in 1 .. k + 1 /\ 1 .. k \subseteq 1 .. k + 1
        OBVIOUS
      <3> QED
        BY <2>7, <3>1
    <2>11. work.node \in Deferred(new)
      BY <2>2, <2>4, <2>6, <2>10 DEF Deferred
    <2>12. Deferred(old) \subseteq Deferred(new)
      <3>1. ASSUME NEW g \in DOMAIN old, NEW i \in DOMAIN old[g] PROVE old[g][i].node \in Deferred(new)
        <4>1. g \in DOMAIN new /\ i \in DOMAIN new[g] /\ new[g][i] = old[g][i]
          BY <2>4, <2>6, <2>10
        <4> QED
          BY <4>1 DEF Deferred
      <3> QED
        BY <3>1 DEF Deferred
    <2>13. ASSUME NEW g \in DOMAIN new, NEW i \in DOMAIN new[g]
           PROVE  new[g][i] = work \/ \E h \in DOMAIN old : \E j \in DOMAIN old[h] : new[g][i] = old[h][j]
      BY <2>2, <2>4, <2>6
    <2> QED
      BY <2>9, <2>11, <2>12, <2>13
  <1> QED
    BY <1>2, <1>3

LEMMA DeferKeeps ==
    ASSUME RunInv, NEW n, Defer(n)
    PROVE  RunInv'
  <1>1. PICK ps : ps = PreparedPlans(n, ParentPlans(n))
    OBVIOUS
  <1>2. PICK work : work = [node |-> n, prepared |-> ps]
    OBVIOUS
  <1>3. PICK S : S = {g \in DOMAIN waiting : SameKernel(Head(waiting[g]), work)}
    OBVIOUS
  <1>4. /\ Asks(n) /\ Op(n) \in Eager /\ Frontiers
        /\ ready' = Rest
        /\ waiting' = Placed(waiting, S, work)
        /\ cached' = [cached EXCEPT !.own = Cache({p \in Range(ps) : Len(p.id) > 3})]
        /\ UNCHANGED <<graph, durable, workers, phase, evaluated, pending, loaded, stored, evidence, results, batch, recollected>>
    BY <1>1, <1>2, <1>3 DEF Defer, AsksEager, Placed, scenario, store
  <1>5. /\ IsGraph(graph) /\ durable \in BOOLEAN /\ n \in Nodes
        /\ ParentSet(n) \subseteq DOMAIN evaluated /\ ready # <<>> /\ n = Head(ready) /\ Rest = Tail(ready)
        /\ phase = "planning"
    BY <1>4, AskedFacts DEF Asks, RunInv, RunTyped
  <1>6. Grows
    BY <1>4, <1>5, PlansStay DEF RunInv
  <1>7. AreGood(ps, n) /\ \A r \in Range(ps) : MayShare(r)
    BY <1>1, <1>5, PreparedParents DEF RunInv
  <1>8. IsWork(work)
    <2>1. DOMAIN work = {"node", "prepared"} /\ work.node = n /\ work.prepared = ps
      BY <1>2
    <2>2. Due(n)
      BY <1>4, <1>5 DEF Due
    <2> QED
      BY <1>7, <2>1, <2>2 DEF IsWork, AreGood, Good, Kept
  <1>9. Published' /\ Pending' /\ Evaluated'
    BY <1>4, <1>5, PlansStay DEF RunInv
  <1>10. Caches'
    <2>1. /\ DOMAIN cached' = {"own", "physical"} /\ cached'.own = Cache({p \in Range(ps) : Len(p.id) > 3})
          /\ cached'.physical = cached.physical
      BY <1>4 DEF RunInv, Caches
    <2>2. \A q \in results' : ~ HasEvidence(q)
      BY <1>4 DEF RunInv, Caches
    <2>3. \A p \in {p \in Range(ps) : Len(p.id) > 3} : MayShare(p)
      BY <1>7
    <2> QED
      BY <1>5, <1>6, <2>1, <2>2, <2>3, CachesGrow DEF RunInv
  <1>11. /\ Groups(waiting')
         /\ \A g \in DOMAIN waiting' : \A i \in DOMAIN waiting'[g] :
               waiting'[g][i] = work \/ \E h \in DOMAIN waiting : \E j \in DOMAIN waiting[h] : waiting'[g][i] = waiting[h][j]
         /\ n \in Deferred(waiting') /\ Deferred(waiting) \subseteq Deferred(waiting')
    <2>1. Groups(waiting) /\ S \in SUBSET (DOMAIN waiting) /\ work.node = n
      BY <1>2, <1>3 DEF RunInv, Waiting
    <2> QED
      BY <1>4, <2>1, GroupsGrow
  <1>12. /\ ready' \in Seq(Nodes) /\ \A i \in DOMAIN ready' : i + 1 \in DOMAIN ready /\ ready'[i] = ready[i + 1]
         /\ \A m \in Range(ready) : m = n \/ m \in Range(ready')
    <2>1. ready \in Seq(Nodes) /\ IsSequence(ready)
      BY AnySequence DEF RunInv, Waiting
    <2>2. /\ \A i \in DOMAIN Tail(ready) : i + 1 \in DOMAIN ready /\ Tail(ready)[i] = ready[i + 1]
          /\ \A i \in DOMAIN ready : i = 1 \/ (i - 1 \in DOMAIN Tail(ready) /\ Tail(ready)[i - 1] = ready[i])
          /\ Head(ready) = ready[1]
      BY <1>5, <2>1, TailFacts
    <2>3. ready' = Tail(ready) /\ n = ready[1] /\ Tail(ready) \in Seq(Nodes)
      BY <1>4, <1>5, <2>1, <2>2
    <2>4. ASSUME NEW m \in Range(ready), m # n PROVE m \in Range(ready')
      <3>1. PICK i \in DOMAIN ready : ready[i] = m
        BY DEF Range
      <3>2. i - 1 \in DOMAIN ready' /\ ready'[i - 1] = m
        BY <2>2, <2>3, <2>4, <3>1
      <3> QED
        BY <3>2 DEF Range
    <2> QED
      BY <2>2, <2>3, <2>4
  <1>13. Waiting'
    <2>1. ASSUME NEW g \in DOMAIN waiting', NEW i \in DOMAIN waiting'[g] PROVE IsWork(waiting[g][i])'
      <3>1. \A w : IsWork(w) => IsWork(w)'
        BY <1>5, <1>6, GrowthKeeps
      <3>2. PICK w : w = waiting'[g][i]
        OBVIOUS
      <3>3. IsWork(w)
        <4>1. \A h \in DOMAIN waiting : \A j \in DOMAIN waiting[h] : IsWork(waiting[h][j])
          BY DEF RunInv, Waiting
        <4> QED
          BY <1>8, <1>11, <3>2, <4>1
      <3> QED
        BY <3>1, <3>2, <3>3
    <2>2. Groups(batch') /\ \A m \in Deferred(batch') : Due(m)'
      BY <1>4, GraphStays DEF Due, RunInv, Waiting
    <2>3. ASSUME NEW i \in DOMAIN ready' PROVE ParentSet(ready[i])' \subseteq DOMAIN evaluated'
      <3>1. ParentSet(ready[i + 1]) \subseteq DOMAIN evaluated
        BY <1>12 DEF RunInv, Waiting
      <3> QED
        BY <1>4, <1>12, <3>1, GraphStays
    <2>4. ready' \in Seq(Nodes')
      BY <1>4, <1>12, GraphStays
    <2> QED
      BY <1>11, <2>1, <2>2, <2>3, <2>4 DEF Waiting
  <1>14. Scheduled'
    <2>1. batch = <<>>
      BY <1>5 DEF RunInv, Scheduled
    <2>2. ASSUME NEW m \in Nodes \ DOMAIN evaluated, ParentSet(m) \subseteq DOMAIN evaluated
          PROVE  m \in Range(ready') \cup Deferred(waiting') \cup Deferred(batch')
      <3>1. m \in Range(ready) \cup Deferred(waiting) \cup Deferred(batch)
        BY <1>4, <2>2 DEF RunInv, Scheduled
      <3> QED
        BY <1>4, <1>11, <1>12, <3>1
    <2>3. Frontiers' /\ phase' = "planning"
      BY <1>4, <1>5 DEF Frontiers
    <2> QED
      BY <1>4, <2>1, <2>2, <2>3, GraphStays DEF Scheduled
  <1>15. RunTyped'
    BY <1>4 DEF RunInv, RunTyped, IsGraph
  <1> QED
    BY <1>4, <1>9, <1>10, <1>13, <1>14, <1>15 DEF RunInv

LEMMA LargestPosition ==
    ASSUME NEW k \in Nat, NEW S \in SUBSET (1 .. k), S # {}
    PROVE  Max(S) \in S
  <1> DEFINE T == {k - i : i \in S}
  <1>1. T \in SUBSET Nat /\ T # {}
    <2>1. ASSUME NEW i \in S PROVE k - i \in Nat
      <3>1. i \in 1 .. k
        OBVIOUS
      <3> QED
        BY <3>1
    <2> QED
      BY <2>1
  <1> HIDE DEF T
  <1>2. PICK t \in T : \A u \in T : t <= u
    BY <1>1, LeastNumber
  <1>3. PICK i \in S : t = k - i
    BY <1>2 DEF T
  <1>4. \A j \in S : i >= j
    <2>1. ASSUME NEW j \in S PROVE i >= j
      <3>1. k - i <= k - j
        BY <1>2, <1>3 DEF T
      <3> QED
        BY <3>1
    <2> QED
      BY <2>1
  <1> QED
    BY <1>4 DEF Max

LEMMA BatchSizeFacts ==
    ASSUME IsSequence(waiting), waiting # <<>>, workers \in Nat \ {0}
    PROVE  BatchSize \in 1 .. Len(waiting)
  <1>1. Len(waiting) \in Nat /\ Len(waiting) >= 1
    BY SequenceFacts
  <1> DEFINE room == Min({workers, Len(waiting)})
             S == {1} \cup {k \in 1 .. room :
                               FoldSeq(LAMBDA g, sum : sum + Required(g), 0, SubSeq(waiting, 1, k)) <= headroom}
  <1>2. room \in Nat /\ room <= Len(waiting)
    <2>1. {workers, Len(waiting)} \in SUBSET Nat
      BY <1>1
    <2> QED
      BY <2>1, MinOfNumbers
  <1>3. BatchSize = Max(S)
    BY DEF BatchSize
  <1> HIDE DEF room
  <1>4. S \in SUBSET (1 .. Len(waiting)) /\ S # {}
    <2>1. {1} \subseteq 1 .. Len(waiting) /\ 1 .. room \subseteq 1 .. Len(waiting)
      BY <1>1, <1>2
    <2>2. S \subseteq {1} \cup 1 .. room /\ 1 \in S
      BY Zenon
    <2> HIDE DEF S
    <2> QED
      BY <2>1, <2>2
  <1> HIDE DEF S
  <1>5. Max(S) \in S
    BY <1>1, <1>4, LargestPosition
  <1> QED
    BY <1>3, <1>4, <1>5

\* Work whose plans are refreshed computes nothing that is published.
LEMMA RefreshedFacts ==
    ASSUME IsGraph(graph), Published, Evaluated, Caches, NEW w, IsWork(w)
    PROVE  /\ Refreshed(w).node = w.node
           /\ \A r \in Range(Refreshed(w).prepared) : MayShare(r) /\ Computes(r)
  <1>1. PICK ps : ps = [i \in DOMAIN w.prepared |-> Refresh(w.prepared[i])]
    OBVIOUS
  <1>2. PICK rs : rs = PreparedPlans(w.node, ps)
    OBVIOUS
  <1>3. /\ DOMAIN w = {"node", "prepared"} /\ w.node \in Nodes /\ ParentSet(w.node) \subseteq DOMAIN evaluated
        /\ DOMAIN w.prepared = DOMAIN Parents(w.node)
        /\ \A j \in DOMAIN w.prepared : Kept(w.prepared[j], Parents(w.node)[j])
    BY DEF IsWork, Due
  <1>4. Refreshed(w) = [w EXCEPT !.prepared = rs]
    BY <1>1, <1>2 DEF Refreshed
  <1>5. Refreshed(w).node = w.node /\ Refreshed(w).prepared = rs
    BY <1>3, <1>4
  <1>6. AreGood(ps, w.node)
    <2>1. ASSUME NEW i \in DOMAIN Parents(w.node) PROVE Good(Refresh(w.prepared[i]), Parents(w.node)[i])
      <3>1. Parents(w.node)[i] \in Nodes
        BY <1>3, GraphFacts
      <3> QED
        BY <1>3, <3>1, RefreshFacts
    <2> QED
      BY <1>1, <1>3, <2>1 DEF AreGood
  <1>7. AreGood(rs, w.node)
    BY <1>2, <1>3, <1>6, PreparedPlansFacts
  <1> QED
    BY <1>3, <1>5, <1>7, ParentsMayShare

LEMMA StartBatchKeeps ==
    ASSUME RunInv, StartBatch
    PROVE  RunInv'
  <1>1. PICK b : b = BatchSize
    OBVIOUS
  <1>2. PICK groups : groups = [g \in 1 .. b |-> [i \in DOMAIN waiting[g] |-> Refreshed(waiting[g][i])]]
    OBVIOUS
  <1>3. PICK prepared : prepared = UNION {Range(Head(groups[g]).prepared) : g \in DOMAIN groups}
    OBVIOUS
  <1>4. /\ waiting # <<>> /\ phase' = "running"
        /\ phase = "batching" \/ (phase = "planning" /\ ready = <<>>)
        /\ batch' = groups /\ waiting' = SubSeq(waiting, b + 1, Len(waiting))
        /\ cached' = [cached EXCEPT !.own = Cache(prepared)]
        /\ recollected' = recollected \cup Repeats(prepared)
        /\ UNCHANGED <<graph, durable, workers, evaluated, pending, loaded, stored, evidence, results, ready>>
    BY <1>1, <1>2, <1>3 DEF StartBatch, scenario, store
  <1>5. /\ IsGraph(graph) /\ workers \in Nat \ {0} /\ Published /\ Pending /\ Evaluated /\ Caches /\ Waiting /\ Scheduled
        /\ Groups(waiting) /\ \A g \in DOMAIN waiting : \A i \in DOMAIN waiting[g] : IsWork(waiting[g][i])
    BY DEF RunInv, RunTyped, Waiting
  <1>6. /\ IsSequence(waiting) /\ Len(waiting) \in Nat /\ DOMAIN waiting = 1 .. Len(waiting)
        /\ \A g \in DOMAIN waiting : IsSequence(waiting[g]) /\ waiting[g] # <<>>
    BY <1>5, SequenceFacts DEF Groups
  <1>7. b \in 1 .. Len(waiting)
    BY <1>1, <1>4, <1>5, <1>6, BatchSizeFacts
  <1>8. /\ DOMAIN groups = 1 .. b /\ 1 .. b \subseteq DOMAIN waiting /\ b \in Nat /\ 1 \in 1 .. b
        /\ \A g \in 1 .. b : /\ DOMAIN groups[g] = DOMAIN waiting[g]
                             /\ \A i \in DOMAIN groups[g] : groups[g][i] = Refreshed(waiting[g][i])
    <2>1. 1 .. b \subseteq DOMAIN waiting /\ b \in Nat /\ 1 \in 1 .. b
      BY <1>6, <1>7
    <2> QED
      BY <1>2, <2>1
  <1>9. Groups(groups) /\ groups # <<>>
    <2>1. IsSequence(groups) /\ Len(groups) = b
      <3>1. groups = [g \in 1 .. b |-> groups[g]]
        BY <1>2, <1>8
      <3> QED
        BY <1>8, <3>1, FunctionIsSequence
    <2>2. ASSUME NEW g \in 1 .. b PROVE IsSequence(groups[g]) /\ groups[g] # <<>>
      <3>1. IsSequence(waiting[g]) /\ waiting[g] # <<>>
        BY <1>6, <1>8
      <3>2. PICK k \in Nat : DOMAIN waiting[g] = 1 .. k /\ 1 \in 1 .. k
        BY <3>1, SequenceFacts
      <3>3. groups[g] = [i \in 1 .. k |-> Refreshed(waiting[g][i])]
        BY <1>2, <3>2
      <3>4. groups[g] = [i \in 1 .. k |-> groups[g][i]] /\ DOMAIN groups[g] = 1 .. k
        BY <3>3
      <3>5. IsSequence(groups[g])
        BY <3>4, FunctionIsSequence
      <3>6. groups[g] # <<>>
        BY <3>2, <3>4
      <3> QED
        BY <3>5, <3>6
    <2>3. groups # <<>>
      BY <1>8
    <2> QED
      BY <1>8, <2>1, <2>2, <2>3 DEF Groups
  <1>10. \A r \in prepared : MayShare(r) /\ Computes(r)
    <2>1. ASSUME NEW g \in 1 .. b, NEW r \in Range(Head(groups[g]).prepared) PROVE MayShare(r) /\ Computes(r)
      <3>1. IsSequence(groups[g]) /\ groups[g] # <<>>
        BY <1>8, <1>9 DEF Groups
      <3>2. 1 \in DOMAIN groups[g] /\ Head(groups[g]) = groups[g][1]
        BY <3>1, SequenceFacts
      <3>3. Head(groups[g]) = Refreshed(waiting[g][1]) /\ IsWork(waiting[g][1])
        BY <1>5, <1>8, <3>2
      <3>4. \A s \in Range(Refreshed(waiting[g][1]).prepared) : MayShare(s) /\ Computes(s)
        BY <1>5, <3>3, RefreshedFacts
      <3> QED
        BY <3>3, <3>4
    <2> QED
      BY <1>3, <1>8, <2>1
  <1>11. Grows /\ Published' /\ Pending' /\ Evaluated'
    BY <1>4, <1>5, PlansStay
  <1>12. Caches'
    <2>1. DOMAIN cached' = {"own", "physical"} /\ cached'.own = Cache(prepared) /\ cached'.physical = cached.physical
      BY <1>4, <1>5 DEF Caches
    <2>2. \A q \in results' : ~ HasEvidence(q)
      BY <1>4, <1>5 DEF Caches
    <2> QED
      BY <1>5, <1>10, <1>11, <2>1, <2>2, CachesGrow
  <1>13. /\ IsSequence(waiting')
         /\ \A i \in DOMAIN waiting' : i + b \in DOMAIN waiting /\ waiting'[i] = waiting[i + b]
         /\ \A i \in DOMAIN waiting : i <= b \/ (i - b \in DOMAIN waiting' /\ waiting'[i - b] = waiting[i])
    <2>1. b \in 0 .. Len(waiting)
      BY <1>6, <1>7
    <2> QED
      BY <1>4, <1>6, <2>1, RestFacts
  <1>14. Deferred(batch') \subseteq Deferred(waiting) /\ Deferred(waiting) \subseteq Deferred(waiting') \cup Deferred(batch')
    <2>1. ASSUME NEW g \in 1 .. b, NEW i \in DOMAIN groups[g]
          PROVE  groups[g][i].node = waiting[g][i].node
      BY <1>5, <1>8, RefreshedFacts
    <2>2. ASSUME NEW g \in DOMAIN groups, NEW i \in DOMAIN groups[g] PROVE groups[g][i].node \in Deferred(waiting)
      BY <1>8, <2>1 DEF Deferred
    <2>3. ASSUME NEW g \in DOMAIN waiting, NEW i \in DOMAIN waiting[g]
          PROVE  waiting[g][i].node \in Deferred(waiting') \cup Deferred(batch')
      <3>1. CASE g <= b
        <4>1. g \in 1 .. b
          BY <1>6, <1>8, <3>1
        <4> QED
          BY <1>4, <1>8, <2>1, <4>1 DEF Deferred
      <3>2. CASE g - b \in DOMAIN waiting' /\ waiting'[g - b] = waiting[g]
        BY <3>2 DEF Deferred
      <3> QED
        BY <1>13, <3>1, <3>2
    <2>4. Deferred(batch') \subseteq Deferred(waiting)
      BY <1>4, <2>2 DEF Deferred
    <2> QED
      BY <2>3, <2>4 DEF Deferred
  <1>15. Waiting'
    <2>1. Groups(waiting') /\ Groups(batch')
      BY <1>4, <1>6, <1>9, <1>13 DEF Groups
    <2>2. ASSUME NEW g \in DOMAIN waiting', NEW i \in DOMAIN waiting'[g] PROVE IsWork(waiting[g][i])'
      <3>1. PICK w : w = waiting'[g][i]
        OBVIOUS
      <3>2. IsWork(w)
        BY <1>5, <1>13, <3>1
      <3>3. IsWork(w)'
        BY <1>5, <1>11, <3>2, GrowthKeeps
      <3> QED
        BY <3>1, <3>3
    <2>3. ASSUME NEW m \in Deferred(batch') PROVE Due(m)'
      <3>1. m \in Deferred(waiting)
        BY <1>14
      <3>2. PICK g \in DOMAIN waiting : \E i \in DOMAIN waiting[g] : m = waiting[g][i].node
        BY <3>1 DEF Deferred
      <3>3. Due(m)
        BY <1>5, <3>2 DEF IsWork
      <3> QED
        BY <1>5, <1>11, <3>3, GrowthKeeps
    <2>4. ready' \in Seq(Nodes') /\ \A i \in DOMAIN ready' : ParentSet(ready[i])' \subseteq DOMAIN evaluated'
      BY <1>4, <1>5, GraphStays DEF Waiting
    <2> QED
      BY <2>1, <2>2, <2>3, <2>4 DEF Waiting
  <1>16. Scheduled'
    <2>1. batch = <<>>
      BY <1>4, <1>5 DEF Scheduled
    <2>2. Deferred(batch) = {}
      BY <2>1 DEF Deferred
    <2>3. Frontiers /\ Frontiers'
      BY <1>4, <1>5 DEF Scheduled, Frontiers
    <2>4. ASSUME NEW m \in Nodes \ DOMAIN evaluated, ParentSet(m) \subseteq DOMAIN evaluated
          PROVE  m \in Range(ready') \cup Deferred(waiting') \cup Deferred(batch')
      <3>1. m \in Range(ready) \cup Deferred(waiting) \cup Deferred(batch)
        BY <1>5, <2>3, <2>4 DEF Scheduled
      <3> QED
        BY <1>4, <1>14, <2>2, <3>1
    <2> QED
      BY <1>4, <1>9, <2>3, <2>4, GraphStays DEF Scheduled
  <1>17. recollected' = {}
    BY <1>4, <1>5, <1>10, NothingRepeats DEF RunInv
  <1>18. RunTyped'
    BY <1>4 DEF RunInv, RunTyped, IsGraph
  <1> QED
    BY <1>11, <1>12, <1>15, <1>16, <1>17, <1>18 DEF RunInv

\* Steps that neither plan nor defer.
LEMMA WaitingStays ==
    ASSUME IsGraph(graph), Waiting, Grows, UNCHANGED <<evaluated, ready, waiting, batch>>
    PROVE  Waiting'
  <1>1. ASSUME NEW g \in DOMAIN waiting, NEW i \in DOMAIN waiting[g] PROVE IsWork(waiting[g][i])'
    <2>1. IsWork(waiting[g][i])
      BY DEF Waiting
    <2>2. \A w : IsWork(w) => IsWork(w)'
      BY GrowthKeeps
    <2> QED
      BY <2>1, <2>2
  <1>2. ASSUME NEW m \in Deferred(batch) PROVE Due(m)'
    <2>1. Due(m)
      BY DEF Waiting
    <2> QED
      BY <2>1, GrowthKeeps
  <1>3. UNCHANGED <<graph, durable>>
    BY DEF Grows
  <1> QED
    BY <1>1, <1>2, <1>3, GraphStays DEF Waiting

LEMMA KernelEndsKeeps ==
    ASSUME RunInv, NEW g, KernelEnds(g)
    PROVE  RunInv'
  <1>1. UNCHANGED <<graph, durable, workers, phase, evaluated, pending, loaded, stored, evidence, cached, results,
                    ready, waiting, batch, recollected>>
    BY DEF KernelEnds, scenario, store
  <1>2. RunTyped'
    BY <1>1 DEF RunInv, RunTyped, IsGraph
  <1>3. Grows /\ Published' /\ Pending' /\ Evaluated' /\ Caches' /\ Waiting'
    BY <1>1, PlansStay, CachesStay, WaitingStays DEF RunInv, RunTyped
  <1>4. Scheduled'
    BY <1>1, GraphStays DEF RunInv, Scheduled, Frontiers
  <1> QED
    BY <1>1, <1>2, <1>3, <1>4 DEF RunInv

LEMMA FailKeeps ==
    ASSUME RunInv, Fail
    PROVE  RunInv'
  <1>1. /\ phase' = "failed"
        /\ UNCHANGED <<graph, durable, workers, evaluated, pending, loaded, stored, evidence, cached, results,
                       ready, waiting, batch, recollected>>
    BY DEF Fail, scenario, store, schedule
  <1>2. RunTyped'
    BY <1>1 DEF RunInv, RunTyped, IsGraph
  <1>3. Grows /\ Published' /\ Pending' /\ Evaluated' /\ Caches' /\ Waiting'
    BY <1>1, PlansStay, CachesStay, WaitingStays DEF RunInv, RunTyped
  <1>4. Scheduled'
    BY <1>1, GraphStays DEF RunInv, Scheduled, Frontiers
  <1> QED
    BY <1>1, <1>2, <1>3, <1>4 DEF RunInv

LEMMA HeadAndTail ==
    ASSUME NEW s, IsSequence(s), s # <<>>
    PROVE  Range(s) = {Head(s)} \cup Range(Tail(s))
  <1>1. /\ \A i \in DOMAIN Tail(s) : i + 1 \in DOMAIN s /\ Tail(s)[i] = s[i + 1]
        /\ \A i \in DOMAIN s : i = 1 \/ (i - 1 \in DOMAIN Tail(s) /\ Tail(s)[i - 1] = s[i])
        /\ Head(s) = s[1] /\ 1 \in DOMAIN s
    BY TailFacts
  <1>2. ASSUME NEW i \in DOMAIN s PROVE s[i] \in {Head(s)} \cup Range(Tail(s))
    <2>1. CASE i = 1
      BY <1>1, <2>1
    <2>2. CASE i - 1 \in DOMAIN Tail(s) /\ Tail(s)[i - 1] = s[i]
      BY <2>2 DEF Range
    <2> QED
      BY <1>1, <2>1, <2>2
  <1>3. ASSUME NEW i \in DOMAIN Tail(s) PROVE Tail(s)[i] \in Range(s)
    BY <1>1 DEF Range
  <1>4. Head(s) \in Range(s)
    BY <1>1 DEF Range
  <1>5. Range(Tail(s)) \subseteq Range(s)
    BY <1>3 DEF Range
  <1>6. Range(s) \subseteq {Head(s)} \cup Range(Tail(s))
    BY <1>2 DEF Range
  <1> QED
    BY <1>4, <1>5, <1>6

NodesOf(group) == {group[i].node : i \in DOMAIN group}

LEMMA DeferredNodes == ASSUME NEW groups PROVE Deferred(groups) = UNION {NodesOf(h) : h \in Range(groups)}
  BY DEF Deferred, NodesOf, Range

LEMMA NodesOfRange == ASSUME NEW group PROVE NodesOf(group) = {w.node : w \in Range(group)}
  BY DEF NodesOf, Range

\* What is left to merge after the first node.
Unmerged(groups) ==
    IF Tail(Head(groups)) = <<>> THEN Tail(groups) ELSE <<Tail(Head(groups))>> \o Tail(groups)

LEMMA UnmergedFacts ==
    ASSUME NEW groups, Groups(groups), groups # <<>>
    PROVE  /\ Groups(Unmerged(groups))
           /\ Head(Head(groups)).node \in Deferred(groups)
           /\ Deferred(groups) = {Head(Head(groups)).node} \cup Deferred(Unmerged(groups))
  <1> DEFINE first == Head(groups)
             left == Tail(first)
             rest == Tail(groups)
             n == Head(first).node
             alone == <<left>>
  <1>1. /\ IsSequence(groups) /\ IsSequence(rest)
        /\ Range(groups) = {first} \cup Range(rest)
        /\ \A h \in Range(groups) : IsSequence(h) /\ h # <<>>
    <2>1. \A h \in Range(groups) : IsSequence(h) /\ h # <<>>
      BY DEF Groups, Range
    <2> QED
      BY <2>1, HeadAndTail, TailFacts DEF Groups
  <1> HIDE DEF first, rest
  <1>2. IsSequence(first) /\ first # <<>> /\ IsSequence(left) /\ Range(first) = {Head(first)} \cup Range(left)
    <2>1. IsSequence(first) /\ first # <<>>
      BY <1>1
    <2> QED
      BY <2>1, HeadAndTail, TailFacts
  <1> HIDE DEF left
  <1>3. NodesOf(first) = {n} \cup NodesOf(left)
    BY <1>2, NodesOfRange
  <1> HIDE DEF n
  <1>4. Deferred(groups) = {n} \cup NodesOf(left) \cup Deferred(rest)
    <2>1. Deferred(groups) = UNION {NodesOf(h) : h \in Range(groups)} /\ Deferred(rest) = UNION {NodesOf(h) : h \in Range(rest)}
      BY DeferredNodes
    <2> QED
      BY <1>1, <1>3, <2>1
  <1>5. CASE left = <<>>
    <2>1. Unmerged(groups) = rest
      BY <1>5 DEF Unmerged, left, first, rest
    <2>2. NodesOf(left) = {}
      BY <1>5 DEF NodesOf
    <2>3. Groups(rest)
      BY <1>1 DEF Groups, Range
    <2> QED
      BY <1>4, <2>1, <2>2, <2>3 DEF n, first
  <1>6. CASE left # <<>>
    <2>1. Unmerged(groups) = alone \o rest
      BY <1>6 DEF Unmerged, left, first, rest
    <2> DEFINE S == {left} \cup Range(rest)
    <2>2. alone \in Seq(S) /\ Range(alone) = {left}
      <3>1. alone \in Seq(S) /\ DOMAIN alone = {1} /\ alone[1] = left
        OBVIOUS
      <3> QED
        BY <3>1 DEF Range
    <2>3. rest \in Seq(S)
      <3>1. rest \in Seq(Range(rest)) /\ Range(rest) \subseteq S
        BY <1>1 DEF IsSequence
      <3> HIDE DEF S
      <3> QED
        BY <3>1, WiderSequence
    <2> HIDE DEF alone, S
    <2>4. alone \o rest \in Seq(S) /\ Range(alone \o rest) = {left} \cup Range(rest)
      BY <2>2, <2>3, JoinedFacts
    <2> DEFINE later == alone \o rest
    <2>5. later \in Seq(S) /\ Range(later) = {left} \cup Range(rest)
      BY <2>4
    <2> HIDE DEF later
    <2>6. IsSequence(later)
      BY <2>5, AnySequence
    <2>7. \A h \in Range(later) : IsSequence(h) /\ h # <<>>
      BY <1>1, <1>2, <1>6, <2>5
    <2>8. Groups(later)
      BY <2>6, <2>7 DEF Groups, Range
    <2>9. Deferred(later) = NodesOf(left) \cup Deferred(rest)
      <3>1. Deferred(later) = UNION {NodesOf(h) : h \in Range(later)} /\ Deferred(rest) = UNION {NodesOf(h) : h \in Range(rest)}
        BY DeferredNodes
      <3> QED
        BY <2>5, <3>1
    <2>10. Unmerged(groups) = later
      BY <2>1 DEF later
    <2> QED
      BY <1>4, <2>8, <2>9, <2>10 DEF n, first
  <1> QED
    BY <1>5, <1>6

LEMMA MergeKeeps ==
    ASSUME RunInv, NEW n, Merge(n)
    PROVE  RunInv'
  <1>1. /\ phase = "running" /\ n = Head(Head(batch)).node /\ ~ MustPublish(n)
        /\ batch' = Unmerged(batch)
        /\ phase' = IF batch' # <<>> THEN "running" ELSE IF waiting # <<>> THEN "batching" ELSE "planning"
        /\ IF Hits(n) THEN SettleStored(n, Evidenced(n), ready)
           ELSE SettleEager(n, PreparedPlans(n, ParentPlans(n)), ready) /\ evidence' = Evidenced(n)
        /\ UNCHANGED <<graph, durable, workers, waiting, recollected>>
    BY DEF Merge, DueToMerge, Unmerged, scenario
  <1>2. /\ IsGraph(graph) /\ durable \in BOOLEAN /\ Published /\ Pending /\ Evaluated /\ Caches /\ Waiting /\ Scheduled
        /\ batch # <<>> /\ Groups(batch) /\ \A m \in Deferred(batch) : Due(m)
    BY <1>1 DEF RunInv, RunTyped, Waiting, Scheduled
  <1>3. Groups(batch') /\ n \in Deferred(batch) /\ Deferred(batch) = {n} \cup Deferred(batch')
    BY <1>1, <1>2, UnmergedFacts
  <1>4. n \in Nodes /\ ParentSet(n) \subseteq DOMAIN evaluated /\ ~ IsInput(n)
    BY <1>2, <1>3 DEF Due, IsInput, Inputs, Eager
  <1>5. evidence \subseteq Evidenced(n) /\ (HasEvidence(n) => Physical(n) \in Evidenced(n))
    BY EvidencedFacts
  <1>6. /\ Held /\ DOMAIN evaluated' = DOMAIN evaluated \cup {n}
        /\ ready' = IF Frontiers THEN ready \o Released(n) ELSE ready
    <2>1. CASE Hits(n)
      <3>1. PICK held : held = Evidenced(n)
        OBVIOUS
      <3>2. SettleStored(n, held, ready)
        BY <1>1, <2>1, <3>1
      <3>3. Held
        BY <1>1, <1>2, <1>4, <1>5, <2>1, <3>1, <3>2, SettleStoredKeeps
      <3> QED
        BY <3>2, <3>3 DEF SettleStored, Settle, Over
    <2>2. CASE ~ Hits(n)
      <3>1. SettleEager(n, PreparedPlans(n, ParentPlans(n)), ready) /\ evidence' = Evidenced(n)
        BY <1>1, <2>2
      <3>2. Proven(n)'
        BY <1>1, <1>5, <3>1, GraphStays DEF Proven
      <3>3. Held
        BY <1>1, <1>2, <1>4, <1>5, <2>2, <3>1, <3>2, SettleEagerKeeps
      <3> QED
        BY <3>1, <3>3 DEF SettleEager, SettlePlan, Settle, Over
    <2> QED
      BY <2>1, <2>2
  <1>7. ready \in Seq(Nodes)
    BY <1>2 DEF Waiting
  <1>8. Waiting'
    <2>1. Grows /\ \A m \in Deferred(batch') : m \in Deferred(batch)
      BY <1>3, <1>6 DEF Held
    <2> QED
      BY <1>1, <1>2, <1>3, <1>4, <1>6, <1>7, <2>1, WaitingKept
  <1>9. Scheduled'
    <2>1. \A m \in Deferred(batch) : m = n \/ m \in Deferred(batch')
      BY <1>3
    <2>2. Nodes' = Nodes /\ Frontiers' = Frontiers /\ \A m : ParentSet(m)' = ParentSet(m)
      BY <1>1, GraphStays DEF Frontiers
    <2>3. ASSUME Frontiers, NEW m \in Nodes \ DOMAIN evaluated', ParentSet(m) \subseteq DOMAIN evaluated'
          PROVE  m \in Range(ready') \cup Deferred(waiting') \cup Deferred(batch')
      BY <1>1, <1>2, <1>4, <1>6, <1>7, <2>1, <2>3, NoneForgotten
    <2>4. ~ Frontiers => ready' = <<>> /\ waiting' = <<>>
      BY <1>1, <1>2, <1>6 DEF Scheduled
    <2>5. /\ phase' \in {"planning", "batching"} => batch' = <<>>
          /\ phase' = "running" => batch' # <<>>
          /\ phase' # "done"
      BY <1>1
    <2> QED
      BY <2>2, <2>3, <2>4, <2>5 DEF Scheduled
  <1>10. RunTyped'
    BY <1>1 DEF RunInv, RunTyped, IsGraph
  <1> QED
    BY <1>1, <1>6, <1>8, <1>9, <1>10 DEF RunInv, Held

-----------------------------------------------------------------------------
(* Publication. *)

LEMMA SavedFacts ==
    ASSUME IsGraph(graph), Published, Pending, NEW k \in 0 .. Len(pending),
           UNCHANGED <<graph, evidence>>, stored' = Saved(k)
    PROVE  /\ DOMAIN stored' = {pending[i].phys : i \in 1 .. k} \cup DOMAIN stored
           /\ \A q \in DOMAIN stored' : IsRecord(q)'
  <1>1. Len(pending) \in Nat /\ DOMAIN pending = 1 .. Len(pending) /\ 1 .. k \subseteq DOMAIN pending
    BY SequenceFacts DEF Pending
  <1>2. DOMAIN stored' = {pending[i].phys : i \in 1 .. k} \cup DOMAIN stored
    BY DEF Saved, Over
  <1>3. ASSUME NEW q \in {pending[i].phys : i \in 1 .. k}
        PROVE  \E i \in 1 .. k : pending[i].phys = q /\ stored'[q] = [plan |-> Frozen(pending[i], q), evidence |-> q \in evidence]
    <2> DEFINE i == CHOOSE j \in 1 .. k : pending[j].phys = q
    <2>1. i \in 1 .. k /\ pending[i].phys = q
      OBVIOUS
    <2>2. stored'[q] = [plan |-> Frozen(pending[i], q), evidence |-> q \in evidence]
      BY DEF Saved, Over
    <2> QED
      BY <2>1, <2>2
  <1>4. ASSUME NEW q \in {pending[i].phys : i \in 1 .. k} PROVE IsRecord(q)'
    <2>1. PICK i \in 1 .. k : pending[i].phys = q /\ stored'[q] = [plan |-> Frozen(pending[i], q), evidence |-> q \in evidence]
      BY <1>3
    <2>2. PICK p : p = pending[i]
      OBVIOUS
    <2>3. Awaiting(p)
      BY <1>1, <2>2 DEF Pending
    <2>4. PICK m \in Nodes : IsPlan(p, m)
      BY <2>3 DEF Awaiting, Good
    <2>5. p.phys = q /\ q = Physical(m)
      BY <2>1, <2>2, <2>4 DEF IsPlan
    <2>6. PICK f : f = Frozen(p, q)
      OBVIOUS
    <2>7. DOMAIN f = PlanFields /\ f.phys = q /\ f.lineage = {} /\ f.traced \in BOOLEAN /\ (f.traced <=> q \in HaveTraces)
      BY <2>4, <2>5, <2>6, FrozenFacts
    <2>8. stored'[q].plan = f /\ (q \in evidence => stored'[q].evidence)
      <3>1. stored'[q].plan = f
        BY <2>1, <2>2, <2>6
      <3>2. stored'[q].evidence = (q \in evidence)
        <4>1. \A r, a, b : r = [plan |-> a, evidence |-> b] => r.evidence = b
          OBVIOUS
        <4> QED
          BY <2>1, <4>1, Zenon
      <3> QED
        BY <3>1, <3>2, Zenon
    <2>9. HasEvidence(q) => q \in evidence
      BY <2>3, <2>5 DEF Awaiting
    <2> QED
      BY <2>7, <2>8, <2>9, GraphStays DEF IsRecord
  <1>5. ASSUME NEW q \in DOMAIN stored, q \notin {pending[i].phys : i \in 1 .. k} PROVE IsRecord(q)'
    <2>1. stored'[q] = stored[q]
      BY <1>5 DEF Saved, Over
    <2>2. IsRecord(q)
      BY DEF Published
    <2> QED
      BY <2>1, <2>2, GraphStays DEF IsRecord
  <1> QED
    BY <1>2, <1>4, <1>5

LEMMA RenamedFacts ==
    ASSUME IsGraph(graph), NEW m \in Nodes, NEW q, q = Physical(m), NEW s,
           DOMAIN s = PlanFields, s.phys = q, s.lineage = {}, s.traced \in BOOLEAN, s.traced <=> q \in HaveTraces,
           NEW id \in Seq(Nodes \cup Forms), Len(id) > 0, id[1] = m
    PROVE  IsPlan([s EXCEPT !.id = id], m) /\ [s EXCEPT !.id = id].lineage = {}
  <1> DEFINE p == [s EXCEPT !.id = id]
  <1>1. DOMAIN p = PlanFields /\ p.id = id /\ p.phys = s.phys /\ p.lineage = s.lineage /\ p.traced = s.traced
    BY DEF PlanFields
  <1> HIDE DEF p
  <1>2. IsPlan(p, m) /\ p.lineage = {}
    BY <1>1, TwinsHaveTraces DEF IsPlan
  <1> QED
    BY <1>2 DEF p

LEMMA PublishKeeps ==
    ASSUME RunInv, Publish
    PROVE  RunInv'
  <1>1. PICK identities : identities = {pending[i].phys : i \in DOMAIN pending}
    OBVIOUS
  <1>2. /\ PublicationDue
        /\ stored' = Saved(Len(pending)) /\ loaded' = loaded \cup identities /\ pending' = <<>>
        /\ evaluated' = [n \in DOMAIN evaluated |->
                            IF evaluated[n].phys \in loaded'
                            THEN [stored'[evaluated[n].phys].plan EXCEPT !.id = evaluated[n].id] ELSE evaluated[n]]
        /\ cached' = NothingCached /\ results' = {}
        /\ recollected' = recollected \cup Repeats(Range(pending))
        /\ UNCHANGED <<graph, durable, workers, phase, evidence, ready, waiting, batch>>
    BY <1>1 DEF Publish, scenario, schedule
  <1>3. /\ IsGraph(graph) /\ durable /\ Published /\ Pending /\ Evaluated /\ Waiting /\ Scheduled /\ RunTyped
    BY <1>2 DEF RunInv, RunTyped, PublicationDue
  <1>4. Len(pending) \in Nat /\ DOMAIN pending = 1 .. Len(pending) /\ Len(pending) \in 0 .. Len(pending)
    BY <1>3, SequenceFacts DEF Pending
  <1>5. \A q : IsPending(q) <=> q \in identities
    BY <1>1 DEF IsPending
  <1>6. DOMAIN stored' = identities \cup DOMAIN stored /\ \A q \in DOMAIN stored' : IsRecord(q)'
    BY <1>1, <1>2, <1>3, <1>4, SavedFacts
  <1>7. \A q : ~ IsPending(q)'
    BY <1>2 DEF IsPending
  <1>8. Published'
    <2>1. ASSUME NEW q \in loaded' PROVE q \in DOMAIN stored' /\ (HasEvidence(q) => q \in evidence)
      <3>1. CASE q \in loaded
        BY <1>3, <1>6, <3>1 DEF Published
      <3>2. CASE q \in identities
        <4>1. PICK i \in DOMAIN pending : pending[i].phys = q
          BY <1>1, <3>2
        <4>2. Awaiting(pending[i])
          BY <1>3 DEF Pending
        <4> QED
          BY <1>6, <3>2, <4>1, <4>2 DEF Awaiting
      <3> QED
        BY <1>2, <3>1, <3>2
    <2> QED
      BY <1>2, <1>3, <1>6, <1>7, <2>1, GraphStays DEF Published
  <1>9. Pending'
    <2>1. <<>> \in Seq({}) /\ Len(<<>>) = 0 /\ DOMAIN <<>> = {}
      OBVIOUS
    <2>2. IsSequence(<<>>)
      BY <2>1, AnySequence
    <2> QED
      BY <1>2, <2>1, <2>2 DEF Pending
  <1>10. ASSUME NEW n \in DOMAIN evaluated
         PROVE  /\ n \in Nodes /\ evaluated[n].phys = Physical(n) /\ IsPlan(evaluated[n], n)
                /\ ParentSet(n) \subseteq DOMAIN evaluated /\ Proven(n)
                /\ IsInput(n) => evaluated[n].lineage = {}
                /\ ~ IsInput(n) => Physical(n) \in loaded'
    <2>1. IsEvaluated(n) /\ n \in Nodes
      BY <1>3 DEF Evaluated
    <2>2. ~ IsInput(n) => Physical(n) \in loaded'
      BY <1>2, <1>3, <1>5, <2>1 DEF IsEvaluated, Recorded
    <2> QED
      BY <2>1, <2>2 DEF IsEvaluated, Good, IsPlan
  <1>11. Evaluated'
    <2>1. ASSUME NEW n \in DOMAIN evaluated PROVE IsEvaluated(n)'
      <3>1. PICK e : e = evaluated[n]
        OBVIOUS
      <3>2. PICK s : s = stored'[Physical(n)].plan
        OBVIOUS
      <3>3. PICK p : p = evaluated'[n]
        OBVIOUS
      <3>4. p = IF Physical(n) \in loaded' THEN [s EXCEPT !.id = e.id] ELSE e
        BY <1>2, <1>10, <3>1, <3>2, <3>3
      <3>5. IsPlan(p, n) /\ p.lineage = {}
        <4>1. CASE Physical(n) \in loaded'
          <5>1. Physical(n) \in DOMAIN stored'
            BY <1>8, <4>1 DEF Published
          <5>2. IsRecord(Physical(n))'
            BY <1>2, <1>6, <5>1, GraphStays
          <5>3. DOMAIN s = PlanFields /\ s.phys = Physical(n) /\ s.lineage = {} /\ s.traced \in BOOLEAN
                /\ (s.traced <=> Physical(n) \in HaveTraces)
            BY <1>2, <3>2, <5>2, GraphStays DEF IsRecord
          <5>4. e.id \in Seq(Nodes \cup Forms) /\ Len(e.id) > 0 /\ e.id[1] = n /\ n \in Nodes
            BY <1>10, <3>1 DEF IsPlan
          <5>5. IsPlan([s EXCEPT !.id = e.id], n) /\ [s EXCEPT !.id = e.id].lineage = {}
            BY <1>3, <5>3, <5>4, RenamedFacts
          <5> QED
            BY <3>4, <4>1, <5>5
        <4>2. CASE Physical(n) \notin loaded'
          BY <1>10, <3>1, <3>4, <4>2
        <4> QED
          BY <4>1, <4>2
      <3>6. Good(p, n)'
        BY <1>2, <3>5, GraphStays DEF Good, Computes
      <3>7. Recorded(n)'
        BY <1>2, <1>10, GraphStays DEF Recorded
      <3>8. Proven(n)' /\ ParentSet(n)' \subseteq DOMAIN evaluated'
        BY <1>2, <1>10, GraphStays DEF Proven
      <3> QED
        BY <3>3, <3>6, <3>7, <3>8 DEF IsEvaluated
    <2> QED
      BY <1>2, <1>10, <2>1, GraphStays DEF Evaluated
  <1>12. Caches'
    BY <1>2 DEF Caches, NothingCached
  <1>13. Waiting'
    <2>1. ASSUME NEW m \in DOMAIN evaluated, NEW p, Kept(p, m) PROVE Kept(p, m)'
      <3>1. IsPlan(p, m)'
        BY <1>2, <2>1, GraphStays DEF Kept
      <3>2. CASE Physical(m) \in loaded'
        BY <1>2, <3>1, <3>2, GraphStays DEF Kept
      <3>3. CASE Physical(m) \notin loaded'
        <4>1. IsInput(m) /\ Good(p, m)
          BY <1>2, <1>10, <2>1, <3>3 DEF Kept
        <4>2. Good(p, m)'
          BY <1>2, <3>1, <4>1, GraphStays DEF Good, Computes
        <4> QED
          BY <3>1, <4>2 DEF Kept
      <3> QED
        BY <3>2, <3>3
    <2>2. \A m : Due(m) => Due(m)'
      BY <1>2, GraphStays DEF Due
    <2>3. ASSUME NEW w, IsWork(w) PROVE IsWork(w)'
      <3>1. /\ DOMAIN w = {"node", "prepared"} /\ Due(w.node) /\ DOMAIN w.prepared = DOMAIN Parents(w.node)
            /\ \A j \in DOMAIN w.prepared : Kept(w.prepared[j], Parents(w.node)[j])
        BY <2>3 DEF IsWork
      <3>2. ASSUME NEW j \in DOMAIN w.prepared PROVE Kept(w.prepared[j], Parents(w.node)[j])'
        <4>1. Parents(w.node)[j] \in DOMAIN evaluated
          BY <3>1 DEF Due, ParentSet, Range
        <4>2. PICK m : m = Parents(w.node)[j]
          OBVIOUS
        <4>3. Kept(w.prepared[j], m)'
          BY <2>1, <3>1, <4>1, <4>2
        <4> QED
          BY <1>2, <4>2, <4>3, GraphStays
      <3> QED
        BY <1>2, <2>2, <3>1, <3>2, GraphStays DEF IsWork
    <2>4. ASSUME NEW g \in DOMAIN waiting, NEW i \in DOMAIN waiting[g] PROVE IsWork(waiting[g][i])'
      <3>1. IsWork(waiting[g][i])
        BY <1>3 DEF Waiting
      <3> QED
        BY <1>2, <2>3, <3>1
    <2>5. Groups(waiting') /\ Groups(batch') /\ \A m \in Deferred(batch') : Due(m)'
      BY <1>2, <1>3, <2>2 DEF Waiting
    <2>6. ready' \in Seq(Nodes') /\ \A i \in DOMAIN ready' : ParentSet(ready[i])' \subseteq DOMAIN evaluated'
      BY <1>2, <1>3, GraphStays DEF Waiting
    <2> QED
      BY <1>2, <2>4, <2>5, <2>6 DEF Waiting
  <1>14. Scheduled'
    BY <1>2, <1>3, GraphStays DEF Scheduled, Frontiers
  <1>15. recollected' = {}
    <2>1. \A p \in Range(pending) : Computes(p)
      BY <1>3 DEF Pending, Awaiting, Good, Range
    <2> QED
      BY <1>2, <1>3, <2>1, NothingRepeats DEF RunInv
  <1>16. RunTyped'
    BY <1>2, <1>3 DEF RunTyped, IsGraph
  <1> QED
    BY <1>8, <1>9, <1>11, <1>12, <1>13, <1>14, <1>15, <1>16 DEF RunInv

LEMMA PublishPartlyKeeps ==
    ASSUME RunInv, NEW k \in DOMAIN pending, PublishPartly(k - 1)
    PROVE  RunInv'
  <1>1. /\ PublicationDue /\ stored' = Saved(k - 1) /\ phase' = "failed"
        /\ UNCHANGED <<graph, durable, workers, evaluated, pending, loaded, evidence, cached, results,
                       ready, waiting, batch, recollected>>
    BY DEF PublishPartly, scenario, schedule
  <1>2. IsGraph(graph) /\ Published /\ Pending /\ Evaluated /\ Caches /\ Waiting
    BY DEF RunInv, RunTyped
  <1>3. k - 1 \in 0 .. Len(pending)
    <2>1. Len(pending) \in Nat /\ DOMAIN pending = 1 .. Len(pending)
      BY <1>2, SequenceFacts DEF Pending
    <2> QED
      BY <2>1
  <1>4. DOMAIN stored \subseteq DOMAIN stored' /\ \A q \in DOMAIN stored' : IsRecord(q)'
    BY <1>1, <1>2, <1>3, SavedFacts
  <1>5. \A q : IsPending(q)' = IsPending(q)
    BY <1>1 DEF IsPending
  <1>6. Published'
    BY <1>1, <1>2, <1>4, <1>5, GraphStays DEF Published
  <1>7. Grows
    BY <1>1, <1>5 DEF Grows
  <1>8. Pending'
    <2>1. \A p : Awaiting(p) => Awaiting(p)'
      BY <1>2, <1>7, GrowthKeeps
    <2>2. PendingBytes' = PendingBytes
      BY <1>1 DEF PendingBytes
    <2> QED
      BY <1>1, <1>2, <2>1, <2>2 DEF Pending
  <1>9. Evaluated' /\ Caches' /\ Waiting'
    BY <1>1, <1>2, <1>7, EvaluatedStays, CachesStay, WaitingStays
  <1>10. Scheduled'
    BY <1>1, GraphStays DEF RunInv, Scheduled, Frontiers
  <1>11. RunTyped'
    BY <1>1 DEF RunInv, RunTyped, IsGraph
  <1> QED
    BY <1>1, <1>6, <1>8, <1>9, <1>10, <1>11 DEF RunInv

-----------------------------------------------------------------------------
(* The beginning and the end of a run. *)

\* When nothing is left to do, every node is planned: the first that is not
\* would have been ready.
LEMMA AllPlannedFacts ==
    ASSUME RunInv, AllPlanned
    PROVE  DOMAIN evaluated = Nodes
  <1>1. phase = "planning" /\ ~ Planning /\ waiting = <<>> /\ batch = <<>>
    BY DEF AllPlanned, RunInv, Scheduled
  <1>2. IsGraph(graph) /\ DOMAIN evaluated \subseteq Nodes
    BY DEF RunInv, RunTyped, Evaluated
  <1>3. CASE ~ Frontiers
    BY <1>1, <1>3 DEF Planning
  <1>4. CASE Frontiers
    <2> DEFINE S == Nodes \ DOMAIN evaluated
    <2>1. ready = <<>>
      BY <1>1, <1>4 DEF Planning
    <2>2. SUFFICES ASSUME S # {} PROVE FALSE
      BY <1>2
    <2>3. S \in SUBSET Nat
      BY <1>2, GraphFacts
    <2>4. PICK n \in S : \A m \in S : n <= m
      <3> HIDE DEF S
      <3> QED
        BY <2>2, <2>3, LeastNumber
    <2>5. ASSUME NEW m \in ParentSet(n) PROVE m \in DOMAIN evaluated
      <3>1. m \in Nodes /\ m < n /\ m \in Nat /\ n \in Nat
        BY <1>2, GraphFacts
      <3> QED
        BY <2>4, <3>1
    <2>6. n \in Range(ready) \cup Deferred(waiting) \cup Deferred(batch)
      BY <1>4, <2>5 DEF RunInv, Scheduled
    <2>7. Range(ready) = {} /\ Deferred(waiting) = {} /\ Deferred(batch) = {}
      BY <1>1, <2>1 DEF Range, Deferred
    <2> QED
      BY <2>6, <2>7
  <1> QED
    BY <1>3, <1>4

LEMMA FinishKeeps ==
    ASSUME RunInv, Finish
    PROVE  RunInv'
  <1>1. /\ AllPlanned /\ (durable => pending = <<>>) /\ phase' = "done"
        /\ UNCHANGED <<graph, durable, workers, evaluated, pending, loaded, stored, evidence, cached, results,
                       ready, waiting, batch, recollected>>
    BY DEF Finish, scenario, store, schedule
  <1>2. DOMAIN evaluated = Nodes
    BY <1>1, AllPlannedFacts
  <1>3. pending = <<>>
    BY <1>1 DEF RunInv, RunTyped, Published
  <1>4. Grows /\ Published' /\ Pending' /\ Evaluated' /\ Caches' /\ Waiting'
    BY <1>1, PlansStay, CachesStay, WaitingStays DEF RunInv, RunTyped
  <1>5. Scheduled'
    BY <1>1, <1>2, <1>3, GraphStays DEF RunInv, Scheduled, Frontiers
  <1>6. RunTyped'
    BY <1>1 DEF RunInv, RunTyped, IsGraph
  <1> QED
    BY <1>1, <1>4, <1>5, <1>6 DEF RunInv

LEMMA StartedFacts ==
    ASSUME IsGraph(graph)
    PROVE  /\ Started \in Seq(Nodes) /\ \A i \in DOMAIN Started : ParentSet(Started[i]) = {}
           /\ ~ Frontiers => Started = <<>>
           /\ Frontiers => \A n \in Nodes : ParentSet(n) \subseteq {} => n \in Range(Started)
  <1> DEFINE S == {n \in Nodes : IsInput(n)}
  <1>1. ASSUME NEW n \in Nodes PROVE IsInput(n) <=> ParentSet(n) = {}
    <2>1. IsInput(n) <=> Parents(n) = <<>>
      BY DEF IsInput, IsGraph, Op, Parents, Nodes
    <2>2. Parents(n) \in Seq(Nodes)
      BY GraphFacts
    <2>3. Parents(n) = <<>> <=> ParentSet(n) = {}
      <3>1. Parents(n) # <<>> => 1 \in DOMAIN Parents(n)
        BY <2>2
      <3> QED
        BY <3>1 DEF ParentSet, Range
    <2> QED
      BY <2>1, <2>3
  <1>2. S \subseteq Nodes /\ Nodes \subseteq Nat /\ IsFiniteSet(Nodes)
    BY GraphFacts, FS_Interval
  <1>3. Frontiers => Started = InOrder(S)
    BY DEF Started
  <1>4. \A n \in S : ParentSet(n) = {}
    BY <1>1
  <1>5. \A n \in Nodes : ParentSet(n) \subseteq {} => n \in S
    BY <1>1
  <1> HIDE DEF S
  <1>6. InOrder(S) \in Seq(S) /\ S = Range(InOrder(S))
    BY <1>2, FS_Subset, InOrderFacts
  <1>7. CASE Frontiers
    <2>1. Started \in Seq(S) /\ S = Range(Started)
      BY <1>3, <1>6, <1>7
    <2>2. Started \in Seq(Nodes)
      BY <1>2, <2>1, WiderSequence
    <2>3. \A i \in DOMAIN Started : Started[i] \in S
      BY <2>1 DEF Range
    <2> QED
      BY <1>4, <1>5, <1>7, <2>1, <2>2, <2>3
  <1>8. CASE ~ Frontiers
    <2>1. Started = <<>>
      BY <1>8 DEF Started
    <2> QED
      BY <1>8, <2>1
  <1> QED
    BY <1>7, <1>8

LEMMA RunStarts == Init => RunInv
  <1> SUFFICES ASSUME Init PROVE RunInv
    OBVIOUS
  <1>1. IsGraph(graph) /\ durable \in BOOLEAN /\ workers \in Nat \ {0}
    <2>1. PICK s \in Scenarios : graph = s.graph /\ workers = s.workers /\ durable = s.durable
      BY DEF Init
    <2> QED
      BY <2>1, ScenariosAssumption
  <1>2. /\ phase = "planning" /\ evaluated = <<>> /\ pending = <<>> /\ loaded = {} /\ stored = <<>>
        /\ evidence = {} /\ cached = NothingCached /\ results = {} /\ recollected = {}
        /\ ready = Started /\ waiting = <<>> /\ batch = <<>>
    BY DEF Init
  <1>3. IsSequence(<<>>) /\ Len(<<>>) = 0 /\ DOMAIN <<>> = {}
    <2>1. <<>> \in Seq({}) /\ Len(<<>>) = 0 /\ DOMAIN <<>> = {}
      OBVIOUS
    <2> QED
      BY <2>1, AnySequence
  <1>4. RunTyped
    BY <1>1, <1>2 DEF RunTyped
  <1>5. Published /\ Pending
    BY <1>2, <1>3 DEF Published, Pending
  <1>6. Evaluated /\ Caches
    BY <1>2, <1>3 DEF Evaluated, Caches, NothingCached
  <1>7. Waiting
    BY <1>1, <1>2, <1>3, StartedFacts DEF Waiting, Groups, Deferred
  <1>8. Scheduled
    BY <1>1, <1>2, <1>3, StartedFacts DEF Scheduled
  <1> QED
    BY <1>2, <1>4, <1>5, <1>6, <1>7, <1>8 DEF RunInv

\* A retry has a runtime of its own.
LEMMA RetryKeeps ==
    ASSUME RunInv, ~ ReuseRuntime, Retry
    PROVE  RunInv'
  <1>1. /\ phase' = "planning" /\ evaluated' = <<>> /\ pending' = <<>> /\ loaded' = {}
        /\ evidence' = {} /\ cached' = NothingCached /\ results' = {} /\ recollected' = {}
        /\ ready' = Started /\ waiting' = <<>> /\ batch' = <<>>
        /\ UNCHANGED <<graph, durable, workers, stored>>
    BY DEF Retry, RunIsFresh, scenario
  <1>2. IsGraph(graph) /\ durable \in BOOLEAN /\ Published
    BY DEF RunInv, RunTyped
  <1>3. IsSequence(<<>>) /\ Len(<<>>) = 0 /\ DOMAIN <<>> = {}
    <2>1. <<>> \in Seq({}) /\ Len(<<>>) = 0 /\ DOMAIN <<>> = {}
      OBVIOUS
    <2> QED
      BY <2>1, AnySequence
  <1>4. RunTyped'
    BY <1>1 DEF RunInv, RunTyped, IsGraph
  <1>5. Published' /\ Pending'
    <2>1. ASSUME NEW q \in DOMAIN stored PROVE IsRecord(q)'
      BY <1>1, <1>2, <2>1, GraphStays DEF Published, IsRecord
    <2>2. Published'
      BY <1>1, <2>1 DEF Published
    <2> QED
      BY <1>1, <1>3, <2>2 DEF Pending
  <1>6. Evaluated' /\ Caches'
    BY <1>1, <1>3 DEF Evaluated, Caches, NothingCached
  <1>7. Waiting'
    BY <1>1, <1>2, <1>3, StartedFacts, GraphStays DEF Waiting, Groups, Deferred
  <1>8. Scheduled'
    BY <1>1, <1>2, <1>3, StartedFacts, GraphStays DEF Scheduled, Frontiers
  <1> QED
    BY <1>1, <1>4, <1>5, <1>6, <1>7, <1>8 DEF RunInv

-----------------------------------------------------------------------------
(* The theorems. *)

LEMMA RunInvHolds ==
    ASSUME ~ ReuseRuntime
    PROVE  Spec => []RunInv
  <1>1. Init => RunInv
    BY RunStarts
  <1>2. ASSUME RunInv, [Next]_vars PROVE RunInv'
    <2>1. ASSUME NEW n \in Nodes,
                 \/ PlanInput(n) \/ PlanStored(n) \/ PlanLazily(n)
                 \/ PlanKnown(n) \/ RunInPlace(n) \/ Defer(n) \/ Merge(n)
          PROVE  RunInv'
      BY <1>2, <2>1, PlanInputKeeps, PlanStoredKeeps, PlanLazilyKeeps, PlanKnownKeeps, RunInPlaceKeeps,
         DeferKeeps, MergeKeeps
    <2>2. CASE StartBatch \/ \E g \in DOMAIN batch : KernelEnds(g)
      BY <1>2, <2>2, StartBatchKeeps, KernelEndsKeeps
    <2>3. CASE Publish \/ \E k \in DOMAIN pending : PublishPartly(k - 1)
      BY <1>2, <2>3, PublishKeeps, PublishPartlyKeeps
    <2>4. CASE Finish \/ Fail \/ Retry
      BY <1>2, <2>4, FinishKeeps, FailKeeps, RetryKeeps
    <2>5. CASE UNCHANGED vars
      <3>1. UNCHANGED <<graph, durable, workers, phase, evaluated, pending, loaded, stored, evidence, cached, results,
                        ready, waiting, batch, recollected>>
        BY <2>5 DEF vars, scenario, store, schedule
      <3>2. Grows /\ Published' /\ Pending' /\ Evaluated' /\ Caches' /\ Waiting'
        BY <1>2, <3>1, PlansStay, CachesStay, WaitingStays DEF RunInv, RunTyped
      <3>3. RunTyped' /\ Scheduled'
        BY <1>2, <3>1, GraphStays DEF RunInv, RunTyped, IsGraph, Scheduled, Frontiers
      <3> QED
        BY <1>2, <3>1, <3>2, <3>3 DEF RunInv
    <2> QED
      BY <1>2, <2>1, <2>2, <2>3, <2>4, <2>5 DEF Next, Ended
  <1>3. RunInv /\ [Next]_vars => RunInv'
    BY <1>2
  <1> QED
    BY <1>1, <1>3, PTL DEF Spec

\* A record of the store has the evidence of the kernel that computed it, and a
\* run that ends has the evidence of every node, computed or found in the store:
\* for any graph, operators, memory, number of workers, and failures, of kernels
\* and between the records of one publication, after which another runtime
\* retries.  (_publish_materializations, replay_node_evidence)
THEOREM EvidenceIsPublished ==
    ASSUME ~ ReuseRuntime
    PROVE  Spec => []PublishedWithItsEvidence
  <1>1. RunInv => PublishedWithItsEvidence
    <2>1. SUFFICES ASSUME RunInv PROVE PublishedWithItsEvidence
      OBVIOUS
    <2>2. \A q \in DOMAIN stored : HasEvidence(q) => stored[q].evidence
      BY <2>1 DEF RunInv, Published, IsRecord
    <2>3. phase = "done" => \A n \in Nodes : HasEvidence(n) => Physical(n) \in evidence
      BY <2>1 DEF RunInv, Scheduled, Evaluated, IsEvaluated, Proven
    <2> QED
      BY <2>2, <2>3 DEF PublishedWithItsEvidence
  <1> QED
    BY <1>1, RunInvHolds, PTL

\* What awaits publication is never more than was set aside for it, unless it is
\* one plan, and a run with a store ends with every computed node published.
\* (_admit_materialization, _record_materialization_plan)
THEOREM PendingStaysBounded ==
    ASSUME ~ ReuseRuntime
    PROVE  Spec => []PendingIsBounded
  <1>1. RunInv => PendingIsBounded
    <2>1. SUFFICES ASSUME RunInv PROVE PendingIsBounded
      OBVIOUS
    <2>2. Len(pending) > 1 => PendingBytes <= PendingLimit
      BY <2>1 DEF RunInv, Pending
    <2>3. ASSUME phase = "done", durable, NEW n \in Nodes, ~ IsInput(n) PROVE Physical(n) \in DOMAIN stored
      <3>1. pending = <<>> /\ Recorded(n)
        BY <2>1, <2>3 DEF RunInv, Scheduled, Evaluated, IsEvaluated
      <3>2. ~ IsPending(Physical(n))
        BY <3>1 DEF IsPending
      <3> QED
        BY <2>1, <2>3, <3>1, <3>2 DEF Recorded, RunInv, Published
    <2> QED
      BY <2>2, <2>3 DEF PendingIsBounded
  <1> QED
    BY <1>1, RunInvHolds, PTL

\* Nothing published is collected again, by a kernel, a batch or a publication:
\* what collecting a plan computes awaits publication.  (_frozen_output_plan,
\* and the refresh of deferred work in _run_frontiers)
THEOREM PublishedIsRead ==
    ASSUME ~ ReuseRuntime
    PROVE  Spec => []NothingPublishedIsRecollected
  <1>1. RunInv => NothingPublishedIsRecollected
    BY DEF RunInv, NothingPublishedIsRecollected
  <1> QED
    BY <1>1, RunInvHolds, PTL

-----------------------------------------------------------------------------
(* What a value is made of. *)

\* The rows that are read from a session on.
ReadRows(s) == (s .. HistorySessions) \X (1 .. AssetCount)
Yesterday(k) == <<k[1] - 1, k[2]>>

LEMMA RowsAre ==
    ASSUME NEW s \in Nat
    PROVE  \A k : k \in ReadRows(s) <=> /\ k = <<k[1], k[2]>> /\ k[1] \in Nat /\ k[2] \in Nat
                                        /\ s <= k[1] /\ k[1] <= HistorySessions
                                        /\ 1 <= k[2] /\ k[2] <= AssetCount
  <1>1. HistorySessions \in Nat /\ AssetCount \in Nat
    BY RuntimeAssumption, GridAssumption
  <1>2. \A a, b : a \in s .. HistorySessions /\ b \in 1 .. AssetCount
                  <=> /\ a \in Nat /\ b \in Nat /\ s <= a /\ a <= HistorySessions
                      /\ 1 <= b /\ b <= AssetCount
    BY <1>1
  <1> QED
    BY <1>2 DEF ReadRows

\* Of the rows before k, the last is that of the session before.
LEMMA RowBefore ==
    ASSUME NEW s \in Nat, NEW f, DOMAIN f = ReadRows(s), NEW k \in ReadRows(s), s <= k[1] - 1
    PROVE  /\ Yesterday(k) \in ReadRows(s) /\ Yesterday(k) # k
           /\ Previous(f, k) = {Yesterday(k)}
           /\ Prior(f, k) = f[Yesterday(k)]
  <1> DEFINE p == Yesterday(k)
             B == Before(f, k)
  <1>1. HistorySessions \in Nat /\ AssetCount \in Nat
    BY RuntimeAssumption, GridAssumption
  <1>2. /\ k = <<k[1], k[2]>> /\ k[1] \in Nat /\ k[2] \in Nat /\ s <= k[1] /\ k[1] <= HistorySessions
        /\ 1 <= k[2] /\ k[2] <= AssetCount
    BY RowsAre
  <1>3. p[1] = k[1] - 1 /\ p[2] = k[2] /\ p = <<p[1], p[2]>>
    BY DEF Yesterday
  <1>4. p \in ReadRows(s) /\ p # k
    BY <1>1, <1>2, <1>3, RowsAre
  <1> HIDE DEF p
  <1>5. \A j : j \in B <=> j \in ReadRows(s) /\ j[2] = k[2] /\ j[1] < k[1]
    BY DEF Before
  <1>6. p \in B
    BY <1>2, <1>3, <1>4, <1>5
  <1>7. \A j \in B : j = <<j[1], j[2]>> /\ j[2] = p[2] /\ j[1] \in Nat /\ j[1] <= p[1]
    BY <1>2, <1>3, <1>5, RowsAre
  <1> HIDE DEF B
  <1>8. \A j \in B : (\A i \in B : i[1] <= j[1]) <=> j = p
    <2> SUFFICES ASSUME NEW j \in B PROVE (\A i \in B : i[1] <= j[1]) <=> j = p
      OBVIOUS
    <2>1. ASSUME \A i \in B : i[1] <= j[1] PROVE j = p
      <3>1. p[1] <= j[1] /\ j[1] <= p[1] /\ j[1] \in Nat /\ p[1] \in Nat
        BY <1>6, <1>7, <2>1
      <3>2. j[1] = p[1] /\ j[2] = p[2] /\ j = <<j[1], j[2]>>
        BY <1>7, <3>1
      <3> QED
        BY <1>3, <3>2
    <2> QED
      BY <1>7, <2>1
  <1>9. Previous(f, k) = {p}
    BY <1>6, <1>8 DEF Previous, B
  <1>10. (CHOOSE j \in B : \A i \in B : i[1] <= j[1]) = p
    BY <1>6, <1>8
  <1>11. Prior(f, k) = f[p]
    BY <1>6, <1>10 DEF Prior, LastOf, B
  <1> QED
    BY <1>4, <1>9, <1>11 DEF p

\* Sums and lasts of values that are the same.
LEMMA TotalsAgree ==
    ASSUME NEW f, NEW g, NEW keys, \A j \in keys : f[j] = g[j]
    PROVE  Total(f, keys) = Total(g, keys)
  <1>1. Restrict(f, keys) = Restrict(g, keys)
    BY DEF Restrict
  <1> QED
    BY <1>1 DEF Total

\* One kernel over the rows from s on and over all rows, k being a row of both.
SameRows(f, g, keys) == \A j \in keys : f[j] = g[j]

LEMMA PointsAgree ==
    ASSUME NEW op \in {"negate", "fillna", "constant", "add", "sub"},
           NEW f, NEW g, NEW x, NEW y, NEW k, f[k] = x[k], g[k] = y[k]
    PROVE  Cell(op, f, g, k) = Cell(op, x, y, k)
  BY DEF Cell

\* Sessions are whole in both.
LEMMA SessionsAgree ==
    ASSUME NEW op \in {"demean", "grouped"}, NEW f, NEW g, NEW x, NEW y, NEW k,
           k \in Session(f, k), Session(f, k) = Session(x, k),
           SameRows(f, x, Session(f, k)), SameRows(g, y, Session(f, k))
    PROVE  Cell(op, f, g, k) = Cell(op, x, y, k)
  <1>1. \A peers \in SUBSET Session(f, k) : Centered(f, peers, k) = Centered(x, peers, k)
    <2> SUFFICES ASSUME NEW peers \in SUBSET Session(f, k) PROVE Centered(f, peers, k) = Centered(x, peers, k)
      OBVIOUS
    <2> DEFINE known == {j \in peers : f[j] # Null}
    <2>1. known = {j \in peers : x[j] # Null}
      BY DEF SameRows
    <2>2. \A j \in known : f[j] = x[j]
      BY DEF SameRows
    <2>3. f[k] = x[k]
      BY DEF SameRows
    <2>4. Total(f, known) = Total(x, known)
      BY <2>2, TotalsAgree
    <2> HIDE DEF known
    <2> QED
      BY <2>1, <2>3, <2>4 DEF Centered, known
  <1>2. CASE op = "demean"
    <2>1. Cell(op, f, g, k) = Centered(f, Session(f, k), k) /\ Cell(op, x, y, k) = Centered(x, Session(x, k), k)
      BY <1>2 DEF Cell
    <2> QED
      BY <1>1, <2>1
  <1>3. CASE op = "grouped"
    <2> DEFINE own == {j \in Session(f, k) : Label(g[j]) = Label(g[k])}
    <2>1. own = {j \in Session(x, k) : Label(y[j]) = Label(y[k])}
      BY DEF SameRows
    <2>2. Cell(op, f, g, k) = Centered(f, own, k)
      BY <1>3 DEF Cell
    <2>3. Cell(op, x, y, k) = Centered(x, {j \in Session(x, k) : Label(y[j]) = Label(y[k])}, k)
      BY <1>3 DEF Cell
    <2>4. own \in SUBSET Session(f, k)
      OBVIOUS
    <2> HIDE DEF own
    <2> QED
      BY <1>1, <2>1, <2>2, <2>3, <2>4
  <1> QED
    BY <1>2, <1>3

LEMMA WindowsAlike ==
    ASSUME NEW s \in Nat \ {0}, NEW f, DOMAIN f = ReadRows(s), NEW x, DOMAIN x = ReadRows(1),
           NEW k \in ReadRows(s), s <= k[1] - 1, f[k] = x[k], f[Yesterday(k)] = x[Yesterday(k)]
    PROVE  /\ Window(f, k) = {j \in {k, Yesterday(k)} : f[j] # Null} /\ Window(x, k) = Window(f, k)
           /\ SameRows(f, x, Window(f, k))
           /\ Previous(f, k) = {Yesterday(k)} /\ Previous(x, k) = {Yesterday(k)}
           /\ Prior(f, k) = f[Yesterday(k)] /\ Prior(x, k) = f[Yesterday(k)]
  <1>1. k \in ReadRows(1) /\ 1 <= k[1] - 1
    BY RowsAre
  <1>2. Previous(f, k) = {Yesterday(k)} /\ Previous(x, k) = {Yesterday(k)}
    BY <1>1, RowBefore
  <1>3. Prior(f, k) = f[Yesterday(k)] /\ Prior(x, k) = x[Yesterday(k)]
    BY <1>1, RowBefore
  <1>4. Window(f, k) = {j \in {k, Yesterday(k)} : f[j] # Null}
    BY <1>2 DEF Window
  <1>5. Window(x, k) = {j \in {k, Yesterday(k)} : f[j] # Null}
    BY <1>2 DEF Window
  <1> QED
    BY <1>2, <1>3, <1>4, <1>5 DEF SameRows

\* The last value of a window that is not empty.
LEMMA LastInWindow ==
    ASSUME NEW s \in Nat \ {0}, NEW k \in ReadRows(s), s <= k[1] - 1,
           NEW w \in SUBSET {k, Yesterday(k)}, w # {}
    PROVE  (CHOOSE j \in w : \A i \in w : i[1] <= j[1]) \in w
  <1> DEFINE p == Yesterday(k)
  <1>1. k[1] \in Nat /\ p[1] = k[1] - 1
    BY RowsAre DEF Yesterday
  <1> HIDE DEF p
  <1>2. CASE k \in w
    BY <1>1, <1>2 DEF p
  <1>3. CASE k \notin w
    BY <1>1, <1>3 DEF p
  <1> QED
    BY <1>2, <1>3

LEMMA RanksAgree ==
    ASSUME NEW op \in {"rank", "percentile"},
           NEW s \in Nat \ {0}, NEW f, DOMAIN f = ReadRows(s), NEW x, DOMAIN x = ReadRows(1),
           NEW k \in ReadRows(s), s <= k[1] - 1, f[k] = x[k], f[Yesterday(k)] = x[Yesterday(k)]
    PROVE  RankValue(op, f, k) = RankValue(op, x, k)
  <1> DEFINE w == Window(f, k)
  <1>1. w = {j \in {k, Yesterday(k)} : f[j] # Null} /\ Window(x, k) = w /\ SameRows(f, x, w)
    BY WindowsAlike
  <1>2. w # {} => LastOf(f, w) = LastOf(x, w)
    <2>1. w # {} => (CHOOSE j \in w : \A i \in w : i[1] <= j[1]) \in w
      BY <1>1, LastInWindow
    <2> HIDE DEF w
    <2> QED
      BY <1>1, <2>1 DEF LastOf, SameRows
  <1> HIDE DEF w
  <1>3. ASSUME w # {} PROVE RollingRank(f, k) = RollingRank(x, k)
    <2> DEFINE last == LastOf(f, w)
               less == {j \in w : f[j] < last}
               same == {j \in w : f[j] = last}
    <2>1. less = {j \in w : x[j] < last} /\ same = {j \in w : x[j] = last} /\ LastOf(x, w) = last
      BY <1>1, <1>2, <1>3 DEF SameRows
    <2>2. RollingRank(f, k) = 2 * Cardinality(less) + Cardinality(same) + 1
      BY DEF RollingRank, w
    <2>3. RollingRank(x, k) = 2 * Cardinality({j \in w : x[j] < LastOf(x, w)})
                                 + Cardinality({j \in w : x[j] = LastOf(x, w)}) + 1
      BY <1>1 DEF RollingRank
    <2> HIDE DEF less, same, last
    <2> QED
      BY <2>1, <2>2, <2>3
  <1> QED
    BY <1>1, <1>3 DEF RankValue, w

LEMMA RollingsAgree ==
    ASSUME NEW op \in Windowed \cup {"repeated"},
           NEW s \in Nat \ {0}, NEW f, DOMAIN f = ReadRows(s), NEW x, DOMAIN x = ReadRows(1),
           NEW k \in ReadRows(s), s <= k[1] - 1, f[k] = x[k], f[Yesterday(k)] = x[Yesterday(k)]
    PROVE  RollingValue(op, f, k) = RollingValue(op, x, k)
  <1> DEFINE w == Window(f, k)
  <1>1. Window(x, k) = w /\ SameRows(f, x, w) /\ Prior(f, k) = Prior(x, k)
    BY WindowsAlike
  <1>2. Total(f, w) = Total(x, w) /\ Total(f, w \cap {k}) = Total(x, w \cap {k})
    BY <1>1, TotalsAgree DEF SameRows
  <1> HIDE DEF w
  <1>3. CASE op = "rolling"
    BY <1>1, <1>2, <1>3 DEF RollingValue, w
  <1>4. CASE op = "smooth"
    BY <1>1, <1>2, <1>4 DEF RollingValue, w
  <1>5. CASE op = "aged"
    BY <1>1, <1>5 DEF RollingValue, w
  <1>6. CASE op = "repeated"
    BY <1>1, <1>6 DEF RollingValue
  <1> QED
    BY <1>3, <1>4, <1>5, <1>6 DEF Windowed

\* Two rows of a window are the row and the one before it.
LEMMA PairOfWindow ==
    ASSUME NEW k, NEW p, p # k, NEW w \in SUBSET {k, p}, Cardinality(w) = 2
    PROVE  (CHOOSE i \in w : i # k) = p /\ p \in w
  <1>1. w # {} /\ w # {k}
    BY FS_EmptySet, FS_Singleton
  <1>2. p \in w /\ \A i \in w : i # k <=> i = p
    BY <1>1
  <1> QED
    BY <1>2

LEMMA CovariancesAgree ==
    ASSUME NEW s \in Nat \ {0}, NEW f, DOMAIN f = ReadRows(s), NEW x, DOMAIN x = ReadRows(1),
           NEW g, DOMAIN g = ReadRows(s), NEW y, DOMAIN y = ReadRows(1),
           NEW k \in ReadRows(s), s <= k[1] - 1, f[k] = x[k], f[Yesterday(k)] = x[Yesterday(k)],
           g[k] = y[k], g[Yesterday(k)] = y[Yesterday(k)]
    PROVE  Covariance(f, g, k) = Covariance(x, y, k)
  <1> DEFINE w == Window(f, k) \cap Window(g, k)
             p == Yesterday(k)
  <1>1. w \in SUBSET {k, p} /\ w = Window(x, k) \cap Window(y, k)
    BY WindowsAlike
  <1>2. p # k
    BY RowBefore
  <1>3. Covariance(f, g, k) = IF Cardinality(w) = 2
                              THEN (f[k] - f[CHOOSE i \in w : i # k]) * (g[k] - g[CHOOSE i \in w : i # k]) ELSE Null
    BY DEF Covariance
  <1> DEFINE v == Window(x, k) \cap Window(y, k)
  <1>4. Covariance(x, y, k) = IF Cardinality(v) = 2
                              THEN (x[k] - x[CHOOSE i \in v : i # k]) * (y[k] - y[CHOOSE i \in v : i # k]) ELSE Null
    BY DEF Covariance
  <1>5. v = w
    BY <1>1
  <1> HIDE DEF v, w, p
  <1>6. Cardinality(w) = 2 => (CHOOSE i \in w : i # k) = p
    BY <1>1, <1>2, PairOfWindow
  <1>7. CASE Cardinality(w) = 2
    <2>1. Covariance(f, g, k) = (f[k] - f[p]) * (g[k] - g[p])
      BY <1>3, <1>6, <1>7
    <2>2. Covariance(x, y, k) = (x[k] - x[p]) * (y[k] - y[p])
      BY <1>4, <1>5, <1>6, <1>7
    <2>3. f[k] = x[k] /\ f[p] = x[p] /\ g[k] = y[k] /\ g[p] = y[p]
      BY DEF p
    <2> QED
      BY <2>1, <2>2, <2>3
  <1> QED
    BY <1>3, <1>4, <1>5, <1>7

LEMMA PredictionsAgree ==
    ASSUME NEW s \in Nat \ {0}, NEW f, DOMAIN f = ReadRows(s), NEW x, DOMAIN x = ReadRows(1),
           NEW g, NEW y,
           NEW k \in ReadRows(s), s <= k[1] - 1, f[k] = x[k], f[Yesterday(k)] = x[Yesterday(k)],
           g[k] = y[k], g[Yesterday(k)] = y[Yesterday(k)]
    PROVE  Prediction(f, g, k) = Prediction(x, y, k)
  <1> DEFINE p == Yesterday(k)
  <1>1. Previous(f, k) = {p} /\ Previous(x, k) = {p}
    BY WindowsAlike
  <1>2. (CHOOSE i \in {p} : TRUE) = p
    OBVIOUS
  <1> HIDE DEF p
  <1> QED
    BY <1>1, <1>2 DEF Prediction, p

\* Operators that read the row before theirs.
Preceded == Windowed \cup {"lag", "diff", "repeated", "rank", "percentile", "covariance", "regression"}

LEMMA PrecedingAgree ==
    ASSUME NEW op \in Preceded,
           NEW s \in Nat \ {0}, NEW f, DOMAIN f = ReadRows(s), NEW x, DOMAIN x = ReadRows(1),
           NEW g, DOMAIN g = ReadRows(s), NEW y, DOMAIN y = ReadRows(1),
           NEW k \in ReadRows(s), s <= k[1] - 1, f[k] = x[k], f[Yesterday(k)] = x[Yesterday(k)],
           g[k] = y[k], g[Yesterday(k)] = y[Yesterday(k)]
    PROVE  Cell(op, f, g, k) = Cell(op, x, y, k)
  <1>1. CASE op = "lag"
    <2>1. Cell(op, f, g, k) = Prior(f, k) /\ Cell(op, x, y, k) = Prior(x, k)
      BY <1>1 DEF Cell
    <2> QED
      BY <2>1, WindowsAlike
  <1>2. CASE op = "diff"
    <2>1. Cell(op, f, g, k) = Minus(f[k], Prior(f, k)) /\ Cell(op, x, y, k) = Minus(x[k], Prior(x, k))
      BY <1>2 DEF Cell
    <2> QED
      BY <2>1, WindowsAlike
  <1>3. CASE op \in Windowed \cup {"repeated"}
    <2>1. Cell(op, f, g, k) = RollingValue(op, f, k) /\ Cell(op, x, y, k) = RollingValue(op, x, k)
      BY <1>3 DEF Cell, Windowed
    <2> QED
      BY <1>3, <2>1, RollingsAgree
  <1>4. CASE op \in {"rank", "percentile"}
    <2>1. Cell(op, f, g, k) = RankValue(op, f, k) /\ Cell(op, x, y, k) = RankValue(op, x, k)
      BY <1>4 DEF Cell
    <2> QED
      BY <1>4, <2>1, RanksAgree
  <1>5. CASE op = "covariance"
    <2>1. Cell(op, f, g, k) = Covariance(f, g, k) /\ Cell(op, x, y, k) = Covariance(x, y, k)
      BY <1>5 DEF Cell
    <2> QED
      BY <2>1, CovariancesAgree
  <1>6. CASE op = "regression"
    <2>1. Cell(op, f, g, k) = Prediction(f, g, k) /\ Cell(op, x, y, k) = Prediction(x, y, k)
      BY <1>6 DEF Cell
    <2> QED
      BY <2>1, PredictionsAgree
  <1> QED
    BY <1>1, <1>2, <1>3, <1>4, <1>5, <1>6 DEF Preceded

-----------------------------------------------------------------------------
(* Frames and histories of the nodes of a graph. *)

Sampled(n, k) == IF (k[1] + k[2]) % 3 = 0 THEN Null ELSE 7 * n * k[2] + 5 * k[1] * k[1]

\* The frame of node n, given the frames of earlier nodes.
NodeFrame(s, f, n) ==
    LET x == IF IsInput(n) THEN [k \in ReadRows(s) |-> Sampled(n, k)]
             ELSE Apply(Op(n), [i \in DOMAIN Parents(n) |-> f[Parents(n)[i]]])
    IN  [k \in ReadRows(s) |-> At(x, k)]

LEMMA FramesExist ==
    ASSUME IsGraph(graph), NEW s
    PROVE  \E f : f = [n \in Nodes |-> NodeFrame(s, f, n)]
  <1> DEFINE Has(k) == \E f : f = [n \in 1 .. k |-> NodeFrame(s, f, n)]
             Without == {k \in 0 .. Len(graph.op) : ~ Has(k)}
  <1>1. Nodes = 1 .. Len(graph.op) /\ Len(graph.op) \in Nat
    BY GraphFacts
  <1>2. SUFFICES Without = {}
    BY <1>1
  <1>3. SUFFICES ASSUME Without # {} PROVE FALSE
    OBVIOUS
  <1>4. PICK k \in Without : \A j \in Without : k <= j
    <2>1. Without \in SUBSET Nat
      BY <1>1
    <2> HIDE DEF Without
    <2> QED
      BY <1>3, <2>1, LeastNumber
  <1>5. k # 0
    <2>1. \A f : [n \in 1 .. 0 |-> NodeFrame(s, f, n)] = [n \in 1 .. 0 |-> 0]
      OBVIOUS
    <2> DEFINE e == [n \in 1 .. 0 |-> 0]
    <2>2. e = [n \in 1 .. 0 |-> NodeFrame(s, e, n)]
      BY <2>1
    <2>3. Has(0)
      BY <2>2
    <2> QED
      BY <2>3
  <1>6. k - 1 \in 0 .. Len(graph.op) /\ k \in 1 .. Len(graph.op)
    BY <1>1, <1>5
  <1>7. Has(k - 1)
    BY <1>1, <1>4, <1>6
  <1>8. PICK f : f = [n \in 1 .. k - 1 |-> NodeFrame(s, f, n)]
    BY <1>7
  <1> DEFINE g == [n \in 1 .. k |-> IF n = k THEN NodeFrame(s, f, k) ELSE f[n]]
  <1>9. ASSUME NEW n \in 1 .. k PROVE NodeFrame(s, g, n) = NodeFrame(s, f, n)
    <2>1. ASSUME NEW i \in DOMAIN Parents(n) PROVE g[Parents(n)[i]] = f[Parents(n)[i]]
      <3>1. Parents(n)[i] \in 1 .. k - 1
        BY <1>1, <1>6, GraphFacts
      <3> QED
        BY <1>6, <3>1
    <2> HIDE DEF g
    <2>2. [i \in DOMAIN Parents(n) |-> g[Parents(n)[i]]] = [i \in DOMAIN Parents(n) |-> f[Parents(n)[i]]]
      BY <2>1
    <2> QED
      BY <2>2 DEF NodeFrame
  <1>10. \A n \in 1 .. k - 1 : f[n] = NodeFrame(s, f, n)
    BY <1>8
  <1>11. g = [n \in 1 .. k |-> NodeFrame(s, f, n)]
    BY <1>10, <1>6
  <1> HIDE DEF g
  <1>12. g = [n \in 1 .. k |-> NodeFrame(s, g, n)]
    BY <1>9, <1>11
  <1>13. Has(k)
    BY <1>12
  <1> QED
    BY <1>4, <1>13

LEMMA FramesUnfold ==
    ASSUME IsGraph(graph), NEW s, NEW n \in Nodes
    PROVE  ReadSince(s)[n] = NodeFrame(s, ReadSince(s), n)
  <1>1. ReadSince(s) = CHOOSE f : f = [m \in Nodes |-> NodeFrame(s, f, m)]
    BY Zenon DEF ReadSince, NodeFrame, Sampled, ReadRows
  <1>2. ReadSince(s) = [m \in Nodes |-> NodeFrame(s, ReadSince(s), m)]
    BY <1>1, FramesExist
  <1> QED
    BY <1>2

\* The history of node n, given that of earlier nodes.
NodeHistory(f, n) ==
    LET own == OwnHistory(Op(n))
        parents == {f[p] : p \in ParentSet(n)}
    IN  IF Op(n) \in Inputs THEN 0 ELSE IF Null \in {own} \cup parents THEN Null ELSE own + Max(parents)

LEMMA HistoriesExist ==
    ASSUME IsGraph(graph)
    PROVE  \E f : f = [n \in Nodes |-> NodeHistory(f, n)]
  <1> DEFINE Has(k) == \E f : f = [n \in 1 .. k |-> NodeHistory(f, n)]
             Without == {k \in 0 .. Len(graph.op) : ~ Has(k)}
  <1>1. Nodes = 1 .. Len(graph.op) /\ Len(graph.op) \in Nat
    BY GraphFacts
  <1>2. SUFFICES Without = {}
    BY <1>1
  <1>3. SUFFICES ASSUME Without # {} PROVE FALSE
    OBVIOUS
  <1>4. PICK k \in Without : \A j \in Without : k <= j
    <2>1. Without \in SUBSET Nat
      BY <1>1
    <2> HIDE DEF Without
    <2> QED
      BY <1>3, <2>1, LeastNumber
  <1>5. k # 0
    <2>1. \A f : [n \in 1 .. 0 |-> NodeHistory(f, n)] = [n \in 1 .. 0 |-> 0]
      OBVIOUS
    <2> DEFINE e == [n \in 1 .. 0 |-> 0]
    <2>2. e = [n \in 1 .. 0 |-> NodeHistory(e, n)]
      BY <2>1
    <2>3. Has(0)
      BY <2>2
    <2> QED
      BY <2>3
  <1>6. k - 1 \in 0 .. Len(graph.op) /\ k \in 1 .. Len(graph.op)
    BY <1>1, <1>5
  <1>7. Has(k - 1)
    BY <1>1, <1>4, <1>6
  <1>8. PICK f : f = [n \in 1 .. k - 1 |-> NodeHistory(f, n)]
    BY <1>7
  <1> DEFINE g == [n \in 1 .. k |-> IF n = k THEN NodeHistory(f, k) ELSE f[n]]
  <1>9. ASSUME NEW n \in 1 .. k PROVE NodeHistory(g, n) = NodeHistory(f, n)
    <2>1. ASSUME NEW p \in ParentSet(n) PROVE g[p] = f[p]
      <3>1. p \in 1 .. k - 1
        BY <1>1, <1>6, GraphFacts
      <3> QED
        BY <1>6, <3>1
    <2> HIDE DEF g
    <2>2. {g[p] : p \in ParentSet(n)} = {f[p] : p \in ParentSet(n)}
      BY <2>1
    <2> QED
      BY <2>2 DEF NodeHistory
  <1>10. \A n \in 1 .. k - 1 : f[n] = NodeHistory(f, n)
    BY <1>8
  <1>11. g = [n \in 1 .. k |-> NodeHistory(f, n)]
    BY <1>10, <1>6
  <1> HIDE DEF g
  <1>12. g = [n \in 1 .. k |-> NodeHistory(g, n)]
    BY <1>9, <1>11
  <1>13. Has(k)
    BY <1>12
  <1> QED
    BY <1>4, <1>13

LEMMA HistoriesUnfold ==
    ASSUME IsGraph(graph), NEW n \in Nodes
    PROVE  History[n] = NodeHistory(History, n)
  <1>1. History = [m \in Nodes |-> NodeHistory(History, m)]
    BY HistoriesExist DEF History, NodeHistory
  <1> QED
    BY <1>1

LEMMA MaxOfNumbers ==
    ASSUME NEW k \in Nat, NEW S \in SUBSET (0 .. k), S # {}
    PROVE  Max(S) \in S /\ \A i \in S : i <= Max(S)
  <1> DEFINE T == {k - i : i \in S}
  <1>1. T \in SUBSET Nat /\ T # {}
    <2>1. ASSUME NEW i \in S PROVE k - i \in Nat
      <3>1. i \in 0 .. k
        OBVIOUS
      <3> QED
        BY <3>1
    <2> QED
      BY <2>1
  <1> HIDE DEF T
  <1>2. PICK t \in T : \A u \in T : t <= u
    BY <1>1, LeastNumber
  <1>3. PICK i \in S : t = k - i
    BY <1>2 DEF T
  <1>4. \A j \in S : i >= j
    <2>1. ASSUME NEW j \in S PROVE i >= j
      <3>1. k - i <= k - j
        BY <1>2, <1>3 DEF T
      <3> QED
        BY <3>1
    <2> QED
      BY <2>1
  <1> DEFINE m == CHOOSE x \in S : \A y \in S : x >= y
  <1>5. m \in S /\ \A y \in S : m >= y
    BY <1>4
  <1>6. Max(S) = m
    BY DEF Max
  <1> HIDE DEF m
  <1> QED
    BY <1>5, <1>6

LEMMA OwnHistories == \A op : OwnHistory(op) \in {0, 1, Null}
  BY DEF OwnHistory

\* A node has its own history and the longest of its parents'.
LEMMA HistoryAdds ==
    ASSUME IsGraph(graph), NEW n \in Nodes, ~ IsInput(n), History[n] # Null,
           \A p \in ParentSet(n) : History[p] # Null => History[p] \in 0 .. p
    PROVE  /\ OwnHistory(Op(n)) \in {0, 1} /\ OwnHistory(Op(n)) # Null
           /\ History[n] \in 0 .. n
           /\ \A p \in ParentSet(n) : /\ History[p] # Null /\ History[p] \in Nat
                                      /\ OwnHistory(Op(n)) + History[p] <= History[n]
  <1> DEFINE own == OwnHistory(Op(n))
             S == {History[p] : p \in ParentSet(n)}
  <1>1. /\ n \in Nat /\ n >= 1
        /\ \A p \in ParentSet(n) : p \in Nat /\ p < n
    BY GraphFacts
  <1>2. History[n] = IF Null \in {own} \cup S THEN Null ELSE own + Max(S)
    BY HistoriesUnfold DEF NodeHistory, IsInput
  <1>3. Null \notin {own} \cup S /\ History[n] = own + Max(S)
    BY <1>2
  <1>4. own \in {0, 1} /\ own # Null
    BY <1>3, OwnHistories
  <1>5. ParentSet(n) # {}
    <2>1. Parents(n) # <<>> /\ Parents(n) \in Seq(Nodes)
      BY GraphFacts DEF IsGraph, IsInput, Op, Parents, Nodes
    <2>2. 1 \in DOMAIN Parents(n)
      BY <2>1
    <2> QED
      BY <2>2 DEF ParentSet, Range
  <1>6. \A p \in ParentSet(n) : History[p] # Null /\ History[p] \in 0 .. n - 1
    BY <1>1, <1>3
  <1>7. S \in SUBSET (0 .. n - 1) /\ S # {}
    BY <1>5, <1>6
  <1> HIDE DEF own
  <1>8. Max(S) \in S /\ \A i \in S : i <= Max(S)
    <2>1. n - 1 \in Nat
      BY <1>1
    <2> HIDE DEF S
    <2> QED
      BY <1>7, <2>1, MaxOfNumbers
  <1>9. Max(S) \in 0 .. n - 1
    BY <1>7, <1>8
  <1>10. History[n] \in 0 .. n
    BY <1>1, <1>3, <1>4, <1>9
  <1>11. ASSUME NEW p \in ParentSet(n)
         PROVE  History[p] # Null /\ History[p] \in Nat /\ own + History[p] <= History[n]
    <2>1. History[p] \in S
      OBVIOUS
    <2>2. History[p] <= Max(S)
      BY <1>8, <2>1
    <2> HIDE DEF S
    <2> QED
      BY <1>1, <1>3, <1>4, <1>6, <1>9, <2>2
  <1> QED
    BY <1>4, <1>10, <1>11 DEF own

LEMMA HistoriesBounded ==
    ASSUME IsGraph(graph)
    PROVE  \A n \in Nodes : History[n] # Null => History[n] \in 0 .. n
  <1> DEFINE Bad == {n \in Nodes : ~ (History[n] # Null => History[n] \in 0 .. n)}
  <1>1. SUFFICES ASSUME Bad # {} PROVE FALSE
    OBVIOUS
  <1>2. Nodes = 1 .. Len(graph.op) /\ Len(graph.op) \in Nat
    BY GraphFacts
  <1>3. PICK n \in Bad : \A m \in Bad : n <= m
    <2>1. Bad \in SUBSET Nat
      BY <1>2
    <2> HIDE DEF Bad
    <2> QED
      BY <1>1, <2>1, LeastNumber
  <1>4. \A p \in ParentSet(n) : History[p] # Null => History[p] \in 0 .. p
    <2>1. \A p \in ParentSet(n) : p \in Nodes /\ p < n
      BY GraphFacts
    <2> QED
      BY <1>2, <1>3, <2>1
  <1>5. CASE IsInput(n)
    <2>1. History[n] = 0
      BY <1>5, HistoriesUnfold DEF NodeHistory, IsInput
    <2> QED
      BY <1>2, <2>1
  <1>6. CASE ~ IsInput(n)
    <2> HIDE DEF Bad
    <2>1. n \in Nodes /\ History[n] # Null /\ History[n] \notin 0 .. n
      BY DEF Bad
    <2> QED
      BY <1>4, <1>6, <2>1, HistoryAdds
  <1> QED
    BY <1>5, <1>6

-----------------------------------------------------------------------------
(* The values of a node that is computed. *)

First(n) == Parents(n)[1]
Final(n) == Parents(n)[Len(Parents(n))]

LEMMA ParentsRead ==
    ASSUME IsGraph(graph), NEW n \in Nodes, ~ IsInput(n), NEW s
    PROVE  /\ First(n) \in ParentSet(n) /\ Final(n) \in ParentSet(n)
           /\ \A p \in ParentSet(n) : ReadSince(s)[p] = [k \in ReadRows(s) |-> ReadSince(s)[p][k]]
           /\ LET frames == [i \in DOMAIN Parents(n) |-> ReadSince(s)[Parents(n)[i]]] IN
              Head(frames) = ReadSince(s)[First(n)] /\ Last(frames) = ReadSince(s)[Final(n)]
  <1>1. Parents(n) # <<>> /\ Parents(n) \in Seq(Nodes) /\ \A p \in ParentSet(n) : p \in Nodes
    BY GraphFacts DEF IsGraph, IsInput, Op, Parents, Nodes
  <1>2. Len(Parents(n)) \in Nat \ {0} /\ DOMAIN Parents(n) = 1 .. Len(Parents(n))
    BY <1>1
  <1>3. First(n) \in ParentSet(n) /\ Final(n) \in ParentSet(n)
    BY <1>2 DEF First, Final, ParentSet, Range
  <1>4. ASSUME NEW p \in ParentSet(n) PROVE ReadSince(s)[p] = [k \in ReadRows(s) |-> ReadSince(s)[p][k]]
    <2>1. ReadSince(s)[p] = NodeFrame(s, ReadSince(s), p)
      BY <1>1, FramesUnfold
    <2> QED
      BY <2>1 DEF NodeFrame
  <1> DEFINE frames == [i \in DOMAIN Parents(n) |-> ReadSince(s)[Parents(n)[i]]]
  <1>5. frames \in Seq(Range(frames)) /\ Len(frames) = Len(Parents(n))
    BY <1>2 DEF Range
  <1>6. Head(frames) = ReadSince(s)[First(n)]
    BY <1>2, <1>5 DEF First
  <1>7. Last(frames) = ReadSince(s)[Final(n)]
    BY <1>2, <1>5 DEF Final, Last
  <1> QED
    BY <1>3, <1>4, <1>6, <1>7

\* The rows with a label.
Labelled(g) == {j \in DOMAIN g : g[j] # Null}

LEMMA ValueRead ==
    ASSUME IsGraph(graph), NEW n \in Nodes, ~ IsInput(n), NEW s, NEW k \in ReadRows(s)
    PROVE  LET f == ReadSince(s)[First(n)]
               g == ReadSince(s)[Final(n)]
           IN  /\ DOMAIN f = ReadRows(s) /\ DOMAIN g = ReadRows(s)
               /\ Op(n) # "grouped" => ReadSince(s)[n][k] = Cell(Op(n), f, g, k)
               /\ Op(n) = "grouped" =>
                    ReadSince(s)[n][k] = IF g[k] = Null THEN Null
                                         ELSE Cell("grouped", Restrict(f, Labelled(g)), Restrict(g, Labelled(g)), k)
  <1> DEFINE f == ReadSince(s)[First(n)]
             g == ReadSince(s)[Final(n)]
             frames == [i \in DOMAIN Parents(n) |-> ReadSince(s)[Parents(n)[i]]]
             x == Apply(Op(n), frames)
  <1>1. f = [j \in ReadRows(s) |-> f[j]] /\ g = [j \in ReadRows(s) |-> g[j]]
    BY ParentsRead
  <1>2. Head(frames) = f /\ Last(frames) = g
    BY ParentsRead
  <1>3. ReadSince(s)[n] = NodeFrame(s, ReadSince(s), n)
    BY FramesUnfold
  <1>4. ReadSince(s)[n][k] = At(x, k)
    BY <1>3 DEF NodeFrame
  <1> HIDE DEF frames
  <1> DEFINE keys == {j \in DOMAIN f \cap DOMAIN g : Op(n) = "grouped" => g[j] # Null}
  <1>5. x = [j \in keys |-> Cell(Op(n), Restrict(f, keys), Restrict(g, keys), j)]
    BY <1>2 DEF Apply, Joined
  <1> HIDE DEF x, f, g
  <1>6. DOMAIN f = ReadRows(s) /\ DOMAIN g = ReadRows(s)
    BY <1>1
  <1>7. ASSUME Op(n) # "grouped" PROVE ReadSince(s)[n][k] = Cell(Op(n), f, g, k)
    <2>1. keys = ReadRows(s)
      BY <1>6, <1>7
    <2> HIDE DEF keys
    <2>2. Restrict(f, keys) = f /\ Restrict(g, keys) = g
      BY <1>1, <2>1 DEF Restrict
    <2> QED
      BY <1>4, <1>5, <2>1, <2>2 DEF At
  <1>8. ASSUME Op(n) = "grouped"
        PROVE  ReadSince(s)[n][k] = IF g[k] = Null THEN Null
                                    ELSE Cell("grouped", Restrict(f, Labelled(g)), Restrict(g, Labelled(g)), k)
    <2>1. keys = Labelled(g)
      BY <1>6, <1>8 DEF Labelled
    <2>2. k \in keys <=> g[k] # Null
      BY <1>6, <1>8
    <2> HIDE DEF keys
    <2> QED
      BY <1>4, <1>5, <1>8, <2>1, <2>2 DEF At
  <1> QED
    BY <1>6, <1>7, <1>8 DEF f, g

-----------------------------------------------------------------------------
(* A history is enough. *)

\* The frames that are read from s on and from the beginning agree at the rows
\* that the history of the node lies before.
AgreesAt(s, n) ==
    \A k \in ReadRows(s) : k[1] - History[n] >= s => ReadSince(s)[n][k] = ReadSince(1)[n][k]

LEMMA RowsLater ==
    ASSUME NEW s \in Nat \ {0}, NEW k \in ReadRows(s)
    PROVE  /\ k \in ReadRows(1)
           /\ \A j : j \in ReadRows(s) /\ j[1] = k[1] <=> j \in ReadRows(1) /\ j[1] = k[1]
  BY RowsAre

LEMMA LabelledAgree ==
    ASSUME NEW s \in Nat \ {0}, NEW k \in ReadRows(s),
           NEW f, DOMAIN f = ReadRows(s), NEW x, DOMAIN x = ReadRows(1),
           NEW g, DOMAIN g = ReadRows(s), NEW y, DOMAIN y = ReadRows(1),
           \A j \in ReadRows(s) : j[1] = k[1] => f[j] = x[j] /\ g[j] = y[j],
           g[k] # Null
    PROVE  Cell("grouped", Restrict(f, Labelled(g)), Restrict(g, Labelled(g)), k)
             = Cell("grouped", Restrict(x, Labelled(y)), Restrict(y, Labelled(y)), k)
  <1> DEFINE u == Restrict(f, Labelled(g))
             v == Restrict(g, Labelled(g))
             w == Restrict(x, Labelled(y))
             z == Restrict(y, Labelled(y))
  <1>1. /\ DOMAIN u = Labelled(g) /\ DOMAIN w = Labelled(y)
        /\ \A j \in Labelled(g) : u[j] = f[j] /\ v[j] = g[j]
        /\ \A j \in Labelled(y) : w[j] = x[j] /\ z[j] = y[j]
    BY DEF Restrict
  <1> HIDE DEF u, v, w, z
  <1>2. \A j : j \in Session(u, k) <=> j \in ReadRows(s) /\ g[j] # Null /\ j[1] = k[1]
    BY <1>1 DEF Session, Labelled
  <1>3. \A j : j \in Session(w, k) <=> j \in ReadRows(1) /\ y[j] # Null /\ j[1] = k[1]
    BY <1>1 DEF Session, Labelled
  <1>4. \A j : j \in Session(u, k) <=> j \in Session(w, k)
    BY <1>2, <1>3, RowsLater
  <1>5. Session(u, k) = Session(w, k) /\ k \in Session(u, k)
    <2>1. Session(u, k) = {j \in DOMAIN u : j[1] = k[1]} /\ Session(w, k) = {j \in DOMAIN w : j[1] = k[1]}
      BY DEF Session
    <2> QED
      BY <1>2, <1>4, <2>1
  <1>6. \A j \in Session(u, k) : j \in Labelled(g) /\ j \in Labelled(y) /\ f[j] = x[j] /\ g[j] = y[j]
    BY <1>2, <1>3, <1>4 DEF Labelled
  <1>7. SameRows(u, w, Session(u, k)) /\ SameRows(v, z, Session(u, k))
    BY <1>1, <1>6 DEF SameRows
  <1>8. Cell("grouped", u, v, k) = Cell("grouped", w, z, k)
    BY <1>5, <1>7, SessionsAgree
  <1> QED
    BY <1>8 DEF u, v, w, z

LEMMA NodeAgrees ==
    ASSUME IsGraph(graph), NEW n \in Nodes, Op(n) \in Inputs \cup Operators, History[n] # Null,
           NEW s \in Nat \ {0}, \A p \in ParentSet(n) : History[p] # Null => AgreesAt(s, p)
    PROVE  AgreesAt(s, n)
  <1>1. SUFFICES ASSUME NEW k \in ReadRows(s), k[1] - History[n] >= s
                 PROVE  ReadSince(s)[n][k] = ReadSince(1)[n][k]
    BY DEF AgreesAt
  <1>2. k \in ReadRows(1) /\ k[1] \in Nat
    BY RowsAre, RowsLater
  <1>3. CASE IsInput(n)
    <2>1. ASSUME NEW r, k \in ReadRows(r) PROVE ReadSince(r)[n][k] = Sampled(n, k)
      <3>1. ReadSince(r)[n] = NodeFrame(r, ReadSince(r), n)
        BY FramesUnfold
      <3> QED
        BY <1>3, <2>1, <3>1 DEF NodeFrame, At
    <2> QED
      BY <1>2, <2>1
  <1>4. CASE ~ IsInput(n)
    <2> DEFINE f == ReadSince(s)[First(n)]
               g == ReadSince(s)[Final(n)]
               x == ReadSince(1)[First(n)]
               y == ReadSince(1)[Final(n)]
               own == OwnHistory(Op(n))
    <2>1. /\ own \in {0, 1} /\ own # Null
          /\ \A p \in ParentSet(n) : /\ History[p] # Null /\ History[p] \in Nat
                                     /\ own + History[p] <= History[n]
      <3>1. \A p \in ParentSet(n) : History[p] # Null => History[p] \in 0 .. p
        BY GraphFacts, HistoriesBounded
      <3> QED
        BY <1>4, <3>1, HistoryAdds
    <2>2. History[n] \in Nat
      BY GraphFacts, HistoriesBounded
    <2>3. First(n) \in ParentSet(n) /\ Final(n) \in ParentSet(n)
      BY <1>4, ParentsRead
    <2>4. ASSUME NEW j \in ReadRows(s), j[1] >= k[1] - own PROVE f[j] = x[j] /\ g[j] = y[j]
      <3>1. j[1] \in Nat
        BY RowsAre
      <3>2. \A p \in ParentSet(n) : j[1] - History[p] >= s
        BY <1>1, <1>2, <2>1, <2>2, <2>4, <3>1
      <3> QED
        BY <2>1, <2>3, <3>2 DEF AgreesAt
    <2>5. /\ DOMAIN f = ReadRows(s) /\ DOMAIN g = ReadRows(s) /\ DOMAIN x = ReadRows(1) /\ DOMAIN y = ReadRows(1)
      BY <1>2, <1>4, ValueRead
    <2>6. f[k] = x[k] /\ g[k] = y[k]
      BY <1>2, <2>1, <2>4
    <2>7. Op(n) # "grouped" => /\ ReadSince(s)[n][k] = Cell(Op(n), f, g, k)
                               /\ ReadSince(1)[n][k] = Cell(Op(n), x, y, k)
      BY <1>2, <1>4, ValueRead
    <2>8. Op(n) = "grouped" =>
             /\ ReadSince(s)[n][k] = IF g[k] = Null THEN Null
                                     ELSE Cell("grouped", Restrict(f, Labelled(g)), Restrict(g, Labelled(g)), k)
             /\ ReadSince(1)[n][k] = IF y[k] = Null THEN Null
                                     ELSE Cell("grouped", Restrict(x, Labelled(y)), Restrict(y, Labelled(y)), k)
      BY <1>2, <1>4, ValueRead
    <2> HIDE DEF f, g, x, y
    <2>9. CASE Op(n) \in {"negate", "fillna", "constant", "add", "sub"}
      BY <2>6, <2>7, <2>9, PointsAgree
    <2>10. \A j \in ReadRows(s) : j[1] = k[1] => f[j] = x[j] /\ g[j] = y[j]
      BY <1>2, <2>1, <2>4
    <2>11. CASE Op(n) = "demean"
      <3>1. Session(f, k) = Session(x, k) /\ k \in Session(f, k)
        <4>1. Session(f, k) = {j \in ReadRows(s) : j[1] = k[1]} /\ Session(x, k) = {j \in ReadRows(1) : j[1] = k[1]}
          BY <2>5 DEF Session
        <4> QED
          BY <4>1, RowsLater
      <3>2. SameRows(f, x, Session(f, k)) /\ SameRows(g, y, Session(f, k))
        BY <2>5, <2>10 DEF SameRows, Session
      <3>3. Cell("demean", f, g, k) = Cell("demean", x, y, k)
        BY <3>1, <3>2, SessionsAgree
      <3> QED
        BY <2>7, <2>11, <3>3
    <2>12. CASE Op(n) = "grouped"
      BY <2>5, <2>6, <2>8, <2>10, <2>12, LabelledAgree
    <2>13. CASE Op(n) \in Preceded
      <3>1. own = 1
        BY <2>1, <2>13 DEF OwnHistory, Preceded
      <3>2. s <= k[1] - 1
        <4>1. History[First(n)] \in Nat /\ own + History[First(n)] <= History[n]
          BY <2>1, <2>3
        <4> HIDE DEF own
        <4>2. History[n] >= 1
          BY <2>2, <3>1, <4>1
        <4> QED
          BY <1>1, <1>2, <2>2, <4>2
      <3>3. Yesterday(k) \in ReadRows(s) /\ Yesterday(k)[1] = k[1] - 1
        <4>1. Yesterday(k) \in ReadRows(s)
          BY <2>5, <3>2, RowBefore
        <4> QED
          BY <4>1 DEF Yesterday
      <3>4. f[Yesterday(k)] = x[Yesterday(k)] /\ g[Yesterday(k)] = y[Yesterday(k)]
        <4>1. Yesterday(k)[1] >= k[1] - own
          BY <1>2, <3>1, <3>3
        <4> QED
          BY <2>4, <3>3, <4>1
      <3>5. Cell(Op(n), f, g, k) = Cell(Op(n), x, y, k)
        BY <2>5, <2>6, <2>13, <3>2, <3>4, PrecedingAgree
      <3> QED
        BY <2>7, <2>13, <3>5 DEF Preceded, Windowed
    <2>14. Op(n) \notin {"ffill", "extension"}
      BY <2>1 DEF OwnHistory, Windowed
    <2> QED
      BY <1>4, <2>9, <2>11, <2>12, <2>13, <2>14
         DEF IsInput, Operators, Planned, TimeSeries, Preceded, Windowed
  <1> QED
    BY <1>3, <1>4

LEMMA HistoriesSuffice ==
    ASSUME IsGraph(graph), \A n \in Nodes : Op(n) \in Inputs \cup Operators
    PROVE  \A s \in Nat \ {0}, n \in Nodes : History[n] # Null => AgreesAt(s, n)
  <1> SUFFICES ASSUME NEW s \in Nat \ {0}
               PROVE  \A n \in Nodes : History[n] # Null => AgreesAt(s, n)
    OBVIOUS
  <1> DEFINE Bad == {n \in Nodes : ~ (History[n] # Null => AgreesAt(s, n))}
  <1>1. SUFFICES ASSUME Bad # {} PROVE FALSE
    OBVIOUS
  <1>2. Nodes = 1 .. Len(graph.op) /\ Len(graph.op) \in Nat
    BY GraphFacts
  <1>3. PICK n \in Bad : \A m \in Bad : n <= m
    <2>1. Bad \in SUBSET Nat
      BY <1>2
    <2> HIDE DEF Bad
    <2> QED
      BY <1>1, <2>1, LeastNumber
  <1>4. \A p \in ParentSet(n) : History[p] # Null => AgreesAt(s, p)
    <2>1. \A p \in ParentSet(n) : p \in Nodes /\ p < n
      BY GraphFacts
    <2> QED
      BY <1>2, <1>3, <2>1
  <1>5. n \in Nodes /\ History[n] # Null /\ ~ AgreesAt(s, n)
    OBVIOUS
  <1> HIDE DEF Bad
  <1> QED
    BY <1>4, <1>5, NodeAgrees

\* A run has one graph, whose operators are known.
KnownGraph == IsGraph(graph) /\ \A n \in Nodes : Op(n) \in Inputs \cup Operators

LEMMA GraphIsKnown == Spec => []KnownGraph
  <1>1. Init => KnownGraph
    BY ScenariosAssumption, OperatorsAssumption DEF Init, KnownGraph, Nodes, Op
  <1>2. KnownGraph /\ [Next]_vars => KnownGraph'
    <2>1. [Next]_vars => graph' = graph
      BY DEF Next, vars, scenario, PlanInput, PlanStored, PlanLazily, PlanKnown, RunInPlace, Defer, Merge,
             StartBatch, KernelEnds, Publish, PublishPartly, Finish, Fail, Retry, Ended
    <2> QED
      BY <2>1 DEF KnownGraph, IsGraph, Nodes, Op
  <1> QED
    BY <1>1, <1>2, PTL DEF Spec

\* Reading no more preceding rows than a node is proven to need changes none of
\* its values, for any graph of the operators here, any number of sessions and
\* assets and any first session that is read.  (causal_history_requirements,
\* _finite_history, and the windows of history that are cut by them)
THEOREM HistoryIsEnough == Spec => []HistorySuffices
  <1>1. KnownGraph => HistorySuffices
    <2>1. SUFFICES ASSUME KnownGraph, NEW s \in 2 .. HistorySessions, NEW n \in Nodes, History[n] # Null
                   PROVE  \A k \in DOMAIN ReadSince(s)[n] :
                              k[1] - History[n] >= s => ReadSince(s)[n][k] = ReadSince(1)[n][k]
      BY DEF HistorySuffices
    <2>2. IsGraph(graph)
      BY <2>1 DEF KnownGraph
    <2>3. s \in Nat \ {0}
      BY RuntimeAssumption
    <2>4. AgreesAt(s, n)
      BY <2>1, <2>3, HistoriesSuffice DEF KnownGraph
    <2>5. DOMAIN ReadSince(s)[n] = ReadRows(s)
      <3>1. ReadSince(s)[n] = NodeFrame(s, ReadSince(s), n)
        BY <2>2, FramesUnfold
      <3> QED
        BY <3>1 DEF NodeFrame
    <2> QED
      BY <2>4, <2>5 DEF AgreesAt
  <1> QED
    BY <1>1, GraphIsKnown, PTL
===============================================================================
