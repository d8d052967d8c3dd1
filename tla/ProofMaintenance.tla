--------------------------- MODULE ProofMaintenance ---------------------------
(***************************************************************************)
(* Explicit maintenance: results that are there are published again, by    *)
(* reference, under the keys that a newly declared history, new proofs of  *)
(* the same input or a lower information cutoff give to one node.  A plan  *)
(* is admitted after a review of original and replacement bindings; it is  *)
(* applied later, publication by publication, and an application that was  *)
(* interrupted is repeated.                                                *)
(*                                                                         *)
(* The content of the input is what the source owner's callbacks testify   *)
(* to.  One node over one external input, without regions; ordinary runs   *)
(* are one step, as FiniteBlocks has their interleavings.                  *)
(***************************************************************************)
EXTENDS FiniteWindows, Functions

CONSTANT None

VARIABLES
    version,     \* [format of proofs, information cutoff, whether finite history is declared]
    rows,        \* available materializations of the node: key |-> cells, sources and how it was made
    completed,   \* results that updates completed
    plans        \* admitted plans

vars == <<scope, operation, source, version, rows, completed, plans>>

-----------------------------------------------------------------------------
(* Keys. *)

Policy == IF version.declared THEN "finite" ELSE "generic"

\* The key of a result binds its input whole and the cutoff; that of a block what
\* its halo reads, and no cutoff.
ResultKey(content, policy, at) ==
    [kind |-> "result", policy |-> policy, first |-> 1, last |-> Len(content),
     content |-> [t \in DOMAIN content |-> content[t]], format |-> at.format, cutoff |-> at.cutoff]
BlockKey(content, origin, end, at) ==
    [kind |-> "block", policy |-> "finite", first |-> origin, last |-> end,
     content |-> [t \in Halo(content, origin) .. end |-> content[t]], format |-> at.format, cutoff |-> None]
Blocks(content, at) == {BlockKey(content, origin, BlockEnd(content, origin), at) : origin \in Origins(content)}

Known(key) == key \in DOMAIN rows
Row(cells, sources, by) == [cells |-> cells, sources |-> sources, by |-> by]
Registered(more) == [k \in DOMAIN rows \cup DOMAIN more |-> IF Known(k) THEN rows[k] ELSE more[k]]

-----------------------------------------------------------------------------
(* What is there to maintain: the source, the code and ordinary runs. *)

\* The owner of the source proves the same content in another way.
Reformat ==
    /\ version.format = 0
    /\ version' = [version EXCEPT !.format = 1]
    /\ UNCHANGED <<scope, operation, source, rows, completed, plans>>

\* A release of the code declares the operation's history.
Declare ==
    /\ ~version.declared
    /\ version' = [version EXCEPT !.declared = TRUE]
    /\ UNCHANGED <<scope, operation, source, rows, completed, plans>>

\* What became known after the lower cutoff is not read any more.
LowerCutoff(later) ==
    /\ version.cutoff = 1
    /\ version' = [version EXCEPT !.cutoff = 0]
    /\ source' = [t \in DOMAIN source |-> IF t \in later THEN [source[t] EXCEPT !.edition = 0] ELSE source[t]]
    /\ UNCHANGED <<scope, operation, rows, completed, plans>>

\* A run over completed history uses a proven block of it or refuses.
Reusable ==
    completed \cap DOMAIN rows = {}
        \/ \E origin \in Origins(source) : \E end \in origin .. BlockEnd(source, origin) :
               Known(BlockKey(source, origin, end, version))
Computed(key) ==
    [t \in key.first .. key.last |->
        Cells(source, ParentWindow(source, NumericalStart(source, key.first, key.last, key.first), key.last), t)]
Composed(keys, from) ==
    [t \in UNION {k.first .. k.last : k \in keys} |->
        from[CHOOSE k \in keys : t \in k.first .. k.last].cells[t]]

Run ==
    LET result == ResultKey(source, Policy, version)
        blocks == IF version.declared THEN Blocks(source, version) ELSE {}
        made == [k \in blocks |-> IF Known(k) THEN rows[k] ELSE Row(Computed(k), {}, None)]
        whole == IF version.declared THEN Row(Composed(blocks, made), blocks, None)
                 ELSE Row([t \in DOMAIN source |-> Cells(source, DOMAIN source, t)], {}, None)
    IN  /\ source # <<>> /\ ~Known(result) /\ Cardinality(completed) < scope.maxRuns
        /\ version.declared => Reusable
        /\ rows' = Registered([k \in blocks \cup {result} |-> IF k = result THEN whole ELSE made[k]])
        /\ completed' = completed \cup {result}
        /\ UNCHANGED <<scope, operation, source, version, plans>>

\* An update that finds its result published, by maintenance or by an earlier run.
Adopt ==
    LET result == ResultKey(source, Policy, version) IN
    /\ Known(result) /\ result \notin completed /\ Cardinality(completed) < scope.maxRuns
    /\ completed' = completed \cup {result}
    /\ UNCHANGED <<scope, operation, source, version, rows, plans>>

-----------------------------------------------------------------------------
(* Plans.  Each has its target, the row it relies on, and the entries to be published *)
(* in order.                                                                          *)

Plan(mode, original, target, entries) ==
    [mode |-> mode, original |-> original, authority |-> rows[original], target |-> target, entries |-> entries]
Admit(plan) ==
    /\ Len(plans) < scope.maxPlans /\ plan \notin {plans[i] : i \in DOMAIN plans}
    /\ plans' = Append(plans, plan)
    /\ UNCHANGED <<scope, operation, source, version, rows, completed>>

\* Operations whose whole-domain execution has no state that a block would reset.
AnyOperation == TRUE
Equivalent == operation = "exact"

\* A completed generic result of an operation that has a finite history now: the
\* blocks it consists of, and their aggregate.
PlanContract(original) ==
    LET target == [original EXCEPT !.policy = "finite"]
        block(i) == BlockKey(original.content, (i - 1) * CanonicalSessions + 1,
                             BlockEnd(original.content, (i - 1) * CanonicalSessions + 1), version)
        count == Cardinality(Origins(original.content))
    IN  /\ version.declared /\ Equivalent
        /\ original \in completed /\ original.policy = "generic" /\ rows[original].by = None
        /\ Admit(Plan("contract", original, target, [i \in 1 .. count |-> block(i)] \o <<target>>))

\* A block whose input is proven anew: everything its halo reads must be what it was.
SameOutput(original) == \A t \in original.first .. original.last : source[t] = original.content[t]
SameConsumed(original) == \A t \in DOMAIN original.content : source[t] = original.content[t]
PlanRebinding(original) ==
    LET target == [original EXCEPT !.format = version.format,
                                   !.content = [t \in DOMAIN original.content |-> source[t]]]
    IN  /\ original.kind = "block" /\ target # original
        /\ SameConsumed(original)
        /\ Admit(Plan("rebinding", original, target, <<target>>))

\* A completed result at a cutoff that has been lowered, over the same sessions.
Lowered(original) ==
    /\ original \in completed /\ original.policy = Policy
    /\ original.cutoff > version.cutoff /\ original.last = Len(source)
    /\ \A t \in DOMAIN source : source[t].members = original.content[t].members
PlanNormalization(original) ==
    LET target == ResultKey(source, Policy, version) IN
    /\ Lowered(original)
    /\ SameConsumed(original)
    /\ Admit(Plan("normalization", original, target, <<target>>))

\* The same when only the final session may have changed: it is computed again.
\* Its support must be exact and bounded.
RepairHistory == operation \in {"pointwise", "exact"}
SamePrefixButLast(original) == \A t \in 1 .. original.last - 2 : source[t] = original.content[t]
SamePrefix(original) == \A t \in 1 .. original.last - 1 : source[t] = original.content[t]
PlanRepair(original) ==
    LET target == ResultKey(source, Policy, version)
        fragment == [target EXCEPT !.kind = "fragment", !.first = target.last]
    IN  /\ Lowered(original) /\ RepairHistory /\ original.last > 1
        /\ SamePrefix(original)
        /\ Admit(Plan("repair", original, target, <<fragment, target>>))

-----------------------------------------------------------------------------
(* Their application. *)

Start(content, last) == NumericalStart(content, last, last, last)

\* What is published for an entry: a block of the original or their aggregate, the
\* original itself, or its prefix with the one session that a repair computes.
ContractRow(plan, key) ==
    LET blocks == {plan.entries[i] : i \in 1 .. Len(plan.entries) - 1} IN
    IF key = plan.target THEN Row(Composed(blocks, rows), blocks, plan.mode)
    ELSE Row(Restrict(rows[plan.original].cells, key.first .. key.last), {plan.original}, plan.mode)
AliasRow(plan) == Row(rows[plan.original].cells, {plan.original}, plan.mode)
RepairRow(plan, key) ==
    LET last == key.last
        fragment == plan.entries[1]
        window == ParentWindow(key.content, Start(key.content, last), last)
    IN  IF key = fragment THEN Row([t \in {last} |-> Cells(key.content, window, t)], {}, None)
        ELSE Row([t \in 1 .. last |-> IF t = last THEN rows[fragment].cells[t] ELSE rows[plan.original].cells[t]],
                 {plan.original, fragment}, plan.mode)
Reference(plan, key) ==
    CASE plan.mode = "contract" -> ContractRow(plan, key)
      [] plan.mode \in {"rebinding", "normalization"} -> AliasRow(plan)
      [] plan.mode = "repair" -> RepairRow(plan, key)

\* The original is what the plan was admitted for.
Verified(plan) == Known(plan.original) /\ rows[plan.original] = plan.authority

\* The next publication of an application.
Apply(plan) ==
    /\ Verified(plan)
    /\ \E i \in DOMAIN plan.entries :
        /\ ~Known(plan.entries[i]) /\ \A j \in 1 .. i - 1 : Known(plan.entries[j])
        /\ rows' = Registered([k \in {plan.entries[i]} |-> Reference(plan, k)])
    /\ UNCHANGED <<scope, operation, source, version, completed, plans>>

\* apply_release: what nothing available refers to.
Retire(key) ==
    /\ scope.releases /\ \A k \in DOMAIN rows : key \notin rows[k].sources
    /\ rows' = Restrict(rows, DOMAIN rows \ {key})
    /\ UNCHANGED <<scope, operation, source, version, completed, plans>>

-----------------------------------------------------------------------------
Init ==
    /\ scope \in Scopes /\ operation \in Operations /\ source = <<>>
    /\ version = [format |-> 0, cutoff |-> 1, declared |-> FALSE]
    /\ rows = <<>> /\ completed = {} /\ plans = <<>>

Next ==
    \/ \E members \in SUBSET Assets :
        /\ scope.grows \/ rows = <<>>
        /\ Observe(members) /\ UNCHANGED <<version, rows, completed, plans>>
    \/ \E t \in DOMAIN source : Restate(t) /\ UNCHANGED <<version, rows, completed, plans>>
    \/ Reformat \/ Declare \/ Run \/ Adopt
    \/ \E later \in SUBSET {t \in DOMAIN source : source[t].edition = 1} : LowerCutoff(later)
    \/ \E original \in DOMAIN rows :
        \/ original.kind = "result" /\ (PlanContract(original) \/ PlanNormalization(original) \/ PlanRepair(original))
        \/ PlanRebinding(original)
        \/ Retire(original)
    \/ \E i \in DOMAIN plans : Apply(plans[i])

Spec == Init /\ [][Next]_vars

-----------------------------------------------------------------------------
\* What a computation over the content of a key gives: from the first session on
\* for a generic result, reset at halos under the finite policy.
Meaning(key) ==
    [t \in key.first .. key.last |->
        IF key.kind = "block" THEN Cells(key.content, DOMAIN key.content, t)
        ELSE IF key.policy = "generic" THEN Cells(key.content, DOMAIN key.content, t)
        ELSE WholeHistory(key.content, t)]

\* What maintenance publishes under a key is what a computation over the input that
\* the key proves would give: new proofs, a new policy or a lower cutoff never
\* attach values to an input they were not made of.
MaintainedIsComputed == \A key \in DOMAIN rows : rows[key].cells = Meaning(key)
===============================================================================
