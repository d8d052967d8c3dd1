---------------------------- MODULE FiniteWindows ----------------------------
(***************************************************************************)
(* What one operation with finite history reads to compute a stretch of    *)
(* its output, over a Domain whose members come and go.                    *)
(*                                                                         *)
(* source[t] is the content of session t: which assets are members, and    *)
(* which edition of the parents' values is current.  Membership is what    *)
(* counts as an observation, null or not.                                  *)
(*                                                                         *)
(* Operations are of four kinds: "pointwise" (no history), "exact" (kernels *)
(* of _EXACT_WINDOW_OPERATORS: only the last observations matter), "lag"   *)
(* (shifted on the calendar) and "canonical" (an accumulator runs from     *)
(* where reading starts, so where it starts shows in the last bits).       *)
(* Numbers are abstracted to what they were computed from.                 *)
(***************************************************************************)
EXTENDS Integers, FiniteSets, FiniteSetsExt, Sequences

CONSTANTS
    Assets,
    Operations,          \* kinds of operation, a set of the four
    Scopes               \* window and block lengths, with their bounds

ASSUME OperationsAssumption == Operations \subseteq {"pointwise", "exact", "lag", "canonical"}
ASSUME ScopesAssumption ==
    \A scope \in Scopes : scope.observations \in Nat /\ scope.canonicalSessions \in Nat \ {0}

VARIABLES
    scope,       \* the lengths of this behaviour, fixed
    operation,   \* the node's operation, fixed
    source       \* the parents and the Domain, session by session

\* history_observations of an operation that has history; sessions in a block.
Observations == scope.observations
CanonicalSessions == scope.canonicalSessions

Contents == [members : SUBSET Assets, edition : {0, 1}]

History == IF operation = "pointwise" THEN 0 ELSE Observations

-----------------------------------------------------------------------------
(* The calendar and its blocks, anchored at the first session. *)

\* Mutant: sessions counted from zero.
CountedFromZero(t) == t - (t % CanonicalSessions)

Origin(t) == t - ((t - 1) % CanonicalSessions)
Origins(s) == {t \in 1 .. Len(s) : Origin(t) = t}
BlockEnd(s, origin) == Min({origin + CanonicalSessions - 1, Len(s)})

\* The k latest of a set of sessions.
Latest(S, k) == {t \in S : Cardinality({u \in S : u > t}) < k}

\* The sessions before t of which an asset was a member.
Observed(s, asset, t) == {u \in DOMAIN s : u < t /\ asset \in s[u].members}

\* Mutant: observations counted in sessions.
CalendarHalo(s, origin) == Max({1, origin - History})

\* Where the history of a block begins: enough sessions, and enough
\* observations of every asset seen before.
Halo(s, origin) ==
    IF origin = 1 THEN 1
    ELSE Min({Max({1, origin - History})}
             \cup UNION {Latest(Observed(s, a, origin), History) : a \in Assets})

\* Mutant: exited assets forgotten.
CalendarStart(s, first, last, origin) == Max({1, first - History})

\* Where reading starts to compute first .. last of the block at origin.
NumericalStart(s, first, last, origin) ==
    CASE operation = "pointwise" -> first
      [] operation = "lag" -> Max({1, first - History})
      [] operation = "exact" ->
            Min({Max({1, first - History})}
                \cup UNION {Latest(Observed(s, a, first), History) :
                               a \in UNION {s[t].members : t \in first .. last}})
      [] operation = "canonical" -> Halo(s, origin)

\* The sessions of start .. end, read in slabs aligned to blocks.
ParentWindow(s, start, end) ==
    LET slabs == {o \in Origins(s) : Origin(start) <= o /\ o <= end} IN
    {t \in UNION {o .. Min({end, o + CanonicalSessions - 1}) : o \in slabs} : t >= start}

-----------------------------------------------------------------------------
(* Kernels. *)

\* The sessions that the output of an asset at t is computed from.
Consumed(s, window, asset, t) ==
    CASE operation = "pointwise" -> {t}
      [] operation = "lag" -> {t - History} \cap window
      [] operation = "exact" -> {t} \cup Latest(Observed(s, asset, t) \cap window, History)
      [] operation = "canonical" -> {u \in window : u <= t}

Cells(s, window, t) ==
    [a \in s[t].members |-> [u \in Consumed(s, window, a, t) |-> s[u]]]

\* One invocation: output first .. last, read from start on.
Kernel(s, start, first, last) ==
    LET window == ParentWindow(s, start, last) IN
    [t \in first .. last |-> Cells(s, window, t)]

\* The output at t computed from everything there is; an accumulator starts
\* at the canonical halo of its block.
WholeHistory(s, t) ==
    Cells(s, (IF operation = "canonical" THEN Halo(s, Origin(t)) ELSE 1) .. t, t)

\* What an operation was promised: a window reaches the last observations.
Reaches(s, t, cells) ==
    operation \in {"exact", "canonical"} =>
        \A a \in s[t].members : Latest(Observed(s, a, t), History) \subseteq DOMAIN cells[a]

-----------------------------------------------------------------------------
(* What time does to the source. *)

Observe(members) ==
    /\ Len(source) < scope.maxSessions
    /\ Cardinality(members \cup UNION {source[t].members : t \in DOMAIN source}) <= scope.maxAssets
    /\ source' = Append(source, [members |-> members, edition |-> 0])
    /\ UNCHANGED <<scope, operation>>

Restated == Cardinality({t \in DOMAIN source : source[t].edition > 0})

Restate(t) ==
    /\ Restated < scope.maxRestatements
    /\ source[t].edition = 0
    /\ source' = [source EXCEPT ![t].edition = 1]
    /\ UNCHANGED <<scope, operation>>
=============================================================================
