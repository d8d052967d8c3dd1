----------------------------- MODULE Preparation -----------------------------
(***************************************************************************)
(* ExecutionPreparation: the byte-bounded, single-flight reserve in which  *)
(* the workers of one update plan share immutable preparation.             *)
(*                                                                         *)
(* A build runs outside the lock and may itself remember other entries, so *)
(* a worker is a stack of calls.  Values are left out: entries are         *)
(* immutable and a locator determines its value and its charge.            *)
(***************************************************************************)
EXTENDS Integers, FiniteSets, Sequences

CONSTANTS
    Locators,   \* (kind, key) pairs
    Charge,     \* locator |-> the bytes its entry is debited
    Priority,   \* locator |-> 0 for windows and values, 1 and 2 for evidence
    Inner,      \* locator |-> what its build remembers on the way
    Depth,      \* locator |-> its nesting depth
    Scoped,     \* locators of one fresh verification scope
    Workers,    \* threads executing nodes of the plan
    Budget,     \* the reserve at construction
    MaxCalls    \* bound on the outermost calls of one worker

ChargeOf(l) == Charge[l]
PriorityOf(l) == Priority[l]
INSTANCE PriorityLRU

ASSUME EntriesAssumption ==
    /\ Charge \in [Locators -> Nat \ {0}]
    /\ Priority \in [Locators -> Levels]
    /\ Scoped \subseteq Locators
ASSUME NestingAssumption ==
    /\ Inner \in [Locators -> SUBSET Locators]
    /\ Depth \in [Locators -> Nat]
    /\ \A l \in Locators : \A i \in Inner[l] : Depth[i] < Depth[l]
ASSUME BoundsAssumption == Budget \in Nat /\ MaxCalls \in Nat

VARIABLES
    values,    \* the entries, least recently used first
    bytes,     \* what they are charged
    maximum,   \* maximum_bytes
    inFlight,  \* locators with an unset Event
    stacks,    \* the remember calls of each worker, innermost last
    calls      \* outermost calls made

vars == <<values, bytes, maximum, inFlight, stacks, calls>>

-----------------------------------------------------------------------------
(* remember(). *)

Call(l) == [locator |-> l, step |-> "look", inner |-> Inner[l]]
CallSteps == {"look", "wait", "build", "built"}

Active(w) == stacks[w] # <<>>
Top(w) == stacks[w][Len(stacks[w])]
At(w, step) == Active(w) /\ Top(w).step = step

Becomes(w, call) == stacks' = [stacks EXCEPT ![w][Len(stacks[w])] = call]
Returned(stack) == SubSeq(stack, 1, Len(stack) - 1)
Returns(w) == stacks' = [stacks EXCEPT ![w] = Returned(@)]

Remember(w, l) ==
    /\ ~ Active(w)
    /\ calls[w] < MaxCalls
    /\ stacks' = [stacks EXCEPT ![w] = <<Call(l)>>]
    /\ calls' = [calls EXCEPT ![w] = @ + 1]
    /\ UNCHANGED <<values, bytes, maximum, inFlight>>

\* The locked look-up: a hit becomes the most recent entry, the first to miss
\* builds, everyone after it waits.
Hit(w) ==
    /\ At(w, "look")
    /\ Top(w).locator \in Cached(values)
    /\ values' = Used(values, Top(w).locator)
    /\ Returns(w)
    /\ UNCHANGED <<bytes, maximum, inFlight, calls>>

\* Mutant: the build in flight goes unnoticed.
Unseen(l) == l \notin Cached(values)

MustBuild(l) == l \notin Cached(values) \cup inFlight

StartBuild(w) ==
    /\ At(w, "look")
    /\ MustBuild(Top(w).locator)
    /\ inFlight' = inFlight \cup {Top(w).locator}
    /\ Becomes(w, [Top(w) EXCEPT !.step = "build"])
    /\ UNCHANGED <<values, bytes, maximum, calls>>

Wait(w) ==
    /\ At(w, "look")
    /\ Top(w).locator \in inFlight \ Cached(values)
    /\ ~ MustBuild(Top(w).locator)
    /\ Becomes(w, [Top(w) EXCEPT !.step = "wait"])
    /\ UNCHANGED <<values, bytes, maximum, inFlight, calls>>

\* The build remembers something on its way.
Nest(w, l) ==
    /\ At(w, "build")
    /\ l \in Top(w).inner
    /\ stacks' = [stacks EXCEPT ![w] =
                     Append(Returned(@), [Top(w) EXCEPT !.inner = @ \ {l}]) \o <<Call(l)>>]
    /\ UNCHANGED <<values, bytes, maximum, inFlight, calls>>

\* A build that returns a value enters it if it fits, in one locked section;
\* an absent value, or one that raises, enters nothing.
Enter(w) ==
    /\ At(w, "build") /\ Top(w).inner = {}
    /\ LET l == Top(w).locator
           gone == Evicted(values, Priority[l], bytes + Charge[l] - maximum)
           left == Without(values, gone)
           debited == bytes - TotalCharge(gone)
       IN  IF Charge[l] > maximum
           THEN UNCHANGED <<values, bytes>>
           ELSE IF debited + Charge[l] <= maximum
           THEN values' = Append(left, l) /\ bytes' = debited + Charge[l]
           ELSE values' = left /\ bytes' = debited
    /\ Becomes(w, [Top(w) EXCEPT !.step = "built"])
    /\ UNCHANGED <<maximum, inFlight, calls>>

EndWithout(w) ==
    /\ At(w, "build")
    /\ Becomes(w, [Top(w) EXCEPT !.step = "built"])
    /\ UNCHANGED <<values, bytes, maximum, inFlight, calls>>

\* Mutant: the event is dropped without being set.
Undisturbed(stack, l) == stack

\* The event is set: whoever waits for it looks again.
Woken(stack, l) ==
    [i \in DOMAIN stack |->
        IF stack[i].locator = l /\ stack[i].step = "wait"
        THEN [stack[i] EXCEPT !.step = "look"] ELSE stack[i]]

\* The finally clause.
Settle(w) ==
    /\ At(w, "built")
    /\ LET l == Top(w).locator IN
       /\ inFlight' = inFlight \ {l}
       /\ stacks' = [v \in Workers |->
                        IF v = w THEN Returned(stacks[v]) ELSE Woken(stacks[v], l)]
    /\ UNCHANGED <<values, bytes, maximum, calls>>

\* check_canceled raises while waiting.  An inner call has no such check.
Cancel(w) ==
    /\ At(w, "wait") /\ Len(stacks[w]) = 1
    /\ Returns(w)
    /\ UNCHANGED <<values, bytes, maximum, inFlight, calls>>

-----------------------------------------------------------------------------
(* The rest of the interface. *)

\* Mutant: a smaller reserve waits for the next entry to make room.
NothingOver(limit) == 0

Excess(limit) == bytes - limit

\* restrict: later admissions may shrink the reserve, never enlarge it.
RestrictTo(limit) ==
    /\ limit < maximum
    /\ LET gone == Evicted(values, 2, Excess(limit)) IN
       /\ values' = Without(values, gone)
       /\ bytes' = bytes - TotalCharge(gone)
    /\ maximum' = limit
    /\ UNCHANGED <<inFlight, stacks, calls>>

\* discard_scope, when a fresh verification ends.
DiscardScope ==
    /\ Scoped \cap Cached(values) # {}
    /\ values' = Without(values, Scoped)
    /\ bytes' = bytes - TotalCharge(Scoped \cap Cached(values))
    /\ UNCHANGED <<maximum, inFlight, stacks, calls>>

\* clear, once the update is published.
Clear ==
    /\ values # <<>>
    /\ values' = <<>>
    /\ bytes' = 0
    /\ UNCHANGED <<maximum, inFlight, stacks, calls>>

-----------------------------------------------------------------------------
Init ==
    /\ values = <<>> /\ bytes = 0
    /\ maximum = Budget
    /\ inFlight = {}
    /\ stacks = [w \in Workers |-> <<>>]
    /\ calls = [w \in Workers |-> 0]

\* What a worker does with its innermost call.
Progress(w) ==
    \/ Hit(w) \/ StartBuild(w) \/ Wait(w)
    \/ \E l \in Locators : Nest(w, l)
    \/ Enter(w) \/ EndWithout(w) \/ Settle(w)

Next ==
    \/ \E w \in Workers :
            \/ \E l \in Locators : Remember(w, l)
            \/ Progress(w)
            \/ Cancel(w)
    \/ \E limit \in 0 .. Budget : RestrictTo(limit)
    \/ DiscardScope
    \/ Clear

\* Builds end, one way or the other, and a thread that can run does.
Spec == Init /\ [][Next]_vars /\ \A w \in Workers : WF_vars(Progress(w))

-----------------------------------------------------------------------------
(* Correctness. *)

TypeOK ==
    /\ Cached(values) \subseteq Locators /\ Distinct(values)
    /\ bytes \in Nat
    /\ maximum \in 0 .. Budget
    /\ inFlight \subseteq Locators
    /\ \A w \in Workers : \A i \in DOMAIN stacks[w] :
           /\ stacks[w][i].locator \in Locators
           /\ stacks[w][i].step \in CallSteps
           /\ stacks[w][i].inner \subseteq Inner[stacks[w][i].locator]
    /\ \A w \in Workers : calls[w] \in 0 .. MaxCalls

\* The account is exact and within the reserve, whatever was evicted,
\* discarded, cleared or restricted while builds were in flight.
ReserveIsExact == bytes = TotalCharge(Cached(values)) /\ bytes <= maximum

Builders(l) ==
    {at \in UNION {{w} \X DOMAIN stacks[w] : w \in Workers} :
        LET call == stacks[at[1]][at[2]] IN call.locator = l /\ call.step \in {"build", "built"}}

\* One build at a time per entry, and no event without the build that will
\* set it.
SingleFlight ==
    \A l \in Locators : Cardinality(Builders(l)) = IF l \in inFlight THEN 1 ELSE 0

\* Every call returns, through nested builds, failures, evictions and waits.
CallsReturn == \A w \in Workers : Active(w) ~> ~ Active(w)

=============================================================================
