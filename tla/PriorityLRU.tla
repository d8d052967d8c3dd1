----------------------------- MODULE PriorityLRU -----------------------------
(***************************************************************************)
(* The order in which the bounded reserves of an operation give entries up: *)
(* the lowest priority first, and the least recently used of it.  A reserve *)
(* is a sequence of entries without repetition, oldest first; its lock is   *)
(* its caller's.                                                           *)
(***************************************************************************)
EXTENDS Integers, FiniteSets, Sequences

CONSTANTS
    ChargeOf(_),     \* the bytes an entry is debited
    PriorityOf(_)    \* 0 for windows and values, 1 for metadata, 2 for evidence

Levels == 0 .. 2

Cached(seq) == {seq[i] : i \in DOMAIN seq}

\* No entry is twice in a reserve.
Distinct(seq) == \A i, j \in DOMAIN seq : seq[i] = seq[j] => i = j

\* What is left in its order when S goes.
Without(seq, S) ==
    LET kept == {i \in DOMAIN seq : seq[i] \notin S}
        place(i) == Cardinality({j \in kept : j <= i})
    IN  [k \in 1 .. Cardinality(kept) |-> seq[CHOOSE i \in kept : place(i) = k]]

\* A hit becomes the most recent entry.
Used(seq, e) == Append(Without(seq, {e}), e)

\* The bytes that the entries of S are debited.
TotalCharge(S) == Cardinality(UNION {{e} \X (1 .. ChargeOf(e)) : e \in S})

\* Mutant: any entry may make room for any other.
AnyVictims(seq, level) == Cached(seq)

Victims(seq, level) == {e \in Cached(seq) : PriorityOf(e) <= level}

\* first_at_most: the lowest priority first, and of it the oldest.
GoesBefore(seq, d, e) ==
    \/ PriorityOf(d) < PriorityOf(e)
    \/ /\ PriorityOf(d) = PriorityOf(e)
       /\ \E i, j \in DOMAIN seq : i < j /\ seq[i] = d /\ seq[j] = e

\* The victims that go, one by one, while a reserve is still over by so many bytes.
Evicted(seq, level, over) ==
    {e \in Victims(seq, level) :
        TotalCharge({d \in Victims(seq, level) : GoesBefore(seq, d, e)}) < over}

\* What comes in flushes nothing of a higher priority.
FlushesNoEvidence(before, after) ==
    \A new \in Cached(after) \ Cached(before) :
        \A old \in Cached(before) \ Cached(after) : PriorityOf(old) <= PriorityOf(new)
=============================================================================
