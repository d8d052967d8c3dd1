----------------------------- MODULE MetadataMemo -----------------------------
(***************************************************************************)
(* The memo of one read session, and the verifications that its threads    *)
(* run through it.  A verification walks from a result to the originals it *)
(* was made of; what it has found good it leaves in the memo, where the    *)
(* others save themselves the walk.  The closing verification of a writer  *)
(* asks in a scope of its own, and takes nothing from before.              *)
(*                                                                         *)
(* Of the metadata kept, the manifests and the source bindings of originals *)
(* are modelled.  An original's authority, once lost, does not come back.  *)
(***************************************************************************)
EXTENDS Integers, FiniteSets, Sequences

CONSTANTS
    Results,         \* numbered so that originals come first
    Sources,         \* result |-> the originals its row refers to
    Threads,
    MaximumBytes,
    ManifestCharge, BindingCharge,   \* what an entry of each kind is debited
    MaxChecks,       \* bound on the verifications of a behaviour
    None

VARIABLES
    values,      \* entries of the memo, least recently used first
    bytes,       \* what they are charged
    closed,
    authority,   \* the originals whose registered metadata is in order
    checks,      \* the verification of each thread, or None
    started      \* verifications so far

vars == <<values, bytes, closed, authority, checks, started>>

ReadersScope == 0

Entry(scope, kind, r) == [scope |-> scope, kind |-> kind, result |-> r]
ChargeOf(entry) == IF entry.kind = "manifest" THEN ManifestCharge ELSE BindingCharge
PriorityOf(entry) == IF entry.kind = "manifest" THEN 1 ELSE 2
INSTANCE PriorityLRU

-----------------------------------------------------------------------------
(* get and put, each under the memo's lock.  A manifest that finds nothing but *)
(* evidence stays out, whatever it was itself.                                 *)

Has(entry) == entry \in Cached(values)

Get(entry) == values' = Used(values, entry) /\ UNCHANGED bytes

Put(entry) ==
    LET charge == ChargeOf(entry)
        others == Without(values, {entry})
        before == bytes - (IF Has(entry) THEN charge ELSE 0)
        gone == Evicted(others, PriorityOf(entry), before + charge - MaximumBytes)
        left == Without(others, gone)
        debited == before - TotalCharge(gone)
    IN  IF closed \/ charge > MaximumBytes THEN UNCHANGED <<values, bytes>>
        ELSE IF left # <<>> /\ debited + charge > MaximumBytes
        THEN values' = left /\ bytes' = debited
        ELSE values' = Append(left, entry) /\ bytes' = debited + charge

\* Mutant: the bytes of a scope's entries stay debited.
NotCredited(entries) == bytes
Credited(entries) == bytes - TotalCharge(entries)

DiscardScope(scope) ==
    LET own == {entry \in Cached(values) : entry.scope = scope} IN
    /\ values' = Without(values, own)
    /\ bytes' = Credited(own)

-----------------------------------------------------------------------------
(* _verify_reference_sources: a frame for each result on the way down. *)

Frame(r) == [result |-> r, step |-> "look", todo |-> Sources[r]]
Running(t) == checks[t] # None /\ checks[t].frames # <<>>
Top(t) == checks[t].frames[Len(checks[t].frames)]
At(t, step) == Running(t) /\ Top(t).step = step
Above(t) == SubSeq(checks[t].frames, 1, Len(checks[t].frames) - 1)
Becomes(t, frames) == checks' = [checks EXCEPT ![t].frames = frames]

\* manifest() reads, verify() asks afresh, publish and commit_update ask afresh and
\* close: they hold the writer's lock.
Kinds == {"reading", "fresh", "closing"}
Closing(t) == checks[t] # None /\ checks[t].kind = "closing"

\* Mutant: a fresh verification shares what the readers found.
BorrowedScope(kind) == ReadersScope
ScopeOf(kind) == IF kind = "reading" THEN ReadersScope ELSE started + 1

\* A transaction sees the state in which it began.
Begin(t, kind, r) ==
    /\ ~closed /\ checks[t] = None /\ started < MaxChecks
    /\ kind = "closing" => ~\E u \in Threads : Closing(u)
    /\ started' = started + 1
    /\ checks' = [checks EXCEPT ![t] =
           [kind |-> kind, scope |-> ScopeOf(kind), result |-> r, sees |-> authority,
            frames |-> <<Frame(r)>>]]
    /\ UNCHANGED <<values, bytes, closed, authority>>

Key(t, kind, r) == Entry(checks[t].scope, kind, r)

\* What has been verified in this scope is not walked again.
Found(t) ==
    /\ At(t, "look") /\ Has(Key(t, "bindings", Top(t).result))
    /\ Get(Key(t, "bindings", Top(t).result))
    /\ Becomes(t, Above(t))
    /\ UNCHANGED <<closed, authority, started>>

Walk(t) ==
    /\ At(t, "look") /\ ~Has(Key(t, "bindings", Top(t).result))
    /\ Becomes(t, Append(Above(t), [Top(t) EXCEPT !.step = "sources"]))
    /\ UNCHANGED <<values, bytes, closed, authority, started>>

Rest(t, s) == Append(Above(t), [Top(t) EXCEPT !.todo = @ \ {s}])

\* An original whose sources are known good is passed over; that of another is
\* taken from the memo or read and kept, and its own sources come next.
Source(t, s) ==
    /\ At(t, "sources") /\ s \in Top(t).todo
    /\ LET bindings == Key(t, "bindings", s)
           manifest == Key(t, "manifest", s)
       IN  \/ /\ Has(bindings)
              /\ Get(bindings) /\ Becomes(t, Rest(t, s))
           \/ /\ ~Has(bindings)
              /\ \/ Has(manifest) /\ Get(manifest)
                 \/ ~Has(manifest) /\ s \in checks[t].sees /\ Put(manifest)
              /\ Becomes(t, Append(Rest(t, s), Frame(s)))
    /\ UNCHANGED <<closed, authority, started>>

\* Nothing is left of a result: it and all it was made of are good.
Verified(t) ==
    /\ At(t, "sources") /\ Top(t).todo = {}
    /\ Put(Key(t, "bindings", Top(t).result))
    /\ Becomes(t, Above(t))
    /\ UNCHANGED <<closed, authority, started>>

Leave(t) ==
    /\ checks' = [checks EXCEPT ![t] = None]
    /\ IF checks[t].kind = "reading" THEN UNCHANGED <<values, bytes>> ELSE DiscardScope(checks[t].scope)
    /\ UNCHANGED <<closed, authority, started>>

\* The transaction commits, or an original is missing.
Accept(t) == checks[t] # None /\ checks[t].frames = <<>> /\ Leave(t)
Refuse(t) ==
    /\ At(t, "sources")
    /\ \E s \in Top(t).todo \ checks[t].sees :
        ~Has(Key(t, "bindings", s)) /\ ~Has(Key(t, "manifest", s))
    /\ Leave(t)

-----------------------------------------------------------------------------
\* The registered metadata of an original is damaged, by whoever can write.
Lose(r) ==
    /\ r \in authority /\ ~\E t \in Threads : Closing(t)
    /\ authority' = authority \ {r}
    /\ UNCHANGED <<values, bytes, closed, checks, started>>

\* The session ends; threads that are still in it get and keep nothing.
Close ==
    /\ ~closed /\ closed' = TRUE
    /\ values' = <<>> /\ bytes' = 0
    /\ UNCHANGED <<authority, checks, started>>

Init ==
    /\ values = <<>> /\ bytes = 0 /\ closed = FALSE
    /\ authority = Results
    /\ checks = [t \in Threads |-> None]
    /\ started = 0

Next ==
    \/ \E t \in Threads :
        \/ \E kind \in Kinds, r \in Results : Begin(t, kind, r)
        \/ Found(t) \/ Walk(t) \/ Verified(t) \/ Accept(t) \/ Refuse(t)
        \/ \E s \in Results : Source(t, s)
    \/ \E r \in Results : Lose(r)
    \/ Close

Spec == Init /\ [][Next]_vars

-----------------------------------------------------------------------------
\* All that a result was made of.
Ancestors(r) ==
    {s \in Results :
        \A T \in SUBSET Results :
            Sources[r] \subseteq T /\ (\A q \in T : Sources[q] \subseteq T) => s \in T}

\* No entry is twice in the memo, and its account is exact and within its maximum.
AccountIsExact ==
    /\ Distinct(values)
    /\ bytes = TotalCharge(Cached(values)) /\ bytes <= MaximumBytes

\* What a fresh verification accepts was good when its transaction began, and what a
\* closing one accepts is good now, whatever readers have found before: all that the
\* result was made of has its authority.
FreshChecksHold ==
    \A t \in Threads :
        checks[t] # None /\ checks[t].frames = <<>> =>
            /\ checks[t].kind = "fresh" => Ancestors(checks[t].result) \subseteq checks[t].sees
            /\ checks[t].kind = "closing" => Ancestors(checks[t].result) \subseteq authority
=============================================================================
