--------------------------- MODULE OperationReserves ---------------------------
(***************************************************************************)
(* The two bounded reserves in which an operation shares what it has read: *)
(* the preparation of an update plan, and the memo of a read session.  Both *)
(* order their entries alike; a behaviour is of one of them.               *)
(***************************************************************************)
EXTENDS Preparation

CONSTANTS
    Threads, Results, Sources, MaximumBytes, ManifestCharge, BindingCharge, MaxChecks, None

ASSUME SourcesAssumption ==
    Results \subseteq Nat /\ \A r \in Results : Sources[r] \subseteq {s \in Results : s < r}

ASSUME ChargesAssumption ==
    ManifestCharge \in Nat /\ BindingCharge \in Nat /\ MaximumBytes \in Nat

VARIABLES
    reserve,                              \* "preparation" or "memo"
    closed, authority, checks, started    \* of the memo

Memo == INSTANCE MetadataMemo

preparationOnly == <<maximum, inFlight, stacks, calls>>
memoOnly == <<closed, authority, checks, started>>
allVars == <<reserve, values, bytes, preparationOnly, memoOnly>>

ReserveInit ==
    \/ /\ reserve = "preparation" /\ Init
       /\ closed = None /\ authority = None /\ checks = None /\ started = None
    \/ /\ reserve = "memo" /\ Memo!Init
       /\ maximum = None /\ inFlight = None /\ calls = None
       /\ stacks = [w \in Workers |-> <<>>]

ReserveNext ==
    /\ UNCHANGED reserve
    /\ \/ reserve = "preparation" /\ Next /\ UNCHANGED memoOnly
       \/ reserve = "memo" /\ Memo!Next /\ UNCHANGED preparationOnly

WorkerProgress(w) ==
    reserve = "preparation" /\ Progress(w) /\ UNCHANGED <<reserve, memoOnly>>

\* Builds end, one way or the other, and a thread that can run does.
ReserveSpec ==
    ReserveInit /\ [][ReserveNext]_allVars /\ \A w \in Workers : WF_allVars(WorkerProgress(w))

-----------------------------------------------------------------------------
\* Preparation: one build at a time per entry, and no event without the build that will
\* set it (preparation.py, remember).
BuildsAreSingle == reserve = "preparation" => SingleFlight

\* Both reserves: no entry is twice in them, and the account is exact and within its bound,
\* whatever is evicted, discarded, cleared or restricted meanwhile (preparation.py,
\* metadata_memo.py).
ReservesAreExact ==
    IF reserve = "preparation" THEN TypeOK /\ ReserveIsExact ELSE Memo!AccountIsExact

\* Both reserves: windows, values and metadata bodies never flush evidence
\* (_priority_lru.py and its callers).
EvidenceStays ==
    [][IF reserve = "preparation" THEN FlushesNoEvidence(values, values')
       ELSE Memo!FlushesNoEvidence(values, values')]_allVars

\* The memo: a fresh or closing verification borrows no success of readers before it
\* (store.py, "Closing checks start fresh in this writer snapshot").
FreshChecksHold == reserve = "memo" => Memo!FreshChecksHold
=============================================================================
