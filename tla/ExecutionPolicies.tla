---------------------------- MODULE ExecutionPolicies ----------------------------
(***************************************************************************)
(* UpdatePlan.execute: every node of a plan is executed by one of five     *)
(* policies, each with its own keys, evidence and way to continue what is  *)
(* published.  They share the store: the rows, what is completed, the      *)
(* source and the execution in progress are the same variables.  Here the  *)
(* policies are composed side by side: a behaviour is of the nodes of one. *)
(* The maintenance of their keys is a sixth part, over the same variables. *)
(***************************************************************************)
EXTENDS FiniteBlocks

CONSTANTS
    None, Null, Absent,
    CheckpointScopes, PeriodScopes, RegionScopes, CausalScopes, MaintenanceScopes

\* As of finite histories: a positive number of sessions to a block.
ASSUME MaintenanceScopesAssumption ==
    \A lengths \in MaintenanceScopes :
        lengths.observations \in Nat /\ lengths.canonicalSessions \in Nat \ {0}

\* A window is a positive number of periods, and dates of availability count from one.
ASSUME PeriodScopesAssumption ==
    \A lengths \in PeriodScopes :
        /\ lengths.window \in Nat \ {0}
        /\ \A cell \in lengths.cells : cell.delay \in Nat

\* Nodes come after their parents; what is requested is of the graph.
ASSUME RegionScopesAssumption ==
    \A plan \in RegionScopes :
        /\ Len(plan.parents) \in Nat /\ DOMAIN plan.parents = 1 .. Len(plan.parents)
        /\ \A n \in DOMAIN plan.parents : plan.parents[n] \subseteq 0 .. n - 1
        /\ plan.canonicalSessions \in Nat \ {0}
        /\ \A request \in plan.requests : request.requested \subseteq DOMAIN plan.parents

\* Values and traces are numbers or null; the windows and maturity of an estimator are
\* numbers of sessions.
ASSUME CheckpointScopesAssumption ==
    /\ Null \notin Int
    /\ Absent \notin [value : Int \cup {Null}, trace : Int \cup {Null}]
    /\ \A bounds \in CheckpointScopes :
          /\ bounds.cells \subseteq {Absent} \cup [value : Int \cup {Null}, trace : Int \cup {Null}]
          /\ "train" \in bounds.operations =>
                bounds.training.window \in Nat /\ bounds.training.label_maturity \in Nat

\* Nodes come after their parents and have histories of a number of sessions; a plan
\* needs nodes that there are, and blocks have some sessions.
ASSUME CausalScopesAssumption ==
    \A bounds \in CausalScopes :
        /\ bounds.sessions \in Nat \ {0} /\ bounds.ends \subseteq Nat
        /\ bounds.history \in Seq(Nat)
        /\ \A n \in DOMAIN bounds.history : bounds.parent[n] = None \/ bounds.parent[n] \in 1 .. n - 1
        /\ \A roots \in bounds.roots : roots \subseteq DOMAIN bounds.history

VARIABLES
    policy,                     \* how the nodes are executed
    work,                       \* the execution of a stateful, periodic or joined node
    version, calendar,          \* identity and axis of the parents; maintenance: of proofs
    versions, through, plans,   \* causal: the versioned source; plans so far, also of maintenance
    replay,
    upgraded, certificates, seals, latest, receipts, restatements   \* regions

Checkpoint == INSTANCE CheckpointBlocks WITH Scopes <- CheckpointScopes, records <- rows
Period == INSTANCE PeriodCheckpoints
    WITH Scopes <- PeriodScopes, records <- rows, samples <- source
Region == INSTANCE RegionBlocks WITH Scopes <- RegionScopes
Causal == INSTANCE CausalReplay WITH Scopes <- CausalScopes
Maintenance == INSTANCE ProofMaintenance WITH Scopes <- MaintenanceScopes

finiteOnly == <<workers, starts, releases>>
regionOnly == <<upgraded, certificates, seals, latest, receipts, restatements>>
causalOnly == <<versions, through, replay>>
allVars == <<policy, scope, operation, source, rows, completed, finiteOnly, work, version,
             calendar, plans, causalOnly, regionOnly>>

PolicyInit ==
    \/ /\ policy = "finite" /\ Init
       /\ work = None /\ version = None /\ calendar = None /\ plans = None
       /\ versions = None /\ through = None /\ replay = None
       /\ upgraded = None /\ certificates = None /\ seals = None /\ latest = None
       /\ receipts = None /\ restatements = None
    \/ /\ policy = "checkpoint" /\ Checkpoint!Init
       /\ workers = None /\ starts = None /\ releases = None
       /\ calendar = None /\ plans = None
       /\ versions = None /\ through = None /\ replay = None
       /\ upgraded = None /\ certificates = None /\ seals = None /\ latest = None
       /\ receipts = None /\ restatements = None
    \/ /\ policy = "period" /\ Period!Init
       /\ operation = None /\ workers = None /\ starts = None /\ releases = None
       /\ plans = None /\ versions = None /\ through = None /\ replay = None
       /\ upgraded = None /\ certificates = None /\ seals = None /\ latest = None
       /\ receipts = None /\ restatements = None
    \/ /\ policy = "region" /\ Region!Init
       /\ operation = None /\ completed = None /\ workers = None /\ starts = None
       /\ releases = None /\ version = None /\ calendar = None
       /\ versions = None /\ through = None /\ replay = None
    \/ /\ policy = "causal" /\ Causal!Init
       /\ operation = None /\ source = None /\ workers = None /\ starts = None
       /\ releases = None /\ work = None /\ version = None /\ calendar = None
       /\ upgraded = None /\ certificates = None /\ seals = None /\ latest = None
       /\ receipts = None /\ restatements = None
    \/ /\ policy = "maintenance" /\ Maintenance!Init
       /\ workers = None /\ starts = None /\ releases = None
       /\ work = None /\ calendar = None
       /\ versions = None /\ through = None /\ replay = None
       /\ upgraded = None /\ certificates = None /\ seals = None /\ latest = None
       /\ receipts = None /\ restatements = None

PolicyNext ==
    /\ UNCHANGED policy
    /\ \/ /\ policy = "finite" /\ Next
          /\ UNCHANGED <<work, version, calendar, plans, causalOnly, regionOnly>>
       \/ /\ policy = "checkpoint" /\ Checkpoint!Next
          /\ UNCHANGED <<finiteOnly, calendar, plans, causalOnly, regionOnly>>
       \/ /\ policy = "period" /\ Period!Next
          /\ UNCHANGED <<operation, finiteOnly, plans, causalOnly, regionOnly>>
       \/ /\ policy = "region" /\ Region!Next
          /\ UNCHANGED <<operation, completed, finiteOnly, version, calendar, causalOnly>>
       \/ /\ policy = "causal" /\ Causal!Next
          /\ UNCHANGED <<operation, source, finiteOnly, work, version, calendar, regionOnly>>
       \/ /\ policy = "maintenance" /\ Maintenance!Next
          /\ UNCHANGED <<finiteOnly, work, calendar, causalOnly, regionOnly>>

PolicySpec == PolicyInit /\ [][PolicyNext]_allVars

-----------------------------------------------------------------------------
\* Finite history: a published result is one computation over all history, however
\* it was cut, resumed, batched or repeated (incremental.py, execute_finite_node).
FiniteResultsAreWholeHistory == policy = "finite" => ResultsAreWholeHistory

\* Finite history: what is published under a key is a function of what the key
\* proves, whatever route led to it.
FiniteBlocksFollowProofs == policy = "finite" => BlocksFollowProofs

\* Finite history: no session is computed that a proven block at hand covers, and an
\* execution over completed history that ends has used some of it.
FiniteHistoryIsReused ==
    policy = "finite" => NothingProvenIsRecomputed /\ CompletedHistoryIsReused

\* Checkpoints: streaks, moments, estimators and their traces, continued from
\* retained or certified state, are those of one execution over the whole source
\* (incremental.py, execute_checkpoint_node).
CheckpointResumedIsWholeHistory == policy = "checkpoint" => Checkpoint!ResumedIsWholeHistory

\* Checkpoints: completed history is continued from the newest state whose prefix
\* has stayed what it was, never replayed.
CheckpointHistoryIsContinued == policy = "checkpoint" => Checkpoint!HistoryIsContinued

\* Periods: every session has the prediction that was known on its day, from
\* statistics of whatever earlier results (incremental.py, _execute_period_checkpoint).
PeriodPredictionsAreOfTheirDay == policy = "period" => Period!PredictionsAreOfTheirDay

\* Regions: however nodes are joined, no node is computed by two regions, what is
\* read has been published, and results are what their nodes give (regions.py).
RegionsAreWholeHistory == policy = "region" => Region!RegionsKeepWholeHistory

\* Versions: every published cell is what was known on its own day (causal.py), as its
\* opening lines say of every update.  The code does not keep this (MCCausalBuffer).
OutputsArePointInTime == policy = "causal" => Causal!OutputsArePointInTime

\* Versions: no published cell has anything that became known after its day, or was
\* replaced by then, or has some versions of a session without the others; and every
\* one is exactly what was known on its own day when the nodes that are replayed
\* together have even histories, or histories that grow along the graph (causal.py).
OutputsAreOfTheirDay == policy = "causal" => Causal!OutputsAreOfTheirDay

\* Maintenance: what is published by reference under a new policy, new proofs or a
\* lower cutoff is what a computation over the input of its key would give
\* (finite_contract_maintenance.py, proof_maintenance.py, cutoff_proof.py, cutoff_repair.py).
MaintainedIsComputed == policy = "maintenance" => Maintenance!MaintainedIsComputed
=============================================================================
