---------------------------- MODULE ArtifactStore ----------------------------
(***************************************************************************)
(* Rows and files of one CoreStore: publication of results into fresh      *)
(* generation directories, retirement with its journaled unlinking,        *)
(* revival, and cleanup of generations no row names.                       *)
(*                                                                         *)
(* SQLite serialises writer transactions, so everything inside one is a    *)
(* step; the file system is not transactional, so a crash inside one may   *)
(* leave any part of its file operations behind and none of its rows.      *)
(*                                                                         *)
(* A row names its files.  "values" stands for the numerical partitions of *)
(* a result, "domain" for its calendar and membership.                     *)
(* Two manifests have one content identity exactly when their layouts are  *)
(* equal: results are deterministic, and paths are not content.            *)
(***************************************************************************)
EXTENDS Naturals, FiniteSets, Sequences

CONSTANTS
    Results,         \* materialization identities
    Source,          \* result |-> what it can be composed from, or None
    DomainOf,        \* result |-> the signature of its Domain
    Workers,         \* threads and processes that publish
    MaxGenerations,  \* bound on publications started
    MaxReleases,     \* bound on retirements journaled
    None

ASSUME SourceAssumption == Source \in [Results -> Results \cup {None}]
ASSUME DomainAssumption == DOMAIN DomainOf = Results
ASSUME BoundsAssumption == MaxGenerations \in Nat /\ MaxReleases \in Nat
ASSUME NoneAssumption == None \notin Results

VARIABLES
    rows,        \* materializations: the manifest of each result, or None
    retired,     \* materialization_releases
    disk,        \* files under values/
    generation,  \* generation names handed out
    workers,     \* publications in progress
    journal,     \* artifact_release_plans, in the order they were applied
    release,     \* a reviewed release plan in its owner's hands
    cleanup      \* a reviewed cleanup plan in its owner's hands

publication == <<generation, workers>>
vars == <<rows, retired, disk, publication, journal, release, cleanup>>

-----------------------------------------------------------------------------
(* Rows and files. *)

Layouts == {"fresh", "composed"}
Generations == 1 .. MaxGenerations
Slots == {"values", "domain"}
Files == Generations \X Slots

Manifests == [layout : Layouts, values : SUBSET Files, domain : Files]

FilesOf(manifest) == manifest.values \cup {manifest.domain}

Rows == {r \in Results : rows[r] # None}
Available == Rows \ retired

\* files(): what the rows of S name.
FilesOfAll(S) == UNION {FilesOf(rows[r]) : r \in S}

\* What a manifest was composed from; the only link between rows here.
Links(r) == IF rows[r].layout = "composed" THEN {Source[r]} ELSE {}

\* closure(): the least set with S and what it was made from, through
\* available rows.
Reach(S) ==
    LET within == S \cup Available
        closed == {T \in SUBSET within :
                      S \subseteq T /\ \A r \in T : Links(r) \cap Available \subseteq T}
    IN  {r \in within : \A T \in closed : r \in T}

-----------------------------------------------------------------------------
(* Publication: encode into .pending, then one writer transaction. *)

Idle == [step |-> "idle"]

Publications ==
    [step : {"encoded"}, result : Results, generation : Generations, layout : Layouts,
     values : SUBSET Files, source : Layouts \cup {None}]
    \cup
    [step : {"prepared"}, result : Results, generation : Generations, layout : Layouts,
     values : SUBSET Files, source : Layouts \cup {None}, domain : Files]

Busy(w, step) == workers[w].step = step

Encoded(r, layout) ==
    [step |-> "encoded", result |-> r, generation |-> generation, layout |-> layout,
     values |-> IF layout = "fresh" THEN {<<generation, "values">>}
                ELSE rows[Source[r]].values,
     source |-> IF layout = "fresh" THEN None ELSE rows[Source[r]].layout]

\* Mutant: a name is handed out twice.
SameName == generation

\* uuid4().hex.
NextName == generation + 1

\* Values are encoded into a new directory, or composed from the partitions
\* of a source that is available now.
Encode(w, r, layout) ==
    /\ Busy(w, "idle")
    /\ generation \in Generations
    /\ layout = "composed" => Source[r] \in Available
    /\ workers' = [workers EXCEPT ![w] = Encoded(r, layout)]
    /\ generation' = NextName
    /\ UNCHANGED <<rows, retired, disk, journal, release, cleanup>>

\* _registered_domain: available rows of the same Domain.
Registered(domain) == {q \in Available : DomainOf[q] = domain}

\* The Domain files of a registered row are reused, whatever the row; without
\* one the Domain is encoded beside the values.
ChooseDomain(w) ==
    /\ Busy(w, "encoded")
    /\ \E domain \in LET p == workers[w]
                         registered == Registered(DomainOf[p.result])
                     IN  IF registered = {} THEN {<<p.generation, "domain">>}
                         ELSE {rows[q].domain : q \in registered} :
           workers' = [workers EXCEPT ![w] =
                          [step |-> "prepared", result |-> @.result,
                           generation |-> @.generation, layout |-> @.layout,
                           values |-> @.values, source |-> @.source, domain |-> domain]]
    /\ UNCHANGED <<rows, retired, disk, generation, journal, release, cleanup>>

Manifest(p) == [layout |-> p.layout, values |-> p.values, domain |-> p.domain]

\* What os.replace moves: the files of the new manifest in its own generation.
Own(p) == {f \in FilesOf(Manifest(p)) : f[1] = p.generation}

\* Mutant: composed partitions are taken to be where they were.
AssumedPresent(p) == p.source # None => rows[Source[p.result]] # None

\* The closing checks.  A source row must still have the content it was read
\* with, retired or not; referenced partitions must exist.  The Domain is
\* compared by content alone.
StillValid(p) ==
    /\ p.source # None =>
           /\ rows[Source[p.result]] # None
           /\ rows[Source[p.result]].layout = p.source
    /\ p.values \subseteq disk \cup Own(p)

\* Mutant: a different manifest replaces whatever is stored.
ReplacesAny(p) == rows[p.result] # None /\ rows[p.result].layout # p.layout

\* Only a retired row gives way, and only to different content.
Replaces(p) ==
    /\ rows[p.result] # None
    /\ rows[p.result].layout # p.layout
    /\ p.result \in retired

Inserts(p) == rows[p.result] = None \/ Replaces(p)

\* Revival of equal content copies back what is missing, from the files of
\* the same checksum that the new manifest names.
Missing(p) == FilesOf(rows[p.result]) \ disk

Restores(p) ==
    /\ rows[p.result] # None /\ ~ Replaces(p) /\ p.result \in retired
    /\ Missing(p) \cap {rows[p.result].domain} # {} => p.domain \in disk \cup Own(p)

\* An available row with the same result stays as it is.
Repeats(p) == rows[p.result] # None /\ ~ Replaces(p) /\ p.result \notin retired

Commit(w) ==
    /\ Busy(w, "prepared")
    /\ LET p == workers[w] IN
       /\ StillValid(p)
       /\ \/ /\ Inserts(p)
             /\ disk' = disk \cup Own(p)
             /\ rows' = [rows EXCEPT ![p.result] = Manifest(p)]
             /\ retired' = retired \ {p.result}
          \/ /\ Restores(p)
             /\ disk' = disk \cup Missing(p)
             /\ retired' = retired \ {p.result}
             /\ UNCHANGED rows
          \/ /\ Repeats(p)
             /\ UNCHANGED <<rows, retired, disk>>
    /\ workers' = [workers EXCEPT ![w] = Idle]
    /\ UNCHANGED <<generation, journal, release, cleanup>>

\* The transaction rolls back after some of its file operations: a complete
\* generation no row names, or some files of a row that stays retired.
CrashInCommit(w) ==
    /\ Busy(w, "prepared")
    /\ LET p == workers[w] IN
       /\ StillValid(p)
       /\ \/ Inserts(p) /\ disk' = disk \cup Own(p)
          \/ Restores(p) /\ \E done \in SUBSET Missing(p) : disk' = disk \cup done
    /\ workers' = [workers EXCEPT ![w] = Idle]
    /\ UNCHANGED <<rows, retired, generation, journal, release, cleanup>>

\* A failed check, an interrupted encoding: .pending holds all there is.
Drop(w) ==
    /\ ~ Busy(w, "idle")
    /\ workers' = [workers EXCEPT ![w] = Idle]
    /\ UNCHANGED <<rows, retired, disk, generation, journal, release, cleanup>>

-----------------------------------------------------------------------------
(* Retirement: journal and retire, unlink, complete. *)

Selected(roots, retained) ==
    Reach(roots) \ Reach((Available \ Reach(roots)) \cup retained)

Plan(roots, retained) ==
    LET selected == Selected(roots, retained) IN
    [roots |-> roots, retained |-> retained, selected |-> selected,
     files |-> FilesOfAll(selected) \ FilesOfAll(Available \ selected),
     contents |-> [r \in Available |-> rows[r].layout], epoch |-> Len(journal)]

PreviewRelease(roots, retained) ==
    /\ release = None
    /\ Len(journal) < MaxReleases
    /\ roots # {} /\ roots \cup retained \subseteq Available
    /\ release' = Plan(roots, retained)
    /\ UNCHANGED <<rows, retired, disk, publication, journal, cleanup>>

SameInventory ==
    /\ release.roots \cup release.retained \subseteq Available
    /\ release = Plan(release.roots, release.retained)

\* The first transaction of apply_release: after it the results are gone and
\* the plan can only go forward.
Retire ==
    /\ release # None
    /\ IF SameInventory
       THEN /\ retired' = retired \cup release.selected
            /\ journal' = Append(journal, [files |-> release.files, step |-> "journaled"])
       ELSE UNCHANGED <<retired, journal>>
    /\ release' = None
    /\ UNCHANGED <<rows, disk, publication, cleanup>>

\* Mutant: what the plan lists is unlinked.
Listed(e) == journal[e].files

\* Rows made available since the plan was reviewed keep their files.
Exclusive(e) == journal[e].files \ FilesOfAll(Available)

Pending(e) == e \in DOMAIN journal /\ journal[e].step # "completed"

\* The second transaction, and its exact retry after a crash.
Unlink(e) ==
    /\ Pending(e)
    /\ disk' = disk \ Exclusive(e)
    /\ journal' = [journal EXCEPT ![e].step = "unlinked"]
    /\ UNCHANGED <<rows, retired, publication, release, cleanup>>

CrashInUnlink(e) ==
    /\ Pending(e)
    /\ \E done \in SUBSET (Exclusive(e) \cap disk) : disk' = disk \ done
    /\ UNCHANGED <<rows, retired, publication, journal, release, cleanup>>

\* The third transaction.
Finish(e) ==
    /\ e \in DOMAIN journal
    /\ journal[e].step = "unlinked"
    /\ journal' = [journal EXCEPT ![e].step = "completed"]
    /\ UNCHANGED <<rows, retired, disk, publication, release, cleanup>>

-----------------------------------------------------------------------------
(* Cleanup of generations that no row names, available or retired. *)

Named == {f[1] : f \in FilesOfAll(Rows)}
Orphans == {f[1] : f \in disk} \ Named

PreviewCleanup(candidates) ==
    /\ cleanup = None
    /\ candidates # {} /\ candidates \subseteq Orphans
    /\ cleanup' = [rows |-> rows, candidates |-> candidates]
    /\ UNCHANGED <<rows, retired, disk, publication, journal, release>>

SameReceipts == rows = cleanup.rows

InCandidates == {f \in disk : f[1] \in cleanup.candidates}

ApplyCleanup ==
    /\ cleanup # None
    /\ disk' = IF SameReceipts THEN disk \ InCandidates ELSE disk
    /\ cleanup' = None
    /\ UNCHANGED <<rows, retired, publication, journal, release>>

\* An interrupted removal; the exact plan can be applied again.
CrashInCleanup ==
    /\ cleanup # None /\ SameReceipts
    /\ \E done \in SUBSET InCandidates : disk' = disk \ done
    /\ UNCHANGED <<rows, retired, publication, journal, release, cleanup>>

-----------------------------------------------------------------------------
Init ==
    /\ rows = [r \in Results |-> None]
    /\ retired = {} /\ disk = {}
    /\ generation = 1
    /\ workers = [w \in Workers |-> Idle]
    /\ journal = <<>>
    /\ release = None /\ cleanup = None

PublishStep(w) ==
    \/ \E r \in Results, layout \in Layouts :
            (layout = "composed" => Source[r] # None) /\ Encode(w, r, layout)
    \/ ChooseDomain(w)
    \/ Commit(w)
    \/ CrashInCommit(w)
    \/ Drop(w)

ReleaseStep ==
    \/ \E roots, retained \in SUBSET Available : PreviewRelease(roots, retained)
    \/ Retire
    \/ \E e \in DOMAIN journal : Unlink(e) \/ CrashInUnlink(e) \/ Finish(e)

CleanupStep ==
    \/ \E candidates \in SUBSET Orphans : PreviewCleanup(candidates)
    \/ ApplyCleanup
    \/ CrashInCleanup

Next == (\E w \in Workers : PublishStep(w)) \/ ReleaseStep \/ CleanupStep

Spec == Init /\ [][Next]_vars

-----------------------------------------------------------------------------
(* Correctness. *)

JournalEntries == [files : SUBSET Files, step : {"journaled", "unlinked", "completed"}]

\* Every name in use was handed out, and no two publications have one name.
TypeOK ==
    /\ \A r \in Rows : rows[r] \in Manifests
    /\ retired \subseteq Rows
    /\ generation \in 1 .. MaxGenerations + 1
    /\ disk \subseteq (1 .. generation - 1) \X Slots
    /\ \A v, w \in Workers :
           ~ Busy(w, "idle") =>
               /\ workers[w].generation < generation
               /\ v # w /\ ~ Busy(v, "idle") => workers[v].generation # workers[w].generation
    /\ workers \in [Workers -> Publications \cup {Idle}]
    /\ journal \in Seq(JournalEntries)

\* Whoever finds a result finds its numbers: every partition of an available
\* row is on disk, whichever rows share it and whatever was retired, revived,
\* cleaned up or interrupted before.
ValuesPresent == \A r \in Available : rows[r].values \subseteq disk

\* The manifest of an available result never changes: repeated publication,
\* in any layout, leaves the stored evidence alone.
ManifestsImmutable == [][\A r \in Available : rows'[r] = rows[r]]_vars

\* A file is removed only when no row that is available after the step names
\* it, and a file of a retired row only by a release: cleanup never touches
\* what any row names, and an unlink never takes a file a survivor shares.
FilesOutliveRows ==
    [][\A f \in disk \ disk' :
         /\ f \notin UNION {FilesOf(rows'[r]) : r \in Available'}
         /\ f \in FilesOfAll(Rows) => \E e \in DOMAIN journal : Pending(e) /\ f \in journal[e].files]_vars

\* "Reusable Domain files are fenced again inside the publication writer
\* transaction": the Domain files of an available row exist.
DomainsPresent == \A r \in Available : rows[r].domain \in disk

=============================================================================
