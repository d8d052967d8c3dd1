------------------------- MODULE ArtifactStoreProofs -------------------------
(***************************************************************************)
(* Rows and files, for any results, any number of publishers, retirements  *)
(* and generations, and a crash inside any transaction that moves or       *)
(* removes files.                                                          *)
(*                                                                         *)
(* A publication looks at the disk inside its transaction, a release looks *)
(* at the available rows inside the transaction that unlinks, and so each  *)
(* is right by itself.  Cleanup is not: it removes what it saw unnamed in  *)
(* an earlier transaction, and is safe because a reviewed plan stays true  *)
(* of the rows it was made from, and those are compared before it acts.    *)
(***************************************************************************)
EXTENDS ArtifactStore, TLAPS

\* A reviewed cleanup plan names no generation of the rows it was made from.
ReviewedOrphans ==
    cleanup # None =>
        \A r \in Results : cleanup.rows[r] # None =>
            \A f \in FilesOf(cleanup.rows[r]) : f[1] \notin cleanup.candidates

\* What publications and rows are indexed by.
Indexed ==
    /\ DOMAIN rows = Results
    /\ DOMAIN workers = Workers
    /\ \A w \in Workers : ~ Busy(w, "idle") => workers[w].result \in Results

\* The inductive invariant.
Inv == Indexed /\ ReviewedOrphans /\ ValuesPresent

\* What no row may lose, in terms of single files.
LEMMA NamedFiles ==
    ASSUME NEW r \in Results, rows[r] # None, NEW f \in FilesOf(rows[r])
    PROVE  r \in Rows /\ f \in FilesOfAll(Rows) /\ f[1] \in Named
  BY DEF Rows, FilesOfAll, Named

\* Everything a publication does to its own memory keeps the index.
LEMMA IndexedStep == Indexed /\ [Next]_vars => Indexed'
  <1> SUFFICES ASSUME Indexed, [Next]_vars PROVE Indexed'
    OBVIOUS
  <1> USE DEF Indexed, Busy
  <1>1. ASSUME NEW w \in Workers, NEW r \in Results, NEW layout, Encode(w, r, layout)
        PROVE  Indexed'
    BY <1>1 DEF Encode, Encoded
  <1>2. ASSUME NEW w \in Workers, ChooseDomain(w)
        PROVE  Indexed'
    BY <1>2 DEF ChooseDomain
  <1>3. ASSUME NEW w \in Workers, Commit(w)
        PROVE  Indexed'
    <2>1. DOMAIN rows' = Results
      BY <1>3 DEF Commit
    <2>2. workers' = [workers EXCEPT ![w] = Idle]
      BY <1>3 DEF Commit
    <2> QED
      BY <2>1, <2>2 DEF Idle
  <1>4. ASSUME NEW w \in Workers, CrashInCommit(w) \/ Drop(w)
        PROVE  Indexed'
    BY <1>4 DEF CrashInCommit, Drop, Idle
  <1>5. CASE UNCHANGED <<rows, workers>>
    BY <1>5
  <1>6. ASSUME NEW w \in Workers, PublishStep(w)
        PROVE  Indexed'
    BY <1>1, <1>2, <1>3, <1>4, <1>6 DEF PublishStep
  <1>7. ReleaseStep \/ CleanupStep \/ UNCHANGED vars => UNCHANGED <<rows, workers>>
    BY DEF ReleaseStep, PreviewRelease, Retire, Unlink, CrashInUnlink, Finish,
           CleanupStep, PreviewCleanup, ApplyCleanup, CrashInCleanup, vars, publication
  <1> QED
    BY <1>5, <1>6, <1>7 DEF Next

\* A plan is reviewed against the rows of one instant and kept or dropped.
LEMMA ReviewedStep == ReviewedOrphans /\ [Next]_vars => ReviewedOrphans'
  <1> SUFFICES ASSUME ReviewedOrphans, [Next]_vars PROVE ReviewedOrphans'
    OBVIOUS
  <1>1. ASSUME NEW candidates, PreviewCleanup(candidates)
        PROVE  ReviewedOrphans'
    <2>1. /\ cleanup' = [rows |-> rows, candidates |-> candidates]
          /\ candidates \cap Named = {}
      BY <1>1 DEF PreviewCleanup, Orphans
    <2>2. ASSUME NEW r \in Results, rows[r] # None, NEW f \in FilesOf(rows[r])
          PROVE  f[1] \notin candidates
      BY <2>1, <2>2, NamedFiles
    <2> QED
      BY <2>1, <2>2 DEF ReviewedOrphans, FilesOf
  <1>2. CASE cleanup' = None
    BY <1>2 DEF ReviewedOrphans
  <1>3. CASE UNCHANGED cleanup
    BY <1>3 DEF ReviewedOrphans, FilesOf
  <1>4. CleanupStep =>
          \/ \E candidates : PreviewCleanup(candidates)
          \/ cleanup' = None
          \/ UNCHANGED cleanup
    BY DEF CleanupStep, ApplyCleanup, CrashInCleanup
  <1>5. ASSUME NEW w \in Workers, PublishStep(w)
        PROVE  UNCHANGED cleanup
    BY <1>5 DEF PublishStep, Encode, ChooseDomain, Commit, CrashInCommit, Drop
  <1>6. ReleaseStep \/ UNCHANGED vars => UNCHANGED cleanup
    BY DEF ReleaseStep, PreviewRelease, Retire, Unlink, CrashInUnlink, Finish, vars
  <1> QED
    BY <1>1, <1>2, <1>3, <1>4, <1>5, <1>6 DEF Next

-----------------------------------------------------------------------------
(* What removal may take. *)

\* Files go only in an unlink, complete or not, or in a cleanup, and the
\* available rows are the same before and after.
LEMMA Removals ==
    ASSUME Indexed, [Next]_vars, NEW f \in disk \ disk'
    PROVE  /\ UNCHANGED <<rows, retired>>
           /\ \/ \E e \in DOMAIN journal : Pending(e) /\ f \in Exclusive(e)
              \/ cleanup # None /\ SameReceipts /\ f \in InCandidates
  <1>1. ASSUME NEW w \in Workers, PublishStep(w)
        PROVE  FALSE
    BY <1>1 DEF PublishStep, Encode, ChooseDomain, Commit, CrashInCommit, Drop
  <1>2. CASE ReleaseStep
    BY <1>2 DEF ReleaseStep, PreviewRelease, Retire, Unlink, CrashInUnlink, Finish
  <1>3. CASE CleanupStep
    BY <1>3 DEF CleanupStep, PreviewCleanup, ApplyCleanup, CrashInCleanup
  <1>4. CASE UNCHANGED vars
    BY <1>4 DEF vars
  <1> QED
    BY <1>1, <1>2, <1>3, <1>4 DEF Next

\* What a confirmed cleanup removes is named by no row.
LEMMA CleanupTakesOrphans ==
    ASSUME ReviewedOrphans, cleanup # None, SameReceipts, NEW f \in InCandidates
    PROVE  f \notin FilesOfAll(Rows)
  <1>1. f[1] \in cleanup.candidates
    BY DEF InCandidates
  <1>2. ASSUME NEW r \in Rows PROVE f \notin FilesOf(rows[r])
    BY <1>1, <1>2 DEF ReviewedOrphans, SameReceipts, Rows
  <1> QED
    BY <1>2 DEF FilesOfAll

\* A removed file is named by no row available before or after.
LEMMA RemovedUnnamed ==
    ASSUME Indexed, ReviewedOrphans, [Next]_vars, NEW f \in disk \ disk'
    PROVE  /\ UNCHANGED <<rows, retired>>
           /\ \A r \in Available : f \notin FilesOf(rows[r])
           /\ f \in FilesOfAll(Rows) =>
                 \E e \in DOMAIN journal : Pending(e) /\ f \in journal[e].files
  <1>1. UNCHANGED <<rows, retired>>
    BY Removals
  <1>2. ASSUME NEW e \in DOMAIN journal, Pending(e), f \in Exclusive(e)
        PROVE  f \in journal[e].files /\ \A r \in Available : f \notin FilesOf(rows[r])
    BY <1>2 DEF Exclusive, FilesOfAll
  <1>3. CASE cleanup # None /\ SameReceipts /\ f \in InCandidates
    <2>1. f \notin FilesOfAll(Rows)
      BY <1>3, CleanupTakesOrphans
    <2> QED
      BY <1>1, <2>1 DEF FilesOfAll, Available
  <1> QED
    BY <1>1, <1>2, <1>3, Removals

-----------------------------------------------------------------------------
(* What publication leaves behind. *)

\* A result that is available after a step was so before with the same
\* manifest, or is published by it, with every partition on disk.
LEMMA Becoming ==
    ASSUME Indexed, [Next]_vars, NEW r \in Available'
    PROVE  \/ r \in Available /\ rows'[r] = rows[r]
           \/ rows'[r].values \subseteq disk'
  <1>1. ASSUME NEW w \in Workers, Commit(w)
        PROVE  \/ r \in Available /\ rows'[r] = rows[r]
               \/ rows'[r].values \subseteq disk'
    <2> DEFINE p == workers[w]
    <2>1. p.result \in Results /\ DOMAIN rows = Results
      BY <1>1 DEF Commit, Busy, Indexed
    <2>2. p.values \subseteq disk \cup Own(p)
      BY <1>1 DEF Commit, StillValid
    <2>3. CASE r = p.result /\ Inserts(p) /\ disk' = disk \cup Own(p)
                 /\ rows' = [rows EXCEPT ![p.result] = Manifest(p)]
      BY <2>1, <2>2, <2>3 DEF Manifest
    <2>4. CASE r = p.result /\ disk' = disk \cup Missing(p) /\ UNCHANGED rows
      BY <2>4 DEF Missing, FilesOf
    <2>5. CASE r # p.result
      <3>1. rows'[r] = rows[r] /\ (r \in retired <=> r \in retired')
        BY <1>1, <2>1, <2>5 DEF Commit, Available, Rows
      <3> QED
        BY <3>1 DEF Available, Rows
    <2>6. CASE UNCHANGED <<rows, retired>>
      BY <2>6 DEF Available, Rows
    <2> QED
      BY <1>1, <2>3, <2>4, <2>5, <2>6 DEF Commit
  <1>2. CASE UNCHANGED rows /\ retired \subseteq retired'
    BY <1>2 DEF Available, Rows
  <1>3. ASSUME NEW w \in Workers, PublishStep(w), ~ Commit(w)
        PROVE  UNCHANGED rows /\ retired \subseteq retired'
    BY <1>3 DEF PublishStep, Encode, ChooseDomain, CrashInCommit, Drop
  <1>4. ReleaseStep \/ CleanupStep \/ UNCHANGED vars =>
          UNCHANGED rows /\ retired \subseteq retired'
    BY DEF ReleaseStep, PreviewRelease, Retire, Unlink, CrashInUnlink, Finish,
           CleanupStep, PreviewCleanup, ApplyCleanup, CrashInCleanup, vars
  <1> QED
    BY <1>1, <1>2, <1>3, <1>4 DEF Next

LEMMA InvInit == Init => Inv
  BY DEF Init, Inv, Indexed, Busy, Idle, ReviewedOrphans, ValuesPresent, Available, Rows

LEMMA InvStep == Inv /\ [Next]_vars => Inv'
  <1> SUFFICES ASSUME Inv, [Next]_vars PROVE ValuesPresent'
    BY IndexedStep, ReviewedStep DEF Inv
  <1>1. ASSUME NEW r \in Available' PROVE rows'[r].values \subseteq disk'
    <2>1. CASE rows'[r].values \subseteq disk'
      BY <2>1
    <2>2. CASE r \in Available /\ rows'[r] = rows[r]
      <3>1. rows[r].values \subseteq disk
        BY <2>2 DEF Inv, ValuesPresent
      <3>2. ASSUME NEW f \in rows[r].values, f \notin disk' PROVE FALSE
        BY <2>2, <3>1, <3>2, RemovedUnnamed DEF Inv, FilesOf
      <3> QED
        BY <2>2, <3>2
    <2> QED
      BY <2>1, <2>2, Becoming DEF Inv
  <1> QED
    BY <1>1 DEF ValuesPresent

-----------------------------------------------------------------------------
(* Theorems. *)

\* Whoever finds a result finds its numbers, whatever was retired, revived,
\* cleaned up or interrupted before.
THEOREM StoreValuesPresent == Spec => []ValuesPresent
  <1>1. Inv => ValuesPresent
    BY DEF Inv
  <1> QED
    BY <1>1, InvInit, InvStep, PTL DEF Spec

\* No removal takes a file that an available row names, and only a release
\* takes a file of a retired one.
THEOREM StoreFilesOutliveRows == Spec => FilesOutliveRows
  <1>1. Inv /\ [Next]_vars =>
          [\A f \in disk \ disk' :
             /\ f \notin UNION {FilesOf(rows'[r]) : r \in Available'}
             /\ f \in FilesOfAll(Rows) =>
                   \E e \in DOMAIN journal : Pending(e) /\ f \in journal[e].files]_vars
    <2> SUFFICES ASSUME Inv, [Next]_vars, NEW f \in disk \ disk'
                 PROVE  /\ f \notin UNION {FilesOf(rows'[r]) : r \in Available'}
                        /\ f \in FilesOfAll(Rows) =>
                              \E e \in DOMAIN journal : Pending(e) /\ f \in journal[e].files
      OBVIOUS
    <2>1. /\ rows' = rows /\ retired' = retired
          /\ \A r \in Available : f \notin FilesOf(rows[r])
          /\ f \in FilesOfAll(Rows) =>
                \E e \in DOMAIN journal : Pending(e) /\ f \in journal[e].files
      BY RemovedUnnamed DEF Inv
    <2>2. Available' = Available
      BY <2>1 DEF Available, Rows
    <2> QED
      BY <2>1, <2>2
  <1> QED
    BY <1>1, InvInit, InvStep, PTL DEF Spec, FilesOutliveRows

\* The manifest of an available result never changes.
THEOREM StoreManifestsImmutable == Spec => ManifestsImmutable
  <1>1. ASSUME Inv, [Next]_vars, NEW r \in Available
        PROVE  rows'[r] = rows[r]
    <2>1. ASSUME NEW w \in Workers, Commit(w)
          PROVE  rows'[r] = rows[r]
      <3>1. r \in Results /\ rows[r] # None /\ r \notin retired
        BY DEF Available, Rows
      <3>2. CASE Inserts(workers[w]) /\
                 rows' = [rows EXCEPT ![workers[w].result] = Manifest(workers[w])]
        BY <3>1, <3>2 DEF Inserts, Replaces, Inv, Indexed
      <3> QED
        BY <2>1, <3>2 DEF Commit
    <2>2. ASSUME NEW w \in Workers, PublishStep(w), ~ Commit(w)
          PROVE  UNCHANGED rows
      BY <2>2 DEF PublishStep, Encode, ChooseDomain, CrashInCommit, Drop
    <2>3. ReleaseStep \/ CleanupStep \/ UNCHANGED vars => UNCHANGED rows
      BY DEF ReleaseStep, PreviewRelease, Retire, Unlink, CrashInUnlink, Finish,
             CleanupStep, PreviewCleanup, ApplyCleanup, CrashInCleanup, vars
    <2> QED
      BY <1>1, <2>1, <2>2, <2>3 DEF Next
  <1>2. Inv /\ [Next]_vars => [\A r \in Available : rows'[r] = rows[r]]_vars
    BY <1>1
  <1> QED
    BY <1>2, InvInit, InvStep, PTL DEF Spec, ManifestsImmutable


-----------------------------------------------------------------------------
(* The type invariant: every name in use was handed out. *)

\* Files under generations whose name was handed out.
Handed == (1 .. generation - 1) \X Slots

\* A publication in progress names files of generations handed out.
Holds(p) ==
    /\ p \in Publications
    /\ p.generation < generation
    /\ p.values \subseteq Handed
    /\ p.step = "prepared" => p.domain \in Handed

RowsTyped ==
    /\ DOMAIN rows = Results
    /\ \A r \in Rows : rows[r] \in Manifests /\ FilesOf(rows[r]) \subseteq Handed
    /\ retired \subseteq Rows

WorkersTyped ==
    /\ workers \in [Workers -> Publications \cup {Idle}]
    /\ \A w \in Workers : workers[w] = Idle \/ Holds(workers[w])
    /\ \A v, w \in Workers :
          v # w /\ ~ Busy(v, "idle") /\ ~ Busy(w, "idle") =>
              workers[v].generation # workers[w].generation

\* The inductive invariant.
TInv ==
    /\ generation \in 1 .. MaxGenerations + 1
    /\ RowsTyped
    /\ WorkersTyped
    /\ disk \subseteq Handed
    /\ journal \in Seq(JournalEntries)

LEMMA PublicationFields ==
    ASSUME NEW p \in Publications
    PROVE  /\ p.step \in {"encoded", "prepared"} /\ p.result \in Results
           /\ p.generation \in Generations /\ p.layout \in Layouts
           /\ p.values \in SUBSET Files /\ p.source \in Layouts \cup {None}
           /\ p.step = "prepared" => p.domain \in Files
  BY DEF Publications

LEMMA HandedFiles ==
    ASSUME generation \in 1 .. MaxGenerations + 1
    PROVE  Handed \subseteq Files
  <1>1. \A g \in 1 .. generation - 1 : g \in Generations
    BY BoundsAssumption DEF Generations
  <1> QED
    BY <1>1 DEF Handed, Files

\* Names handed out stay handed out.
LEMMA HandedGrows ==
    ASSUME generation \in Nat, generation' \in {generation, generation + 1}
    PROVE  Handed \subseteq Handed'
  <1>1. ASSUME NEW m \in Nat, NEW n \in {m, m + 1}, NEW g \in 1 .. m - 1
        PROVE  g \in 1 .. n - 1
    OBVIOUS
  <1> QED
    BY <1>1 DEF Handed

\* What holds of rows and publications survives a new name.
LEMMA HoldsStays ==
    ASSUME generation \in Nat, generation' \in {generation, generation + 1},
           NEW p, Holds(p)
    PROVE  Holds(p)'
  <1>1. p.generation \in Nat
    BY PublicationFields, BoundsAssumption DEF Holds, Generations
  <1> QED
    BY <1>1, HandedGrows DEF Holds

\* A worker that takes up a publication under its own name.
LEMMA WorkerStep ==
    ASSUME WorkersTyped, generation \in Nat, generation' \in {generation, generation + 1},
           NEW w \in Workers, NEW p, workers' = [workers EXCEPT ![w] = p], Holds(p)',
           \A v \in Workers \ {w} :
              ~ Busy(v, "idle") => workers[v].generation # p.generation
    PROVE  WorkersTyped'
  <1>1. \A v \in Workers : workers'[v] = IF v = w THEN p ELSE workers[v]
    BY DEF WorkersTyped
  <1>2. workers' \in [Workers -> Publications \cup {Idle}]
    BY DEF WorkersTyped, Holds
  <1>3. \A v \in Workers : workers'[v] = Idle \/ Holds(workers[v])'
    <2>1. ASSUME NEW v \in Workers PROVE workers'[v] = Idle \/ Holds(workers[v])'
      <3>1. CASE v = w
        <4>1. workers'[v] = p
          BY <1>1, <3>1
        <4>2. Holds(p)' <=> Holds(workers[v])'
          BY <4>1 DEF Holds
        <4> QED
          BY <4>2
      <3>2. CASE v # w
        <4>1. workers'[v] = workers[v] /\ (workers[v] = Idle \/ Holds(workers[v]))
          BY <1>1, <3>2 DEF WorkersTyped
        <4>2. ASSUME Holds(workers[v]) PROVE Holds(workers[v])'
          <5>1. PICK q : q = workers[v] /\ Holds(q)
            BY <4>2
          <5>2. Holds(q)'
            BY <5>1, HoldsStays
          <5> QED
            BY <4>1, <5>1, <5>2 DEF Holds
        <4> QED
          BY <4>1, <4>2
      <3> QED
        BY <3>1, <3>2
    <2> QED
      BY <2>1
  <1>4. ASSUME NEW u \in Workers, NEW v \in Workers, u # v,
               ~ Busy(u, "idle")', ~ Busy(v, "idle")'
        PROVE  workers'[u].generation # workers'[v].generation
    BY <1>1, <1>4 DEF WorkersTyped, Busy
  <1> QED
    BY <1>2, <1>3, <1>4 DEF WorkersTyped

\* A worker that is done, or gives up.
LEMMA WorkerRests ==
    ASSUME WorkersTyped, UNCHANGED generation, NEW w \in Workers,
           workers' = [workers EXCEPT ![w] = Idle]
    PROVE  WorkersTyped'
  <1>1. \A v \in Workers : workers'[v] = IF v = w THEN Idle ELSE workers[v]
    BY DEF WorkersTyped
  <1>2. workers' \in [Workers -> Publications \cup {Idle}]
    BY DEF WorkersTyped
  <1>3. \A v \in Workers : workers'[v] = Idle \/ Holds(workers[v])'
    BY <1>1 DEF WorkersTyped, Holds, Handed
  <1>4. \A u, v \in Workers :
            u # v /\ ~ Busy(u, "idle")' /\ ~ Busy(v, "idle")' =>
                workers'[u].generation # workers'[v].generation
    BY <1>1 DEF WorkersTyped, Busy, Idle
  <1> QED
    BY <1>2, <1>3, <1>4 DEF WorkersTyped

\* A worker that is busy holds a publication.
LEMMA BusyHolds ==
    ASSUME WorkersTyped, NEW w \in Workers, ~ Busy(w, "idle")
    PROVE  Holds(workers[w])
  BY DEF WorkersTyped, Busy, Idle


\* A publication starts with a fresh name, and what it is composed from.
LEMMA EncodeTyped ==
    ASSUME TInv, NEW w \in Workers, NEW r \in Results, NEW layout \in Layouts,
           layout = "composed" => Source[r] # None, Encode(w, r, layout)
    PROVE  TInv'
  <1>1. PICK p : /\ p = Encoded(r, layout)
                 /\ workers' = [workers EXCEPT ![w] = p]
    BY DEF Encode
  <1>2. /\ generation \in Generations /\ generation' = generation + 1
        /\ UNCHANGED <<rows, retired, disk, journal>>
    BY DEF Encode, NextName
  <1>3. generation \in Nat /\ generation' \in 1 .. MaxGenerations + 1
        /\ generation' \in {generation, generation + 1}
    BY <1>2, BoundsAssumption DEF Generations
  <1>4. p.step = "encoded" /\ p.generation = generation
    BY <1>1 DEF Encoded
  <1>5. Holds(p)'
    <2>1. CASE layout = "fresh"
      <3>1. p = [step |-> "encoded", result |-> r, generation |-> generation, layout |-> layout,
                 values |-> {<<generation, "values">>}, source |-> None]
        BY <1>1, <2>1 DEF Encoded
      <3>2. <<generation, "values">> \in Files
        BY <1>2 DEF Files, Slots
      <3>3. p \in Publications
        BY <1>2, <3>1, <3>2 DEF Publications
      <3>4. generation \in 1 .. generation' - 1 /\ generation < generation'
        BY <1>2, <1>3 DEF Generations
      <3>5. p.values \subseteq Handed'
        BY <3>1, <3>4 DEF Handed, Slots
      <3> QED
        BY <1>4, <3>3, <3>4, <3>5 DEF Holds
    <2>2. CASE layout = "composed"
      <3>1. Source[r] \in Rows /\ rows[Source[r]] \in Manifests
            /\ rows[Source[r]].values \subseteq Handed
        BY <2>2 DEF Encode, TInv, RowsTyped, Available, FilesOf
      <3>2. PICK m : m = rows[Source[r]]
        OBVIOUS
      <3>3. p = [step |-> "encoded", result |-> r, generation |-> generation, layout |-> layout,
                 values |-> m.values, source |-> m.layout]
        BY <1>1, <2>2, <3>2 DEF Encoded
      <3>4. m.values \in SUBSET Files /\ m.layout \in Layouts
        BY <3>1, <3>2 DEF Manifests
      <3>5. p \in Publications
        BY <1>2, <3>3, <3>4 DEF Publications
      <3>6. p.values \subseteq Handed'
        BY <1>3, <3>1, <3>2, <3>3, HandedGrows
      <3>7. p.generation < generation'
        BY <1>2, <1>3, <1>4
      <3> QED
        BY <1>4, <3>5, <3>6, <3>7 DEF Holds
    <2> QED
      BY <2>1, <2>2 DEF Layouts
  <1>6. \A v \in Workers : ~ Busy(v, "idle") => workers[v].generation # p.generation
    <2>1. ASSUME NEW v \in Workers, ~ Busy(v, "idle")
          PROVE  workers[v].generation < generation /\ workers[v].generation \in Nat
      <3>1. Holds(workers[v])
        BY <2>1, BusyHolds DEF TInv
      <3> QED
        BY <3>1, PublicationFields, BoundsAssumption DEF Holds, Generations
    <2> QED
      BY <1>3, <1>4, <2>1
  <1>7. WorkersTyped'
    BY <1>1, <1>3, <1>5, <1>6, WorkerStep DEF TInv
  <1>8. Handed \subseteq Handed'
    BY <1>3, HandedGrows
  <1>9. RowsTyped' /\ disk' \subseteq Handed'
    BY <1>2, <1>8 DEF TInv, RowsTyped, Rows, FilesOf
  <1> QED
    BY <1>2, <1>3, <1>7, <1>9 DEF TInv

\* Domain files are the publication's own, or those a row names.
LEMMA DomainTyped ==
    ASSUME TInv, NEW w \in Workers, ChooseDomain(w)
    PROVE  TInv'
  <1>1. PICK old : old = workers[w]
    OBVIOUS
  <1>2. Holds(old) /\ old.step = "encoded"
    <2>1. ~ Busy(w, "idle") /\ workers[w].step = "encoded"
      BY DEF ChooseDomain, Busy
    <2> QED
      BY <1>1, <2>1, BusyHolds DEF TInv
  <1>3. UNCHANGED <<rows, retired, disk, generation, journal>>
    BY DEF ChooseDomain
  <1>4. PICK domain \in LET registered == Registered(DomainOf[old.result])
                        IN  IF registered = {} THEN {<<old.generation, "domain">>}
                            ELSE {rows[q].domain : q \in registered} :
            workers' = [workers EXCEPT ![w] =
                          [step |-> "prepared", result |-> @.result,
                           generation |-> @.generation, layout |-> @.layout,
                           values |-> @.values, source |-> @.source, domain |-> domain]]
    BY <1>1 DEF ChooseDomain
  <1>5. PICK p : p = [step |-> "prepared", result |-> old.result,
                      generation |-> old.generation, layout |-> old.layout,
                      values |-> old.values, source |-> old.source, domain |-> domain]
    OBVIOUS
  <1>6. workers' = [workers EXCEPT ![w] = p]
    BY <1>1, <1>4, <1>5
  <1>7. old.generation \in 1 .. generation - 1 /\ generation \in Nat
    <2>1. old.generation \in Generations /\ old.generation < generation
      BY <1>2, PublicationFields DEF Holds
    <2> QED
      BY <2>1, BoundsAssumption DEF TInv, Generations
  <1>8. domain \in Handed
    <2>1. CASE domain = <<old.generation, "domain">>
      BY <1>7, <2>1 DEF Handed, Slots
    <2>2. ASSUME NEW q \in Available, domain = rows[q].domain PROVE domain \in Handed
      BY <2>2 DEF TInv, RowsTyped, Available, FilesOf
    <2> QED
      BY <1>4, <2>1, <2>2 DEF Registered
  <1>9. domain \in Files
    BY <1>8, HandedFiles DEF TInv
  <1>10. p \in Publications
    <2>1. /\ old.result \in Results /\ old.generation \in Generations
          /\ old.layout \in Layouts /\ old.values \in SUBSET Files
          /\ old.source \in Layouts \cup {None}
      BY <1>2, PublicationFields DEF Holds
    <2> QED
      BY <1>5, <1>9, <2>1 DEF Publications
  <1>11. Holds(p)
    BY <1>2, <1>5, <1>8, <1>10 DEF Holds
  <1>12. Holds(p)'
    BY <1>3, <1>11 DEF Holds, Handed
  <1>13. \A v \in Workers \ {w} : ~ Busy(v, "idle") => workers[v].generation # p.generation
    <2>1. ~ Busy(w, "idle")
      BY DEF ChooseDomain, Busy
    <2> QED
      BY <1>1, <1>5, <2>1 DEF TInv, WorkersTyped
  <1>14. WorkersTyped'
    BY <1>3, <1>6, <1>7, <1>12, <1>13, WorkerStep DEF TInv
  <1>15. RowsTyped' /\ disk' \subseteq Handed'
    BY <1>3 DEF TInv, RowsTyped, Rows, FilesOf, Handed
  <1> QED
    BY <1>3, <1>14, <1>15 DEF TInv

\* A prepared publication is a manifest of files handed out.
LEMMA PreparedManifest ==
    ASSUME NEW p, Holds(p), p.step = "prepared"
    PROVE  /\ Manifest(p) \in Manifests /\ p.result \in Results
           /\ FilesOf(Manifest(p)) \subseteq Handed /\ Own(p) \subseteq Handed
  <1>1. /\ p.layout \in Layouts /\ p.values \in SUBSET Files /\ p.domain \in Files
        /\ p.result \in Results
    BY PublicationFields DEF Holds
  <1>2. Manifest(p) \in Manifests /\ Manifest(p).values = p.values
        /\ Manifest(p).domain = p.domain
    BY <1>1 DEF Manifest, Manifests
  <1>3. FilesOf(Manifest(p)) \subseteq Handed
    BY <1>2 DEF Holds, FilesOf
  <1> QED
    BY <1>1, <1>2, <1>3 DEF Own

\* Publication, interrupted or not, leaves handed-out files and typed rows.
LEMMA CommitTyped ==
    ASSUME TInv, NEW w \in Workers, Commit(w) \/ CrashInCommit(w)
    PROVE  TInv'
  <1>1. PICK p : p = workers[w]
    OBVIOUS
  <1>2. Holds(p) /\ p.step = "prepared"
    <2>1. ~ Busy(w, "idle") /\ workers[w].step = "prepared"
      BY DEF Commit, CrashInCommit, Busy
    <2> QED
      BY <1>1, <2>1, BusyHolds DEF TInv
  <1>3. /\ workers' = [workers EXCEPT ![w] = Idle]
        /\ UNCHANGED <<generation, journal>>
    BY DEF Commit, CrashInCommit
  <1>4. WorkersTyped'
    BY <1>3, WorkerRests DEF TInv
  <1>5. /\ Manifest(p) \in Manifests /\ p.result \in Results
        /\ FilesOf(Manifest(p)) \subseteq Handed /\ Own(p) \subseteq Handed
    BY <1>2, PreparedManifest
  <1>6. rows[p.result] # None => Missing(p) \subseteq Handed
    BY <1>5 DEF Missing, TInv, RowsTyped, Rows
  <1>7. Handed' = Handed
    BY <1>3 DEF Handed
  <1>8. disk' \subseteq Handed'
    <2>1. disk \subseteq Handed
      BY DEF TInv
    <2>2. CASE Commit(w)
      BY <1>1, <1>5, <1>6, <1>7, <2>1, <2>2 DEF Commit, Restores
    <2>3. CASE CrashInCommit(w)
      BY <1>1, <1>5, <1>6, <1>7, <2>1, <2>3 DEF CrashInCommit, Restores
    <2> QED
      BY <2>2, <2>3
  <1>9. RowsTyped'
    <2>1. CASE rows' = [rows EXCEPT ![p.result] = Manifest(p)] /\ retired' = retired \ {p.result}
      <3>1. \A r \in Results : rows'[r] = IF r = p.result THEN Manifest(p) ELSE rows[r]
        BY <1>5, <2>1 DEF TInv, RowsTyped
      <3>2. DOMAIN rows' = Results
        BY <2>1 DEF TInv, RowsTyped
      <3>3. ASSUME NEW r \in Rows'
            PROVE  rows'[r] \in Manifests /\ FilesOf(rows'[r]) \subseteq Handed
        BY <1>5, <3>1, <3>3 DEF TInv, RowsTyped, Rows
      <3>4. retired' \subseteq Rows'
        BY <2>1, <3>1 DEF TInv, RowsTyped, Rows
      <3> QED
        BY <1>7, <3>2, <3>3, <3>4 DEF RowsTyped, FilesOf
    <2>2. CASE rows' = rows /\ retired' \subseteq retired
      BY <1>7, <2>2 DEF TInv, RowsTyped, Rows, FilesOf
    <2> QED
      BY <1>1, <2>1, <2>2 DEF Commit, CrashInCommit
  <1> QED
    BY <1>3, <1>4, <1>8, <1>9 DEF TInv

LEMMA DropTyped ==
    ASSUME TInv, NEW w \in Workers, Drop(w)
    PROVE  TInv'
  <1>1. /\ workers' = [workers EXCEPT ![w] = Idle]
        /\ UNCHANGED <<rows, retired, disk, generation, journal>>
    BY DEF Drop
  <1>2. WorkersTyped'
    BY <1>1, WorkerRests DEF TInv
  <1> QED
    BY <1>1, <1>2 DEF TInv, RowsTyped, Rows, FilesOf, Handed

\* A step of no publisher that keeps the rows, retires available ones, and
\* creates no file.
LEMMA OtherTyped ==
    ASSUME TInv, UNCHANGED <<rows, publication>>, disk' \subseteq disk,
           retired \subseteq retired', retired' \subseteq Rows,
           journal' \in Seq(JournalEntries)
    PROVE  TInv'
  <1>1. UNCHANGED <<rows, workers, generation>>
    BY DEF publication
  <1>2. Handed' = Handed /\ Rows' = Rows
    BY <1>1 DEF Handed, Rows
  <1>3. RowsTyped'
    BY <1>1, <1>2 DEF TInv, RowsTyped, FilesOf
  <1>4. WorkersTyped'
    <2>1. \A p : Holds(p)' <=> Holds(p)
      BY <1>1, <1>2 DEF Holds
    <2>2. \A v \in Workers : Busy(v, "idle")' <=> Busy(v, "idle")
      BY <1>1 DEF Busy
    <2>3. \A v \in Workers : workers'[v] = Idle \/ Holds(workers[v])'
      BY <1>1, <1>2 DEF TInv, WorkersTyped, Holds
    <2> QED
      BY <1>1, <2>2, <2>3 DEF TInv, WorkersTyped
  <1> QED
    BY <1>1, <1>2, <1>3, <1>4 DEF TInv


\* closure() stays within what it starts from and the available rows.
LEMMA ReachAvailable ==
    ASSUME NEW S \in SUBSET Available
    PROVE  Reach(S) \subseteq Available
  BY DEF Reach

\* What a confirmed release unlinks was handed out, whatever it selected.
LEMMA PlanTyped ==
    ASSUME TInv, NEW roots \in SUBSET Available, NEW retained
    PROVE  /\ Plan(roots, retained).selected \subseteq Available
           /\ Plan(roots, retained).files \in SUBSET Files
  <1>1. Selected(roots, retained) \subseteq Available
    BY ReachAvailable DEF Selected
  <1>2. Plan(roots, retained).selected = Selected(roots, retained)
        /\ Plan(roots, retained).files \subseteq FilesOfAll(Selected(roots, retained))
    BY DEF Plan
  <1>3. ASSUME NEW r \in Available PROVE FilesOf(rows[r]) \subseteq Files
    BY HandedFiles DEF TInv, RowsTyped, Available
  <1>4. FilesOfAll(Selected(roots, retained)) \subseteq Files
    BY <1>1, <1>3 DEF FilesOfAll
  <1> QED
    BY <1>1, <1>2, <1>4

\* An entry of the journal moves to another step.
LEMMA EntryTyped ==
    ASSUME journal \in Seq(JournalEntries), NEW e \in DOMAIN journal,
           NEW step \in {"journaled", "unlinked", "completed"}
    PROVE  [journal EXCEPT ![e].step = step] \in Seq(JournalEntries)
  <1>1. journal[e] \in JournalEntries
    OBVIOUS
  <1>2. PICK entry : entry = [journal[e] EXCEPT !.step = step]
    OBVIOUS
  <1>3. entry \in JournalEntries
    BY <1>1, <1>2 DEF JournalEntries
  <1>4. [journal EXCEPT ![e] = entry] \in Seq(JournalEntries)
    BY <1>3
  <1> QED
    BY <1>2, <1>4

LEMMA ReleaseTyped == ASSUME TInv, ReleaseStep PROVE TInv'
  <1>1. UNCHANGED <<rows, publication>> /\ disk' \subseteq disk
    BY DEF ReleaseStep, PreviewRelease, Retire, Unlink, CrashInUnlink, Finish
  <1>2. CASE Retire /\ SameInventory
    <2>1. /\ release.roots \subseteq Available
          /\ release = Plan(release.roots, release.retained)
          /\ retired' = retired \cup release.selected
          /\ journal' = Append(journal, [files |-> release.files, step |-> "journaled"])
      BY <1>2 DEF Retire, SameInventory
    <2>2. release.selected \subseteq Available /\ release.files \in SUBSET Files
      <3>1. PICK roots, retained : roots = release.roots /\ retained = release.retained
        OBVIOUS
      <3>2. release = Plan(roots, retained) /\ roots \in SUBSET Available
        BY <2>1, <3>1
      <3> QED
        BY <3>2, PlanTyped
    <2>3. PICK entry : entry = [files |-> release.files, step |-> "journaled"]
      OBVIOUS
    <2>4. entry \in JournalEntries
      BY <2>2, <2>3 DEF JournalEntries
    <2>5. journal' \in Seq(JournalEntries)
      BY <2>1, <2>3, <2>4 DEF TInv
    <2>6. retired' \subseteq Rows
      BY <2>1, <2>2 DEF TInv, RowsTyped, Available
    <2> QED
      BY <1>1, <2>1, <2>5, <2>6, OtherTyped
  <1>3. ASSUME NEW e \in DOMAIN journal, Unlink(e) \/ CrashInUnlink(e) \/ Finish(e)
        PROVE  TInv'
    <2>1. journal \in Seq(JournalEntries) /\ retired' = retired
      BY <1>3 DEF TInv, Unlink, CrashInUnlink, Finish
    <2>2. journal' \in {journal, [journal EXCEPT ![e].step = "unlinked"],
                        [journal EXCEPT ![e].step = "completed"]}
      BY <1>3 DEF Unlink, CrashInUnlink, Finish
    <2>3. journal' \in Seq(JournalEntries)
      BY <2>1, <2>2, EntryTyped
    <2> QED
      BY <1>1, <2>1, <2>3, OtherTyped DEF TInv, RowsTyped
  <1>4. CASE UNCHANGED <<retired, journal>>
    BY <1>1, <1>4, OtherTyped DEF TInv, RowsTyped
  <1>5. \/ Retire /\ SameInventory
        \/ \E e \in DOMAIN journal : Unlink(e) \/ CrashInUnlink(e) \/ Finish(e)
        \/ UNCHANGED <<retired, journal>>
    BY DEF ReleaseStep, PreviewRelease, Retire
  <1> QED
    BY <1>2, <1>3, <1>4, <1>5

LEMMA CleanupTyped == ASSUME TInv, CleanupStep \/ UNCHANGED vars PROVE TInv'
  <1>1. UNCHANGED <<rows, publication, retired, journal>> /\ disk' \subseteq disk
    BY DEF CleanupStep, PreviewCleanup, ApplyCleanup, CrashInCleanup, vars
  <1> QED
    BY <1>1, OtherTyped DEF TInv, RowsTyped

LEMMA TInvStep == TInv /\ [Next]_vars => TInv'
  <1> SUFFICES ASSUME TInv, [Next]_vars PROVE TInv'
    OBVIOUS
  <1>1. ASSUME NEW w \in Workers, PublishStep(w) PROVE TInv'
    BY <1>1, EncodeTyped, DomainTyped, CommitTyped, DropTyped DEF PublishStep
  <1> QED
    BY <1>1, ReleaseTyped, CleanupTyped DEF Next

LEMMA TInvInit == Init => TInv
  <1> SUFFICES ASSUME Init PROVE TInv
    OBVIOUS
  <1>1. generation = 1 /\ 1 \in 1 .. MaxGenerations + 1
    BY BoundsAssumption DEF Init
  <1>2. RowsTyped
    BY DEF Init, RowsTyped, Rows
  <1>3. WorkersTyped
    BY DEF Init, WorkersTyped, Busy, Idle
  <1>4. journal \in Seq(JournalEntries)
    BY DEF Init
  <1> QED
    BY <1>1, <1>2, <1>3, <1>4 DEF Init, TInv

\* Every name in use was handed out, and no two publications have one name:
\* whatever is composed, reused, revived, interrupted or removed.
THEOREM StoreTypeCorrect == Spec => []TypeOK
  <1>1. ASSUME TInv PROVE TypeOK
    <2>1. \A r \in Rows : rows[r] \in Manifests
      BY <1>1 DEF TInv, RowsTyped
    <2>2. \A w \in Workers : ~ Busy(w, "idle") => workers[w].generation < generation
      BY <1>1, BusyHolds DEF TInv, Holds
    <2> QED
      BY <1>1, <2>1, <2>2 DEF TInv, RowsTyped, WorkersTyped, Handed, TypeOK
  <1> QED
    BY <1>1, TInvInit, TInvStep, PTL DEF Spec
=============================================================================
