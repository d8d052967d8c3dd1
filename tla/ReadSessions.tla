----------------------------- MODULE ReadSessions -----------------------------
(***************************************************************************)
(* A finite read session over an ArtifactStore: manifests are kept in the  *)
(* session's memo under their identity and active content identity, which  *)
(* do not include the paths of their files.                                *)
(***************************************************************************)
EXTENDS ArtifactStore

VARIABLE memo  \* the "manifest" entries of the session's MetadataMemo

sessionVars == <<vars, memo>>

SessionInit == Init /\ memo = [r \in Results |-> [layout \in Layouts |-> None]]

\* manifest(): a retired row is not read; a cached entry of the active content
\* is returned as it is; anything else is read and kept.
ReadManifest(r) ==
    /\ r \in Available
    /\ memo[r][rows[r].layout] = None
    /\ memo' = [memo EXCEPT ![r][rows[r].layout] = rows[r]]
    /\ UNCHANGED vars

\* An entry may go at any time: the memo is bounded.
Evict(r, layout) ==
    /\ memo[r][layout] # None
    /\ memo' = [memo EXCEPT ![r][layout] = None]
    /\ UNCHANGED vars

SessionNext ==
    \/ Next /\ UNCHANGED memo
    \/ \E r \in Results : ReadManifest(r) \/ \E layout \in Layouts : Evict(r, layout)

SessionSpec == SessionInit /\ [][SessionNext]_sessionVars

\* "Read-session memos bind to the active content identity, so revival cannot
\* return deleted paths": what the memo holds for the active content of an
\* available result names partitions that exist.
MemoPathsExist ==
    \A r \in Available :
        LET manifest == memo[r][rows[r].layout] IN
        manifest # None => manifest.values \subseteq disk

=============================================================================
