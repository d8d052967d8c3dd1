---------------------------- MODULE VersionHistory ----------------------------
(***************************************************************************)
(* What a graph promises about its global versions: they are published one *)
(* after the other, each over the version that was current, and never      *)
(* again.  Planning, execution, conflicts, retries and branch updates are  *)
(* not part of the promise.                                                *)
(***************************************************************************)
CONSTANTS
    Plans,        \* update plans, each one version at most
    None          \* no version yet

VARIABLES
    published,    \* plans published as global versions
    before,       \* published version |-> the one it replaced
    current       \* the version readers are given

vars == <<published, before, current>>

Init ==
    /\ published = {}
    /\ before = [p \in {} |-> None]
    /\ current = None

Publish(p) ==
    /\ p \notin published
    /\ published' = published \cup {p}
    /\ before' = [q \in published' |-> IF q = p THEN current ELSE before[q]]
    /\ current' = p

Next == \E p \in Plans \ {None} : Publish(p)

Spec == Init /\ [][Next]_vars

-----------------------------------------------------------------------------
\* No version was replaced twice, and only the current one was never replaced.
OneHistory ==
    /\ current = None <=> published = {}
    /\ \A p, q \in published : before[p] = before[q] => p = q
    /\ \A p \in published \ {current} : \E q \in published : before[q] = p

\* OneHistory is inductive with the range of its variables: a version has
\* replaced one that is published, and never the current one.
Linear ==
    /\ published \subseteq Plans
    /\ current \in published \cup {None}
    /\ \A p \in published : before[p] \in (published \cup {None}) \ {current}
    /\ OneHistory
=============================================================================
