---------------------------- MODULE MCUpdatePlans ----------------------------
(***************************************************************************)
(* A small instance of UpdatePlans: one input, two computed nodes in a     *)
(* row where the second also reads the input.                              *)
(***************************************************************************)
EXTENDS UpdatePlans, TLC

CONSTANTS input, mean, rank, main, side, plain, bounded, early, late, p1, p2

MCNodes == {input, mean, rank}
MCParents == input :> {} @@ mean :> {input} @@ rank :> {input, mean}
MCOperators == {mean, rank}
MCStartOutputs == {rank}
MCStartContexts == main :> plain
MCThrough == [v \in Versions |-> IF v = early THEN 2 ELSE 3]
MCCutoff == plain :> NoCutoff @@ bounded :> 1

\* Graphs that move under plans of two contexts; results that are retired
\* under plans of an early and a late version.
MCMoving == [contexts |-> {main, side}, versions |-> {early}, changes |-> 3, releases |-> 0]
MCRetiring == [contexts |-> {main}, versions |-> {early, late}, changes |-> 2, releases |-> 2]
MCDriven == [contexts |-> {main}, versions |-> {early}, changes |-> 3, releases |-> 0]
MCScopes == {MCMoving, MCRetiring}
MCDrivenScopes == {MCDriven}
MCRetiringScopes == {[MCRetiring EXCEPT !.versions = {early}, !.releases = 1]}

MCPlanSymmetry == Permutations(Plans)
=============================================================================
