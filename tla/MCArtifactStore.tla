--------------------------- MODULE MCArtifactStore ---------------------------
(***************************************************************************)
(* A small instance of ArtifactStore: a result, a window of it that can be *)
(* composed from its partitions under a Domain of its own, and a twin that *)
(* shares the first one's Domain.                                          *)
(***************************************************************************)
EXTENDS ArtifactStore, TLC

CONSTANTS base, window, twin, whole, part, w1, w2

MCSource == base :> None @@ window :> base @@ twin :> None
MCDomainOf == base :> whole @@ window :> part @@ twin :> whole
MCWorkerSymmetry == Permutations(Workers)
=============================================================================
