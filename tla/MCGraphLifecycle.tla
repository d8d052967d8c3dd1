-------------------------- MODULE MCGraphLifecycle --------------------------
(* A diamond a -> {b, c} -> d over one input, the smallest graph in which a *)
(* node has two parents that may sleep and wake apart.                      *)
EXTENDS GraphLifecycle, TLC

CONSTANTS a, b, c, d, k1, d1, d2, u1, u2

MCNodes == {a, b, c, d}

MCParents == (a :> {}) @@ (b :> {a}) @@ (c :> {a}) @@ (d :> {b, c})

=============================================================================
