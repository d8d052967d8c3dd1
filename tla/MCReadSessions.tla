---------------------------- MODULE MCReadSessions ----------------------------
(***************************************************************************)
(* One publisher, one result that can also be composed from another.       *)
(***************************************************************************)
EXTENDS ReadSessions, TLC

CONSTANTS base, window, whole, part, w1

MCSource == base :> None @@ window :> base
MCDomainOf == base :> whole @@ window :> part
=============================================================================
