---------------------------- MODULE MCOperationReserves ----------------------------
(***************************************************************************)
(* Three entries: a domain window, parsed metadata, and an interval proof  *)
(* whose build remembers both.  In the memo, a result of two originals, of  *)
(* which one is made of the other.                                         *)
(***************************************************************************)
EXTENDS OperationReserves, TLC

CONSTANTS window, metadata, proof, t1, t2, t3

MCCharge == window :> 2 @@ metadata :> 2 @@ proof :> 1
MCPriority == window :> 0 @@ metadata :> 1 @@ proof :> 2
MCInner == window :> {} @@ metadata :> {} @@ proof :> {window, metadata}
MCDepth == window :> 0 @@ metadata :> 0 @@ proof :> 1
MCSources == 1 :> {} @@ 2 :> {1} @@ 3 :> {1, 2}
=============================================================================
