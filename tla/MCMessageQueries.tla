-------------------------- MODULE MCMessageQueries --------------------------
(* MessageQueries for TLC: five messages of two phones, two of them received  *)
(* in the same second, one that the filters leave out.                        *)
EXTENDS MessageQueries, TLC

CONSTANTS d1, d2

MCReceivedAt == 1 :> 2 @@ 2 :> 1 @@ 3 :> 2 @@ 4 :> 3 @@ 5 :> 2
MCDevice == 1 :> d1 @@ 2 :> d2 @@ 3 :> d1 @@ 4 :> d1 @@ 5 :> d2
=============================================================================
