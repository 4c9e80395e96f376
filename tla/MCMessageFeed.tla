--------------------------- MODULE MCMessageFeed ---------------------------
(* MessageFeed for TLC: two phones caught the same two texts and send them in *)
(* opposite orders, one of them after a text of its own.                      *)
EXTENDS MessageFeed, TLC

CONSTANTS m1, m2, m3, r1, r2, d1, d2

MCBatch == r1 :> <<m1, m2>> @@ r2 :> <<m3, m2, m1>>
MCFrom == r1 :> d1 @@ r2 :> d2
=============================================================================
