----------------------------- MODULE MCEventBus -----------------------------
(* EventBus for TLC: processes and clients are interchangeable. *)
EXTENDS EventBus, TLC

CONSTANTS w1, w2, c1, c2, e1, e2, f1

Symmetry == Permutations(Workers) \cup Permutations(Clients)
=============================================================================
