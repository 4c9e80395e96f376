---------------------------- MODULE AtomicIngest ----------------------------
(***************************************************************************)
(* The server as the phone relies on it (services.ingest_batch): an upload *)
(* is taken whole, in one step, or not at all, and is answered only once   *)
(* it is taken.  What was once taken counts as taken, whatever becomes of  *)
(* it on the server.  This is the server that SyncEngine gives the phone.  *)
(***************************************************************************)
CONSTANTS
    Requests,
    Ids         \* the messages each request uploads

VARIABLES
    taken,      \* messages the server has, or has had
    outcome     \* what became of each request

Init == taken = {} /\ outcome = [r \in Requests |-> "open"]

Becomes(r, from, to) == outcome[r] = from /\ outcome' = [outcome EXCEPT ![r] = to]

Take(r)   == Becomes(r, "open", "taken") /\ taken' = taken \cup Ids[r]
Answer(r) == Becomes(r, "taken", "answered") /\ UNCHANGED taken

\* The client will try again: it cannot tell a loss before the take from one after.
Lose(r) == (\E from \in {"open", "taken"} : Becomes(r, from, "failed")) /\ UNCHANGED taken

Next == \E r \in Requests : Take(r) \/ Answer(r) \/ Lose(r)

Spec == Init /\ [][Next]_<<taken, outcome>>
=============================================================================
