--------------------------- MODULE UploadPromise ---------------------------
(***************************************************************************)
(* What the phone's outbox promises (data/local/Entities.kt, SyncStatus):  *)
(* a captured message waits; it is delivered once the server has it, or    *)
(* refused, or held back without having been taken from the queue; retries *)
(* go from waiting to waiting.  Only a delivered message is deleted, and a *)
(* server has nothing that was not sent to it.                             *)
(*                                                                         *)
(* With one worker (Exclusive) a message is settled once.  Where several   *)
(* share the table, one may reopen or settle again what another settled.   *)
(***************************************************************************)
CONSTANTS
    Messages,
    Storable,   \* what a server can store
    Refusable,  \* what some server the phone may be pointed at refuses
    Exclusive   \* whether a single worker empties the outbox

VARIABLES
    fate,    \* what became of each message on the phone
    sent,    \* what is on its way in some request
    stored   \* what the server has

Init ==
    /\ fate = [m \in Messages |-> "ABSENT"]
    /\ sent = {}
    /\ stored = {}

Fated(status) == {m \in Messages : fate[m] = status}

Kept    == {m \in Messages : fate[m] \notin {"ABSENT", "PRUNED"}}
Movable == IF Exclusive THEN Fated("WAITING") ELSE Kept

Becomes(ids, status) == fate' = [m \in Messages |-> IF m \in ids THEN status ELSE fate[m]]

\* Also again, once deleted: the inbox still has a copy.
Capture(m) == m \notin Kept /\ Becomes({m}, "WAITING") /\ UNCHANGED <<sent, stored>>

Send(ids) ==
    /\ Exclusive => ids \subseteq Fated("WAITING")
    /\ Becomes(ids \cap Kept, "WAITING")
    /\ sent' = sent \cup ids
    /\ UNCHANGED stored

\* A server takes some of what is on its way; requests end, answered or lost.
Serve(ids) ==
    /\ ids \subseteq sent \cap Storable
    /\ stored' = stored \cup ids
    /\ sent' \subseteq sent
    /\ UNCHANGED fate

Settle(ids) ==
    /\ \/ ids \subseteq Movable \cap stored    /\ Becomes(ids, "SYNCED")
       \/ ids \subseteq Movable \cap Refusable /\ Becomes(ids, "QUARANTINED")
       \/ ids \subseteq Fated("WAITING")       /\ Becomes(ids, "EXCLUDED")
       \/ ids \subseteq Fated("SYNCED")        /\ Becomes(ids, "PRUNED")
       \/ ids \subseteq Movable                /\ Becomes(ids, "WAITING")
    /\ UNCHANGED <<sent, stored>>

Next ==
    \/ \E m \in Messages : Capture(m)
    \/ \E ids \in SUBSET Messages : Send(ids) \/ Serve(ids) \/ Settle(ids)

Spec == Init /\ [][Next]_<<fate, sent, stored>>
=============================================================================
