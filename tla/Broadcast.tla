----------------------------- MODULE Broadcast -----------------------------
(***************************************************************************)
(* What the event bus promises its subscribers (events.EventBus, "Delivery *)
(* is best-effort by design"): the frames one subscriber hears over one    *)
(* connection come in the order they were published in, each publication   *)
(* at most once.  Any of them may be missing.                              *)
(***************************************************************************)
EXTENDS Naturals, Sequences

CONSTANTS Frames, Clients

VARIABLES
    published,  \* every publication, in order
    heard       \* the publications each open connection has brought, by position

Init == published = <<>> /\ heard = [c \in Clients |-> <<>>]

Publish(f) == published' = Append(published, f) /\ UNCHANGED heard

\* Connections end, those of a whole process together; the next ones start anew.
Close(closed) ==
    /\ heard' = [c \in Clients |-> IF c \in closed THEN <<>> ELSE heard[c]]
    /\ UNCHANGED published

Hear(c, i) ==
    /\ \A k \in DOMAIN heard[c] : heard[c][k] < i
    /\ heard' = [heard EXCEPT ![c] = Append(@, i)]
    /\ UNCHANGED published

Next ==
    \/ \E f \in Frames : Publish(f)
    \/ \E closed \in SUBSET Clients : Close(closed)
    \/ \E c \in Clients : \E i \in DOMAIN published : Hear(c, i)

Spec == Init /\ [][Next]_<<published, heard>>
=============================================================================
