--------------------------- MODULE SingleUseCode ---------------------------
(***************************************************************************)
(* What an enrolment code promises (models.EnrolmentToken): "a single-use  *)
(* code that authorizes exactly one device registration".  A code is       *)
(* issued, then used by one device or cancelled, and that is the end of it.*)
(* A device may also be enrolled without a code, by an administrator's key.*)
(***************************************************************************)
CONSTANTS Codes, Devices

VARIABLES
    fate,     \* what became of each code: its device, once it has one
    enrolled  \* the devices that exist

Init == fate = [c \in Codes |-> "unissued"] /\ enrolled = {}

Issue(c) == fate[c] = "unissued" /\ fate' = [fate EXCEPT ![c] = "open"] /\ UNCHANGED enrolled

Cancel(c) == fate[c] = "open" /\ fate' = [fate EXCEPT ![c] = "cancelled"] /\ UNCHANGED enrolled

\* The code and the device in one step: neither is ever seen without the other.
Use(c, d) ==
    /\ fate[c] = "open" /\ d \notin enrolled
    /\ fate' = [fate EXCEPT ![c] = d]
    /\ enrolled' = enrolled \cup {d}

EnrolByKey(d) == d \notin enrolled /\ enrolled' = enrolled \cup {d} /\ UNCHANGED fate

Next ==
    \/ \E c \in Codes : Issue(c) \/ Cancel(c) \/ \E d \in Devices : Use(c, d)
    \/ \E d \in Devices : EnrolByKey(d)

Spec == Init /\ [][Next]_<<fate, enrolled>>
=============================================================================
