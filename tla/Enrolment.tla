----------------------------- MODULE Enrolment -----------------------------
(***************************************************************************)
(* Registering devices (services.DeviceService.register, EnrolmentService, *)
(* deps.resolve_principal, EnrolmentRepository): registration requests and *)
(* cancellations run at the same time, each in a transaction of its own.   *)
(*                                                                         *)
(* The database is PostgreSQL at READ COMMITTED.  A SELECT sees the rows   *)
(* committed so far.  An UPDATE takes the row lock, waits for it if it must*)
(* and evaluates its WHERE on the row as it is then; the lock is held until*)
(* the transaction ends.  A value computed in Python, such as utcnow(), is *)
(* as old as the statement.  A request names the device it creates.        *)
(***************************************************************************)
EXTENDS FiniteSets

CONSTANTS
    Codes,      \* enrolment codes
    Requests,   \* POST /devices/register, one each; a retry is another request
    Cancels,    \* DELETE /enrolments/{id}, one each
    AdminKey,   \* the other credential that registers: an admin key (or the setup key)
    Nobody      \* no device, no lock holder, no credential presented yet

ASSUME EnrolmentAssumption ==
    /\ Nobody \notin Requests \cup Cancels \cup Codes
    /\ AdminKey \notin Codes \cup {Nobody}
    /\ Requests \cap Cancels = {}
    /\ (Requests \cup {Nobody}) \cap {"unissued", "open", "cancelled"} = {}

VARIABLES
    issued,     \* codes an administrator has issued
    expired,    \* codes whose expires_at has passed
    usedBy,     \* enrolment_tokens.used_by_device_id, committed; set with used_at
    cancelled,  \* codes with a committed cancelled_at
    devices,    \* devices rows, committed
    lock,       \* the transaction that holds a code's row lock
    pc,         \* where each request is
    presented,  \* the credential or the code each request is about
    inTime,     \* the UPDATE of each request was sent before the code expired
    events      \* what has been emitted, as <<type, request>>

vars == <<issued, expired, usedBy, cancelled, devices, lock, pc, presented, inTime, events>>

Clients == Requests \cup Cancels
Answers == {"created", "refused", "unauthorized", "not_found", "deleted",
            "conflict", "lost"}
Stages == Answers \cup {"new", "insert", "update", "commit", "announce", "announce_use"}

Init ==
    /\ issued = {} /\ expired = {} /\ cancelled = {} /\ devices = {} /\ events = {}
    /\ usedBy = [c \in Codes |-> Nobody]
    /\ lock = [c \in Codes |-> Nobody]
    /\ pc = [q \in Clients |-> "new"]
    /\ presented = [q \in Clients |-> Nobody]
    /\ inTime = [q \in Clients |-> FALSE]

Goto(q, stage) == pc' = [pc EXCEPT ![q] = stage]
Unlock(q) == lock' = [c \in Codes |-> IF lock[c] = q THEN Nobody ELSE lock[c]]
Emit(type, q) == events' = events \cup {<<type, q>>}

\* EnrolmentToken.status, without the code's being unknown.
Pending(c) == usedBy[c] = Nobody /\ c \notin cancelled /\ c \notin expired
-----------------------------------------------------------------------------
(* Codes. *)

Issue(c) ==
    /\ c \notin issued
    /\ issued' = issued \cup {c}
    /\ UNCHANGED <<expired, usedBy, cancelled, devices, lock, pc, presented, inTime, events>>

Expire(c) ==
    /\ c \in issued \ expired
    /\ expired' = expired \cup {c}
    /\ UNCHANGED <<issued, usedBy, cancelled, devices, lock, pc, presented, inTime, events>>
-----------------------------------------------------------------------------
(* POST /devices/register. *)

\* 401 for a code the server does not know, 403 for one that is not pending.
Present(r, credential) ==
    /\ pc[r] = "new"
    /\ presented' = [presented EXCEPT ![r] = credential]
    /\ Goto(r, IF credential = AdminKey THEN "insert"
               ELSE IF credential \notin issued THEN "unauthorized"
               ELSE IF Pending(credential) THEN "insert" ELSE "refused")
    /\ UNCHANGED <<issued, expired, usedBy, cancelled, devices, lock, inTime, events>>

\* INSERT of the device, visible to nobody yet, and the UPDATE is on its way.
InsertDevice(r) ==
    /\ pc[r] = "insert"
    /\ IF presented[r] = AdminKey
       THEN Goto(r, "commit") /\ UNCHANGED inTime
       ELSE Goto(r, "update") /\ inTime' = [inTime EXCEPT ![r] = presented[r] \notin expired]
    /\ UNCHANGED <<issued, expired, usedBy, cancelled, devices, lock, presented, events>>

\* Faulty: the eligibility was checked by the SELECT, the UPDATE has no conditions.
ConsumeUnconditionally(r) ==
    LET c == presented[r] IN
    /\ pc[r] = "update" /\ lock[c] = Nobody
    /\ lock' = [lock EXCEPT ![c] = r] /\ Goto(r, "commit")
    /\ UNCHANGED <<issued, expired, usedBy, cancelled, devices, presented, inTime, events>>

\* Faulty: the WHERE forgets cancelled_at.
ConsumeCancelled(r) ==
    LET c == presented[r] IN
    /\ pc[r] = "update" /\ lock[c] = Nobody
    /\ IF usedBy[c] = Nobody /\ inTime[r]
       THEN lock' = [lock EXCEPT ![c] = r] /\ Goto(r, "commit")
       ELSE Goto(r, "refused") /\ UNCHANGED lock
    /\ UNCHANGED <<issued, expired, usedBy, cancelled, devices, presented, inTime, events>>

\* EnrolmentRepository.consume; no row matched rolls the device back (403).
Consume(r) ==
    LET c == presented[r] IN
    /\ pc[r] = "update" /\ lock[c] = Nobody
    /\ IF usedBy[c] = Nobody /\ c \notin cancelled /\ inTime[r]
       THEN lock' = [lock EXCEPT ![c] = r] /\ Goto(r, "commit")
       ELSE Goto(r, "refused") /\ UNCHANGED lock
    /\ UNCHANGED <<issued, expired, usedBy, cancelled, devices, presented, inTime, events>>

\* Faulty: the code is spent in a transaction of its own, after the device's.
CommitDeviceOnly(r) ==
    /\ pc[r] = "commit"
    /\ devices' = devices \cup {r}
    /\ Unlock(r) /\ Goto(r, "announce")
    /\ UNCHANGED <<issued, expired, usedBy, cancelled, presented, inTime, events>>

\* The device and the spent code become visible together.
Commit(r) ==
    /\ pc[r] = "commit"
    /\ devices' = devices \cup {r}
    /\ usedBy' = [c \in Codes |-> IF lock[c] = r THEN r ELSE usedBy[c]]
    /\ Unlock(r) /\ Goto(r, "announce")
    /\ UNCHANGED <<issued, expired, cancelled, presented, inTime, events>>

Announce(r) ==
    /\ pc[r] = "announce"
    /\ Emit("DEVICE_REGISTERED", r)
    /\ Goto(r, IF presented[r] = AdminKey THEN "created" ELSE "announce_use")
    /\ UNCHANGED <<issued, expired, usedBy, cancelled, devices, lock, presented, inTime>>

AnnounceUse(r) ==
    /\ pc[r] = "announce_use"
    /\ Emit("ENROLMENT_USED", r) /\ Goto(r, "created")
    /\ UNCHANGED <<issued, expired, usedBy, cancelled, devices, lock, presented, inTime>>
-----------------------------------------------------------------------------
(* DELETE /enrolments/{id}. *)

\* 404 for a code that was never issued; whatever state it is in otherwise.
FindCode(x, c) ==
    /\ pc[x] = "new"
    /\ presented' = [presented EXCEPT ![x] = c]
    /\ Goto(x, IF c \in issued THEN "update" ELSE "not_found")
    /\ UNCHANGED <<issued, expired, usedBy, cancelled, devices, lock, inTime, events>>

\* Faulty: the UPDATE goes by the id alone.
CancelAnyway(x) ==
    LET c == presented[x] IN
    /\ pc[x] = "update" /\ lock[c] = Nobody
    /\ lock' = [lock EXCEPT ![c] = x] /\ Goto(x, "commit")
    /\ UNCHANGED <<issued, expired, usedBy, cancelled, devices, presented, inTime, events>>

\* EnrolmentRepository.cancel: only a code nobody has used; otherwise 409.
Cancel(x) ==
    LET c == presented[x] IN
    /\ pc[x] = "update" /\ lock[c] = Nobody
    /\ IF usedBy[c] = Nobody
       THEN lock' = [lock EXCEPT ![c] = x] /\ Goto(x, "commit")
       ELSE Goto(x, "conflict") /\ UNCHANGED lock
    /\ UNCHANGED <<issued, expired, usedBy, cancelled, devices, presented, inTime, events>>

CommitCancel(x) ==
    /\ pc[x] = "commit"
    /\ cancelled' = cancelled \cup {presented[x]}
    /\ Unlock(x) /\ Goto(x, "announce")
    /\ UNCHANGED <<issued, expired, usedBy, devices, presented, inTime, events>>

\* Faulty: an event type nobody knows.
AnnounceCancelMisspelt(x) ==
    /\ pc[x] = "announce"
    /\ Emit("ENROLMENT_CANCELED", x) /\ Goto(x, "deleted")
    /\ UNCHANGED <<issued, expired, usedBy, cancelled, devices, lock, presented, inTime>>

\* 204, after the event.
AnnounceCancel(x) ==
    /\ pc[x] = "announce"
    /\ Emit("ENROLMENT_CANCELLED", x) /\ Goto(x, "deleted")
    /\ UNCHANGED <<issued, expired, usedBy, cancelled, devices, lock, presented, inTime>>
-----------------------------------------------------------------------------
\* Faulty: an abandoned transaction keeps its row lock.
FailHoldingLock(q) ==
    /\ pc[q] \notin Answers
    /\ Goto(q, "lost")
    /\ UNCHANGED <<issued, expired, usedBy, cancelled, devices, lock, presented, inTime, events>>

\* The process dies, the database connection breaks or the client is gone: what
\* was not committed is rolled back, what was not announced never will be.
Fail(q) ==
    /\ pc[q] \notin Answers
    /\ Unlock(q) /\ Goto(q, "lost")
    /\ UNCHANGED <<issued, expired, usedBy, cancelled, devices, presented, inTime, events>>

Register(r) == InsertDevice(r) \/ Consume(r) \/ Commit(r) \/ Announce(r) \/ AnnounceUse(r)
CancelCode(x) == Cancel(x) \/ CommitCancel(x) \/ AnnounceCancel(x)

Next ==
    \/ \E c \in Codes : Issue(c) \/ Expire(c)
    \/ \E r \in Requests : Register(r) \/ \E credential \in Codes \cup {AdminKey} : Present(r, credential)
    \/ \E x \in Cancels : CancelCode(x) \/ \E c \in Codes : FindCode(x, c)
    \/ \E q \in Clients : Fail(q)

Spec == Init /\ [][Next]_vars

\* The server works on a request it has accepted until it answers or fails.
Fairness ==
    /\ \A r \in Requests : WF_vars(Register(r))
    /\ \A x \in Cancels : WF_vars(CancelCode(x))

FairSpec == Spec /\ Fairness
-----------------------------------------------------------------------------
(* Properties. *)

\* Every variable has its type.
TypeOK ==
    /\ issued \subseteq Codes /\ expired \subseteq Codes /\ cancelled \subseteq Codes
    /\ usedBy \in [Codes -> Requests \cup {Nobody}]
    /\ devices \subseteq Requests
    /\ lock \in [Codes -> Clients \cup {Nobody}]
    /\ pc \in [Clients -> Stages]
    /\ presented \in [Clients -> Codes \cup {AdminKey, Nobody}]
    /\ inTime \in [Clients -> BOOLEAN]
    /\ events \subseteq {"DEVICE_REGISTERED", "ENROLMENT_USED", "ENROLMENT_CANCELLED"} \X Clients

\* "The code is consumed in the same transaction as the device row, so a failure
\* at either step leaves neither behind" (services.py, register): whatever races,
\* fails or is lost, a device enrolled with a code and a code spent on a device
\* always name each other, so no code ever has two devices.
CodeAndDeviceTogether ==
    /\ \A r \in devices : presented[r] \in Codes => usedBy[presented[r]] = r
    /\ \A c \in Codes : usedBy[c] # Nobody => usedBy[c] \in devices /\ presented[usedBy[c]] = c

\* What a client was told is so (routers/enrolments.py, routers/devices.py): 201
\* means the device exists, 401 and 403 that it never will, 409 that a device has
\* the code, and 204 that the code is cancelled and no device has it.
AnswersAreTrue ==
    /\ \A r \in Requests :
        /\ pc[r] = "created" => r \in devices
        /\ pc[r] \in {"refused", "unauthorized"} => r \notin devices
    /\ \A x \in Cancels :
        /\ pc[x] = "conflict" => usedBy[presented[x]] # Nobody
        /\ pc[x] = "deleted" =>
               presented[x] \in cancelled /\ usedBy[presented[x]] = Nobody

\* "They commit before publishing" (services.py): an event tells of a row that
\* is there.
EventsAreTrue ==
    \A q \in Clients :
        /\ <<"DEVICE_REGISTERED", q>> \in events => q \in devices
        /\ <<"ENROLMENT_USED", q>> \in events => usedBy[presented[q]] = q
        /\ <<"ENROLMENT_CANCELLED", q>> \in events => presented[q] \in cancelled

\* What an observer of the committed rows sees of a code.
Fate == [c \in Codes |->
            IF usedBy[c] # Nobody THEN usedBy[c]
            ELSE IF c \in cancelled THEN "cancelled"
            ELSE IF c \in issued THEN "open" ELSE "unissued"]

Promise == INSTANCE SingleUseCode WITH Devices <- Requests, fate <- Fate, enrolled <- devices

\* The transactions implement a single-use code: a code that is used stays that
\* device's, a cancelled one stays cancelled, each in one atomic step.
CodeIsSingleUse == Promise!Spec

\* Nobody waits for ever on a row lock: an accepted request is answered, unless
\* the process, the connection or the client fails it.
EveryRequestEnds ==
    \A q \in Clients : pc[q] # "new" ~> pc[q] \in Answers
=============================================================================
