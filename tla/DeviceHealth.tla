---------------------------- MODULE DeviceHealth ----------------------------
(***************************************************************************)
(* One device row and the requests that change it (services.DeviceService, *)
(* DeviceRepository, routers/devices.py, deps.current_principal): check-ins*)
(* of the phone, switching off and on, revocation.                         *)
(*                                                                         *)
(* A request reads the row when it starts, changes the object in memory and*)
(* writes back the columns whose value differs from the one it read; the   *)
(* event follows the commit.  A phone's two work chains, and a call that   *)
(* timed out and its repetition, are check-ins at the same time.           *)
(***************************************************************************)
EXTENDS FiniteSets

CONSTANTS
    CheckIns,  \* slots for POST /devices/checkin: so many are under way at once
    Admins     \* slots for POST /devices/{id}/enabled and DELETE /devices/{id}

ASSUME DeviceAssumption == CheckIns \cap Admins = {}

Reports == [permitted : BOOLEAN, readable : BOOLEAN]
Actions == {"on", "off", "revoke"}

VARIABLES
    row,       \* devices: disabled_at, revoked_at, capture_reported_at and the report
    pc,        \* where the request of each slot is, idle when there is none
    seen,      \* of the row as each request read it, the columns it works on
    report,    \* what each check-in reports
    action,    \* what each administrator asks for
    alarm,     \* the last capture event: DEVICE_CAPTURE_BLOCKED, _RESTORED, or none
    notice,    \* the last event about the switch, by the action it tells of
    muddled    \* history: kinds of event that were lost, or overtaken by a later change

vars == <<row, pc, seen, report, action, alarm, notice, muddled>>

Requests == CheckIns \cup Admins
NewRow == [off |-> FALSE, revoked |-> FALSE, reported |-> FALSE, permitted |-> FALSE, readable |-> FALSE]
NoReport == [permitted |-> FALSE, readable |-> FALSE]  \* both columns null

Init ==
    /\ row = NewRow
    /\ pc = [q \in Requests |-> "idle"]
    /\ seen = [q \in Requests |-> NewRow]
    /\ report = [c \in CheckIns |-> NoReport] /\ action = [a \in Admins |-> "on"]
    /\ alarm = "none" /\ notice = "on"
    /\ muddled = {}

Goto(q, stage) == pc' = [pc EXCEPT ![q] = stage]

\* The request is answered, or dies, and its session is closed.
Finish(q) ==
    /\ Goto(q, "idle")
    /\ seen' = [seen EXCEPT ![q] = NewRow]
    /\ report' = IF q \in CheckIns THEN [report EXCEPT ![q] = NoReport] ELSE report
    /\ action' = IF q \in Admins THEN [action EXCEPT ![q] = "on"] ELSE action

IsActive(r) == ~ r.off /\ ~ r.revoked

\* capture_status.
CaptureStatus(r) ==
    IF ~ r.reported THEN "unknown"
    ELSE IF r.permitted /\ r.readable THEN "ok" ELSE "blocked"

Pending(kind) ==
    \E q \in IF kind = "capture" THEN CheckIns ELSE Admins : pc[q] = "announce"
-----------------------------------------------------------------------------
(* The phone. *)

\* resolve_principal lets an active device in.
Authenticate(c, told) ==
    /\ pc[c] = "idle"
    /\ IsActive(row)
    /\ Goto(c, "record")
    /\ seen' = [seen EXCEPT ![c] = [row EXCEPT !.off = FALSE, !.revoked = FALSE]]
    /\ report' = [report EXCEPT ![c] = told]
    /\ UNCHANGED <<row, action, alarm, notice, muddled>>

\* The object in memory once the report is in it.
Reported(c) == [seen[c] EXCEPT !.reported = TRUE, !.permitted = report[c].permitted,
                               !.readable = report[c].readable]

\* Faulty: a permission that is back is not written.
WrittenLosses(c) ==
    [row EXCEPT !.reported = TRUE, !.permitted = @ /\ report[c].permitted,
                !.readable = report[c].readable]

\* record_capture: the UPDATE has the columns whose value changed, at first all.
Written(c) ==
    [row EXCEPT
        !.reported = TRUE,
        !.permitted = IF seen[c].reported /\ seen[c].permitted = report[c].permitted
                      THEN @ ELSE report[c].permitted,
        !.readable = IF seen[c].reported /\ seen[c].readable = report[c].readable
                     THEN @ ELSE report[c].readable]

Overtaken(c) ==
    \E column \in {"reported", "permitted", "readable"} : row[column] # seen[c][column]

\* record_capture and its commit; a change of status is announced next.
Record(c) ==
    /\ pc[c] = "record"
    /\ row' = Written(c)
    /\ IF CaptureStatus(Reported(c)) = CaptureStatus(seen[c]) THEN Finish(c)
       ELSE Goto(c, "announce") /\ UNCHANGED <<seen, report, action>>
    /\ muddled' = IF Overtaken(c) \/ Pending("capture") THEN muddled \cup {"capture"} ELSE muddled
    /\ UNCHANGED <<alarm, notice>>

\* Faulty: the status goes out in the place of the event.
AnnounceStatus(c) ==
    /\ pc[c] = "announce"
    /\ alarm' = CaptureStatus(Reported(c))
    /\ Finish(c)
    /\ UNCHANGED <<row, notice, muddled>>

\* _announce_capture; unknown to ok is "nothing worth logging".
Announce(c) ==
    /\ pc[c] = "announce"
    /\ alarm' = IF CaptureStatus(Reported(c)) = "blocked" THEN "blocked"
                ELSE IF CaptureStatus(seen[c]) = "blocked" THEN "restored" ELSE alarm
    /\ Finish(c)
    /\ UNCHANGED <<row, notice, muddled>>
-----------------------------------------------------------------------------
(* Administrators. *)

\* Faulty: a revoked device is found as well, as clear_messages does.
FindAny(a, asked) ==
    /\ pc[a] = "idle"
    /\ Goto(a, "apply")
    /\ seen' = [seen EXCEPT ![a] = [NewRow EXCEPT !.off = row.off, !.revoked = row.revoked]]
    /\ action' = [action EXCEPT ![a] = asked]
    /\ UNCHANGED <<row, report, alarm, notice, muddled>>

\* The device, unless it is revoked.
Find(a, asked) ==
    /\ pc[a] = "idle"
    /\ ~ row.revoked
    /\ Goto(a, "apply")
    /\ seen' = [seen EXCEPT ![a] = [NewRow EXCEPT !.off = row.off, !.revoked = row.revoked]]
    /\ action' = [action EXCEPT ![a] = asked]
    /\ UNCHANGED <<row, report, alarm, notice, muddled>>

\* The commit of an administrator: muddled if what it read is out of date, or the
\* event of an earlier commit is still to come.
Commit(a) ==
    /\ Goto(a, "announce")
    /\ seen' = [seen EXCEPT ![a] = NewRow]
    /\ muddled' = IF Pending("switch") \/ row.off # seen[a].off \/ row.revoked # seen[a].revoked
                  THEN muddled \cup {"switch"} ELSE muddled
    /\ UNCHANGED <<report, action, alarm, notice>>

\* Faulty: switching on undoes whatever made the device inactive.
SetEnabledAnyway(a) ==
    /\ pc[a] = "apply" /\ action[a] \in {"on", "off"}
    /\ row' = [row EXCEPT !.off = action[a] = "off", !.revoked = FALSE]
    /\ Commit(a)

\* set_disabled: a new disabled_at is always written, its removal only where one
\* was read.
SetEnabled(a) ==
    /\ pc[a] = "apply" /\ action[a] \in {"on", "off"}
    /\ row' = [row EXCEPT !.off = action[a] = "off" \/ (@ /\ ~ seen[a].off)]
    /\ Commit(a)

Revoke(a) ==
    /\ pc[a] = "apply" /\ action[a] = "revoke"
    /\ row' = [row EXCEPT !.revoked = TRUE]
    /\ Commit(a)

\* DEVICE_ENABLED, DEVICE_DISABLED or DEVICE_REVOKED.
AnnounceSwitch(a) ==
    /\ pc[a] = "announce"
    /\ notice' = action[a]
    /\ Finish(a)
    /\ UNCHANGED <<row, alarm, muddled>>

\* 403 for the phone, 404 for the administrator: nothing is touched.
Refuse == (~ IsActive(row) \/ row.revoked) /\ UNCHANGED vars

\* The process dies or the database fails: no commit, or no event.
Fail(q) ==
    /\ pc[q] \in {"record", "apply", "announce"}
    /\ Finish(q)
    /\ muddled' = IF pc[q] # "announce" THEN muddled
                  ELSE muddled \cup {IF q \in CheckIns THEN "capture" ELSE "switch"}
    /\ UNCHANGED <<row, alarm, notice>>

CheckIn(c) == Record(c) \/ Announce(c)
Administer(a) == SetEnabled(a) \/ Revoke(a) \/ AnnounceSwitch(a)

Next ==
    \/ \E c \in CheckIns : CheckIn(c) \/ \E told \in Reports : Authenticate(c, told)
    \/ \E a \in Admins : Administer(a) \/ \E asked \in Actions : Find(a, asked)
    \/ \E q \in Requests : Fail(q)
    \/ Refuse

Spec == Init /\ [][Next]_vars
-----------------------------------------------------------------------------
(* Properties. *)

Stages == {"idle", "record", "apply", "announce"}
RowType == [off : BOOLEAN, revoked : BOOLEAN, reported : BOOLEAN,
            permitted : BOOLEAN, readable : BOOLEAN]

\* Every variable has its type.
TypeOK ==
    /\ row \in RowType /\ seen \in [Requests -> RowType]
    /\ pc \in [Requests -> Stages]
    /\ report \in [CheckIns -> Reports] /\ action \in [Admins -> Actions]
    /\ alarm \in {"none", "blocked", "restored"} /\ notice \in Actions
    /\ muddled \subseteq {"capture", "switch"}

\* "The transition that matters" is announced (services.py, record_check_in): with
\* nothing left to announce, the last capture event is DEVICE_CAPTURE_BLOCKED exactly
\* if the device is blocked, whoever switches it off meanwhile, unless check-ins
\* raced or an event was lost or overtaken by a later change.
AlarmTellsStatus ==
    "capture" \notin muddled /\ ~ Pending("capture") =>
        (alarm = "blocked" <=> CaptureStatus(row) = "blocked")

\* With nothing left to announce, the last event about the switch says whether the
\* device may talk to the server, on the same conditions.
NoticeTellsSwitch ==
    "switch" \notin muddled /\ ~ Pending("switch") => (notice = "on" <=> IsActive(row))

\* A revoked device stays out: an "on" that was under way when the revocation
\* committed does not bring it back (models.py, Device.revoked_at: "permanent").
RevokedStaysOut == [][row.revoked => ~ IsActive(row')]_vars
=============================================================================
