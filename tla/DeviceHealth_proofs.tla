------------------------ MODULE DeviceHealth_proofs ------------------------
(***************************************************************************)
(* Proofs about DeviceHealth for any number of requests at once.  The      *)
(* invariant says what an event that is still to come stands for: the row  *)
(* as its request left it, against the events sent before.                 *)
(***************************************************************************)
EXTENDS DeviceHealth, TLAPS

\* Check-ins and administrators go through their own stages, and nothing is on its
\* way to a device that was revoked when it was found.
StageInv ==
    /\ \A c \in CheckIns : pc[c] \in {"idle", "record", "announce"}
    /\ \A a \in Admins : pc[a] \in {"idle", "apply", "announce"}
    /\ \A a \in Admins : pc[a] = "apply" => ~ seen[a].revoked

\* While no check-in was overtaken, one announcement at most is pending: the last
\* event tells of the row its request read, and the row is what it reported.
CaptureInv ==
    "capture" \notin muddled =>
        /\ AlarmTellsStatus
        /\ \A c \in CheckIns : pc[c] = "announce" =>
            /\ \A d \in CheckIns : pc[d] = "announce" => d = c
            /\ alarm = "blocked" <=> CaptureStatus(seen[c]) = "blocked"
            /\ CaptureStatus(row) = CaptureStatus(Reported(c))

\* The same of administrators: the one pending event is about the row as it is.
SwitchInv ==
    "switch" \notin muddled =>
        /\ NoticeTellsSwitch
        /\ \A a \in Admins : pc[a] = "announce" =>
            /\ \A b \in Admins : pc[b] = "announce" => b = a
            /\ action[a] = "on" <=> IsActive(row)

IInv == TypeOK /\ StageInv /\ CaptureInv /\ SwitchInv

USE DeviceAssumption DEF Requests, Actions, Stages

\* The blank records.
LEMMA Blanks == NewRow \in RowType /\ ~ NewRow.revoked /\ NoReport \in Reports
  BY DEF NewRow, RowType, NoReport, Reports

\* A new row is right about everything.
LEMMA InitStep == Init => IInv
  BY DEF Init, IInv, TypeOK, StageInv, CaptureInv, SwitchInv, AlarmTellsStatus,
         NoticeTellsSwitch, Pending, CaptureStatus, IsActive, NewRow, RowType, NoReport, Reports

\* A row with another switch is a row, and so is what an administrator keeps of one.
LEMMA RowUpdates ==
    ASSUME TypeOK, NEW off \in BOOLEAN, NEW revoked \in BOOLEAN
    PROVE  /\ [row EXCEPT !.off = off, !.revoked = revoked] \in RowType
           /\ [row EXCEPT !.off = off] \in RowType
           /\ [row EXCEPT !.revoked = revoked] \in RowType
           /\ [NewRow EXCEPT !.off = off, !.revoked = revoked] \in RowType
           /\ row.off \in BOOLEAN /\ row.revoked \in BOOLEAN
  BY DEF TypeOK, RowType, NewRow

\* What a check-in writes is a row again, with the switch and the revocation as found.
LEMMA WrittenRow ==
    ASSUME TypeOK, NEW c \in CheckIns
    PROVE  /\ Written(c) \in RowType
           /\ Written(c).off = row.off /\ Written(c).revoked = row.revoked
<1> DEFINE permitted == IF seen[c].reported /\ seen[c].permitted = report[c].permitted
                        THEN row.permitted ELSE report[c].permitted
           readable == IF seen[c].reported /\ seen[c].readable = report[c].readable
                       THEN row.readable ELSE report[c].readable
<1>1. row \in RowType /\ report[c].permitted \in BOOLEAN /\ report[c].readable \in BOOLEAN
  BY DEF TypeOK, Reports, Requests
<1>2. permitted \in BOOLEAN /\ readable \in BOOLEAN
  BY <1>1 DEF RowType
<1>3. Written(c) = [row EXCEPT !.reported = TRUE, !.permitted = permitted, !.readable = readable]
  BY DEF Written
<1> QED
  BY <1>1, <1>2, <1>3 DEF RowType

\* A check-in that is let in leaves the row and every announcement alone.
LEMMA AuthenticateStep ==
    ASSUME IInv, NEW c \in CheckIns, NEW told \in Reports, Authenticate(c, told) PROVE IInv'
<1> USE DEF Authenticate, Goto, Finish
<1>1. TypeOK'
  <2>1. row' \in RowType
    BY Blanks DEF IInv, TypeOK
  <2>2. pc' \in [Requests -> Stages] /\ muddled' \subseteq {"capture", "switch"}
    BY DEF IInv, TypeOK
  <2>3. seen' \in [Requests -> RowType]
    BY RowUpdates DEF IInv, TypeOK
  <2>4. report' \in [CheckIns -> Reports] /\ action' \in [Admins -> Actions]
    BY Blanks DEF IInv, TypeOK
  <2> QED
    BY <2>1, <2>2, <2>3, <2>4 DEF IInv, TypeOK
<1>2. StageInv'
  BY DEF IInv, TypeOK, StageInv
<1>3. CaptureInv'
  BY DEF IInv, TypeOK, StageInv, CaptureInv, AlarmTellsStatus, Pending, CaptureStatus,
         Reported, Overtaken, Written
<1>4. SwitchInv'
  BY DEF IInv, TypeOK, StageInv, SwitchInv, NoticeTellsSwitch, Pending, IsActive, Written
<1> QED
  BY <1>1, <1>2, <1>3, <1>4 DEF IInv

\* What a check-in writes is what it will announce, unless it was overtaken.
LEMMA RecordStep ==
    ASSUME IInv, NEW c \in CheckIns, Record(c) PROVE IInv'
<1> DEFINE same == CaptureStatus(Reported(c)) = CaptureStatus(seen[c])
           clean == ~ Overtaken(c) /\ ~ Pending("capture")
<1>1. /\ pc[c] = "record" /\ row' = Written(c) /\ UNCHANGED <<alarm, notice>>
      /\ \/ same /\ Finish(c)
         \/ ~ same /\ Goto(c, "announce") /\ UNCHANGED <<seen, report, action>>
      /\ \/ clean /\ muddled' = muddled
         \/ ~ clean /\ muddled' = muddled \cup {"capture"}
  BY DEF Record
<1> USE DEF Goto, Finish
<1>2. TypeOK'
  <2>1. row' \in RowType
    BY <1>1, WrittenRow DEF IInv
  <2>2. pc' \in [Requests -> Stages]
    BY <1>1, Blanks DEF IInv, TypeOK
  <2>3. seen' \in [Requests -> RowType]
    BY <1>1, Blanks DEF IInv, TypeOK
  <2>4. report' \in [CheckIns -> Reports] /\ action' \in [Admins -> Actions]
    BY <1>1, Blanks DEF IInv, TypeOK
  <2>5. muddled' \subseteq {"capture", "switch"}
    BY <1>1, Blanks DEF IInv, TypeOK
  <2> QED
    BY <1>1, <2>1, <2>2, <2>3, <2>4, <2>5 DEF IInv, TypeOK
<1>3. StageInv'
  BY <1>1 DEF IInv, TypeOK, StageInv
<1>4. CaptureInv'
  <2> SUFFICES ASSUME "capture" \notin muddled' PROVE CaptureInv'
    BY DEF CaptureInv
  <2>1. /\ ~ Pending("capture") /\ muddled' = muddled
        /\ row.reported = seen[c].reported /\ row.permitted = seen[c].permitted
        /\ row.readable = seen[c].readable
    BY <1>1 DEF Overtaken
  <2>2. CaptureStatus(row) = CaptureStatus(seen[c])
    BY <2>1 DEF CaptureStatus
  <2>3. alarm = "blocked" <=> CaptureStatus(seen[c]) = "blocked"
    BY <2>1, <2>2 DEF IInv, CaptureInv, AlarmTellsStatus
  <2>4. CaptureStatus(row') = CaptureStatus(Reported(c))
    BY <1>1, <2>1 DEF CaptureStatus, Written, Reported, IInv, TypeOK
  <2>5. \A d \in CheckIns : pc[d] # "announce"
    BY <2>1 DEF Pending
  <2>6. CASE same /\ Finish(c)
    BY <2>1, <2>3, <2>4, <2>5, <2>6, <1>1 DEF IInv, TypeOK, CaptureInv, AlarmTellsStatus
  <2>7. CASE ~ same /\ Goto(c, "announce") /\ UNCHANGED <<seen, report, action>>
    <3>1. Pending("capture")' /\ \A d \in CheckIns : pc'[d] = "announce" => d = c
      BY <2>5, <2>7, <1>1 DEF IInv, TypeOK, Pending
    <3>2. Reported(c)' = Reported(c) /\ seen'[c] = seen[c] /\ alarm' = alarm
      BY <2>7, <1>1 DEF Reported
    <3> QED
      BY <2>3, <2>4, <3>1, <3>2 DEF CaptureInv, AlarmTellsStatus, CaptureStatus
  <2> QED
    BY <1>1, <2>6, <2>7
<1>5. SwitchInv'
  BY <1>1, WrittenRow DEF IInv, TypeOK, StageInv, SwitchInv, NoticeTellsSwitch, Pending, IsActive
<1> QED
  BY <1>2, <1>3, <1>4, <1>5 DEF IInv

\* The announcement settles the last event.
LEMMA AnnounceStep ==
    ASSUME IInv, NEW c \in CheckIns, Announce(c) PROVE IInv'
<1> USE DEF Announce, Goto, Finish
<1>1. TypeOK'
  <2>1. row' \in RowType
    BY Blanks DEF IInv, TypeOK
  <2>2. pc' \in [Requests -> Stages] /\ muddled' \subseteq {"capture", "switch"}
    BY DEF IInv, TypeOK
  <2>3. seen' \in [Requests -> RowType]
    BY Blanks DEF IInv, TypeOK
  <2>4. report' \in [CheckIns -> Reports] /\ action' \in [Admins -> Actions]
    BY Blanks DEF IInv, TypeOK
  <2> QED
    BY <2>1, <2>2, <2>3, <2>4 DEF IInv, TypeOK
<1>2. StageInv'
  BY DEF IInv, TypeOK, StageInv
<1>3. CaptureInv'
  BY DEF IInv, TypeOK, StageInv, CaptureInv, AlarmTellsStatus, Pending, CaptureStatus,
         Reported, Overtaken, Written
<1>4. SwitchInv'
  BY DEF IInv, TypeOK, StageInv, SwitchInv, NoticeTellsSwitch, Pending, IsActive, Written
<1> QED
  BY <1>1, <1>2, <1>3, <1>4 DEF IInv

\* An administrator that finds the device has seen it unrevoked.
LEMMA FindStep ==
    ASSUME IInv, NEW a \in Admins, NEW asked \in Actions, Find(a, asked) PROVE IInv'
<1> USE DEF Find, Goto, Finish
<1>1. TypeOK'
  <2>1. row' \in RowType
    BY Blanks DEF IInv, TypeOK
  <2>2. pc' \in [Requests -> Stages] /\ muddled' \subseteq {"capture", "switch"}
    BY DEF IInv, TypeOK
  <2>3. seen' \in [Requests -> RowType]
    BY RowUpdates DEF IInv, TypeOK
  <2>4. report' \in [CheckIns -> Reports] /\ action' \in [Admins -> Actions]
    BY Blanks DEF IInv, TypeOK
  <2> QED
    BY <2>1, <2>2, <2>3, <2>4 DEF IInv, TypeOK
<1>2. StageInv'
  BY DEF IInv, TypeOK, StageInv
<1>3. CaptureInv'
  BY DEF IInv, TypeOK, StageInv, CaptureInv, AlarmTellsStatus, Pending, CaptureStatus,
         Reported, Overtaken, Written
<1>4. SwitchInv'
  BY DEF IInv, TypeOK, StageInv, SwitchInv, NoticeTellsSwitch, Pending, IsActive, Written
<1> QED
  BY <1>1, <1>2, <1>3, <1>4 DEF IInv

\* Switching on or off writes what it will announce, unless it was overtaken.
LEMMA SetEnabledStep ==
    ASSUME IInv, NEW a \in Admins, SetEnabled(a) PROVE IInv'
<1> USE DEF SetEnabled, Commit, Goto, Finish
<1>1. TypeOK'
  <2>1. row' \in RowType
    <3> DEFINE off == action[a] = "off" \/ (row.off /\ ~ seen[a].off)
    <3>1. off \in BOOLEAN /\ row' = [row EXCEPT !.off = off]
      OBVIOUS
    <3> QED
      BY <3>1, RowUpdates DEF IInv
  <2>2. pc' \in [Requests -> Stages] /\ muddled' \subseteq {"capture", "switch"}
    BY DEF IInv, TypeOK
  <2>3. seen' \in [Requests -> RowType]
    BY Blanks DEF IInv, TypeOK
  <2>4. report' \in [CheckIns -> Reports] /\ action' \in [Admins -> Actions]
    BY Blanks DEF IInv, TypeOK
  <2> QED
    BY <2>1, <2>2, <2>3, <2>4 DEF IInv, TypeOK
<1>2. StageInv'
  BY DEF IInv, TypeOK, StageInv
<1>3. CaptureInv'
  BY DEF IInv, TypeOK, StageInv, CaptureInv, AlarmTellsStatus, Pending, CaptureStatus,
         Reported, Overtaken, Written
<1>4. SwitchInv'
  <2> SUFFICES ASSUME "switch" \notin muddled' PROVE SwitchInv'
    BY DEF SwitchInv
  <2>1. /\ \A b \in Admins : pc[b] # "announce"
        /\ row.off = seen[a].off /\ row.revoked = seen[a].revoked
    BY DEF Pending
  <2>2. ~ row'.revoked /\ (row'.off <=> action[a] = "off")
    BY <2>1 DEF IInv, TypeOK, StageInv, RowType
  <2>3. pc'[a] = "announce" /\ \A b \in Admins \ {a} : pc'[b] = pc[b]
    BY DEF IInv, TypeOK
  <2> QED
    BY <2>1, <2>2, <2>3 DEF SwitchInv, NoticeTellsSwitch, Pending, IsActive
<1> QED
  BY <1>1, <1>2, <1>3, <1>4 DEF IInv

\* A revocation leaves the device inactive.
LEMMA RevokeStep ==
    ASSUME IInv, NEW a \in Admins, Revoke(a) PROVE IInv'
<1> USE DEF Revoke, Commit, Goto, Finish
<1>1. TypeOK'
  <2>1. row' \in RowType
    BY RowUpdates DEF IInv, TypeOK
  <2>2. pc' \in [Requests -> Stages] /\ muddled' \subseteq {"capture", "switch"}
    BY DEF IInv, TypeOK
  <2>3. seen' \in [Requests -> RowType]
    BY Blanks DEF IInv, TypeOK
  <2>4. report' \in [CheckIns -> Reports] /\ action' \in [Admins -> Actions]
    BY Blanks DEF IInv, TypeOK
  <2> QED
    BY <2>1, <2>2, <2>3, <2>4 DEF IInv, TypeOK
<1>2. StageInv'
  BY DEF IInv, TypeOK, StageInv
<1>3. CaptureInv'
  BY DEF IInv, TypeOK, StageInv, CaptureInv, AlarmTellsStatus, Pending, CaptureStatus,
         Reported, Overtaken, Written
<1>4. SwitchInv'
  BY DEF IInv, TypeOK, StageInv, SwitchInv, NoticeTellsSwitch, Pending, IsActive, Written
<1> QED
  BY <1>1, <1>2, <1>3, <1>4 DEF IInv

\* The event settles the last notice.
LEMMA AnnounceSwitchStep ==
    ASSUME IInv, NEW a \in Admins, AnnounceSwitch(a) PROVE IInv'
<1> USE DEF AnnounceSwitch, Goto, Finish
<1>1. TypeOK'
  <2>1. row' \in RowType
    BY Blanks DEF IInv, TypeOK
  <2>2. pc' \in [Requests -> Stages] /\ muddled' \subseteq {"capture", "switch"}
    BY DEF IInv, TypeOK
  <2>3. seen' \in [Requests -> RowType]
    BY Blanks DEF IInv, TypeOK
  <2>4. report' \in [CheckIns -> Reports] /\ action' \in [Admins -> Actions]
    BY Blanks DEF IInv, TypeOK
  <2> QED
    BY <2>1, <2>2, <2>3, <2>4 DEF IInv, TypeOK
<1>2. StageInv'
  BY DEF IInv, TypeOK, StageInv
<1>3. CaptureInv'
  BY DEF IInv, TypeOK, StageInv, CaptureInv, AlarmTellsStatus, Pending, CaptureStatus,
         Reported, Overtaken, Written
<1>4. SwitchInv'
  BY DEF IInv, TypeOK, StageInv, SwitchInv, NoticeTellsSwitch, Pending, IsActive, Written
<1> QED
  BY <1>1, <1>2, <1>3, <1>4 DEF IInv

\* A request that dies after its commit muddles its kind of event.
LEMMA FailStep ==
    ASSUME IInv, NEW q \in Requests, Fail(q) PROVE IInv'
<1> USE DEF Fail, Goto, Finish
<1>1. TypeOK'
  <2>1. row' \in RowType
    BY Blanks DEF IInv, TypeOK
  <2>2. pc' \in [Requests -> Stages] /\ muddled' \subseteq {"capture", "switch"}
    BY DEF IInv, TypeOK
  <2>3. seen' \in [Requests -> RowType]
    BY Blanks DEF IInv, TypeOK
  <2>4. report' \in [CheckIns -> Reports] /\ action' \in [Admins -> Actions]
    BY Blanks DEF IInv, TypeOK
  <2> QED
    BY <2>1, <2>2, <2>3, <2>4 DEF IInv, TypeOK
<1>2. StageInv'
  BY DEF IInv, TypeOK, StageInv
<1>3. CaptureInv'
  BY DEF IInv, TypeOK, StageInv, CaptureInv, AlarmTellsStatus, Pending, CaptureStatus,
         Reported, Overtaken, Written
<1>4. SwitchInv'
  BY DEF IInv, TypeOK, StageInv, SwitchInv, NoticeTellsSwitch, Pending, IsActive, Written
<1> QED
  BY <1>1, <1>2, <1>3, <1>4 DEF IInv

\* Every step preserves the invariant.
LEMMA InvariantStep == IInv /\ [Next]_vars => IInv'
<1> SUFFICES ASSUME IInv, [Next]_vars PROVE IInv'
  OBVIOUS
<1>1. CASE UNCHANGED vars
  BY <1>1 DEF vars, IInv, TypeOK, StageInv, CaptureInv, SwitchInv, AlarmTellsStatus,
              NoticeTellsSwitch, Pending, CaptureStatus, Reported, IsActive
<1>2. CASE Next
  BY <1>1, <1>2, AuthenticateStep, RecordStep, AnnounceStep, FindStep, SetEnabledStep,
     RevokeStep, AnnounceSwitchStep, FailStep DEF Next, CheckIn, Administer, Refuse
<1> QED
  BY <1>1, <1>2

\* The invariant holds in every reachable state.
THEOREM Invariant == Spec => []IInv
  BY InitStep, InvariantStep, PTL DEF Spec

\* Every variable of the device row and its requests keeps its type.
THEOREM TypeCorrect == Spec => []TypeOK
<1>1. IInv => TypeOK
  BY DEF IInv
<1> QED
  BY <1>1, Invariant, PTL

\* However many check-ins and administrators there are, the last capture event tells
\* whether the device is blocked, unless an event was lost or overtaken.
THEOREM AlarmAlwaysTellsStatus == Spec => []AlarmTellsStatus
<1>1. IInv => AlarmTellsStatus
  BY DEF IInv, CaptureInv, AlarmTellsStatus
<1> QED
  BY <1>1, Invariant, PTL

\* The last event about the switch tells whether the device is active, unless an
\* event was lost or overtaken.
THEOREM NoticeAlwaysTellsSwitch == Spec => []NoticeTellsSwitch
<1>1. IInv => NoticeTellsSwitch
  BY DEF IInv, SwitchInv, NoticeTellsSwitch
<1> QED
  BY <1>1, Invariant, PTL

\* No request ever brings a revoked device back.
THEOREM RevokedIsPermanent == Spec => RevokedStaysOut
<1>1. TypeOK /\ [Next]_vars => [row.revoked => ~ IsActive(row')]_vars
  <2> SUFFICES ASSUME TypeOK, Next, row.revoked PROVE row'.revoked
    BY DEF IsActive
  <2>1. CASE \E c \in CheckIns : Record(c)
    BY <2>1, WrittenRow DEF Record
  <2>2. CASE \E a \in Admins : SetEnabled(a) \/ Revoke(a)
    BY <2>2 DEF TypeOK, RowType, SetEnabled, Revoke
  <2>3. CASE row' = row
    BY <2>3
  <2> QED
    BY <2>1, <2>2, <2>3 DEF vars, Next, CheckIn, Administer, Authenticate, Announce, Find,
       AnnounceSwitch, Refuse, Fail
<1> QED
  BY <1>1, TypeCorrect, PTL DEF Spec, RevokedStaysOut
=============================================================================
