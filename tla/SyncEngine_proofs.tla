-------------------------- MODULE SyncEngine_proofs --------------------------
(***************************************************************************)
(* Theorems about SyncEngine, for every set of messages and passes and     *)
(* every value of the bounds.                                              *)
(***************************************************************************)
EXTENDS SyncEngine, TLAPS

-----------------------------------------------------------------------------
(* The statements of MessageStore keep a table a table. *)

LEMMA SetStatusType ==
    ASSUME NEW table \in Tables, NEW ids, NEW status \in SyncStatus
    PROVE  SetStatus(table, ids, status) \in Tables
BY DEF SetStatus, Tables

LEMMA InsertType ==
    ASSUME NEW table \in Tables, NEW m \in Messages
    PROVE  Insert(table, m) \in Tables
BY DEF Insert, Tables, SyncStatus

LEMMA DeleteType ==
    ASSUME NEW table \in Tables, NEW expired
    PROVE  DeleteSyncedBefore(table, expired) \in Tables
BY DEF DeleteSyncedBefore, Tables, NoRow

LEMMA StatementTypes ==
    ASSUME NEW table \in Tables, NEW ids, NEW at, NEW from, NEW to
    PROVE  /\ MarkUploading(table, ids) \in Tables
           /\ MarkSynced(table, ids) \in Tables
           /\ MarkFailed(table, ids) \in Tables
           /\ Quarantine(table, ids) \in Tables
           /\ RequeueStranded(table) \in Tables
           /\ ExcludeReceivedBetween(table, at, from, to) \in Tables
BY SetStatusType DEF MarkUploading, MarkSynced, MarkFailed, Quarantine, RequeueStranded,
                     ExcludeReceivedBetween, SyncStatus

LEMMA BatchIsQueued ==
    ASSUME NEW table, NEW at, NEW n, NEW ids \in PendingBatches(table, at, n)
    PROVE  ids \subseteq Queued(table) /\ ids \subseteq Messages
BY DEF PendingBatches, Queued

-----------------------------------------------------------------------------
(* Types. *)

LEMMA FreshSettingsType == FreshSettings \in Settings
BY ConstantsAssumption DEF FreshSettings, Settings, Times

\* The locals of a pass, as TypeOK states them.
PassTypes ==
    /\ pc \in [Passes -> Stages]
    /\ config \in [Passes -> Settings]
    /\ token \in [Passes -> 0..MaxCodes]
    /\ batch \in [Passes -> SUBSET Messages]
    /\ limit \in [Passes -> {1, BatchSize}]
    /\ reply \in [Passes -> Replies]

LEMMA ReturnType ==
    ASSUME TypeOK, NEW p \in Passes, Return(p)
    PROVE  PassTypes'
BY FreshSettingsType, ConstantsAssumption
   DEF TypeOK, Return, Goto, PassTypes, Stages, Replies

LEMMA InitType == Init => TypeOK
BY FreshSettingsType, ConstantsAssumption
   DEF Init, TypeOK, Tables, NoRow, Times, Stages, Replies, EnrolmentStates, Codes

LEMMA EnvironmentType ==
    ASSUME TypeOK
    PROVE  /\ \A m \in Messages, at \in 1..MaxClock, caught \in BOOLEAN :
                  Arrive(m, at, caught) => TypeOK'
           /\ UserStep => TypeOK'
           /\ Administer => TypeOK'
           /\ LateIngest => TypeOK'
<1>1. ASSUME NEW m \in Messages, NEW at \in 1..MaxClock, NEW caught \in BOOLEAN,
             Arrive(m, at, caught)
      PROVE  TypeOK'
  <2>1. rows' \in Tables
    BY <1>1, InsertType DEF Arrive, TypeOK
  <2>2. received' \in [Messages -> Times]
    BY <1>1, ConstantsAssumption DEF Arrive, TypeOK, Times
  <2> QED
    BY <1>1, <2>1, <2>2 DEF Arrive, TypeOK, passVars, serverVars
<1>2. UserStep => TypeOK'
  <2>1. ASSUME NEW url \in Urls, NEW key \in 0..MaxCodes, SaveConnection(url, key)
        PROVE  TypeOK'
    <3>1. settings' \in Settings
      BY <2>1 DEF SaveConnection, TypeOK, Settings
    <3>2. enrolment' \in [Codes -> EnrolmentStates]
      BY <2>1 DEF SaveConnection, TypeOK, EnrolmentStates
    <3> QED
      BY <2>1, <3>1, <3>2 DEF SaveConnection, TypeOK, passVars
  <2>2. ASSUME PauseSync PROVE TypeOK'
    <3>1. clock' \in 1..MaxClock /\ clock' \in Times
      BY <2>2, ConstantsAssumption DEF PauseSync, TypeOK, Times
    <3>2. settings' \in Settings
      BY <2>2, <3>1 DEF PauseSync, TypeOK, Settings
    <3> QED
      BY <2>2, <3>1, <3>2 DEF PauseSync, TypeOK, passVars, serverVars
  <2>3. ASSUME ResumeSync PROVE TypeOK'
    <3>1. clock \in Times /\ 0 \in Times /\ clock' \in 1..MaxClock
      BY <2>3, ConstantsAssumption DEF ResumeSync, TypeOK, Times
    <3>2. settings' \in Settings
      BY <2>3, <3>1 DEF ResumeSync, TypeOK, Settings
    <3>3. promised' \subseteq Messages
      BY <2>3 DEF ResumeSync, TypeOK, PausedSession
    <3> QED
      BY <2>3, <3>1, <3>2, <3>3 DEF ResumeSync, TypeOK, passVars, serverVars
  <2>4. ASSUME NEW on \in BOOLEAN, SetExcludePausedMessages(on) PROVE TypeOK'
    BY <2>4 DEF SetExcludePausedMessages, TypeOK, Settings, passVars, serverVars
  <2>5. ForgetDevice => TypeOK'
    BY ConstantsAssumption DEF ForgetDevice, TypeOK, passVars, serverVars
  <2> QED
    BY <2>1, <2>2, <2>3, <2>4, <2>5 DEF UserStep
<1>3. Administer => TypeOK'
  BY DEF Administer, SetEnrolment, ServerReset, TypeOK, EnrolmentStates, phoneVars, passVars
<1>4. LateIngest => TypeOK'
  BY DEF LateIngest, TypeOK, phoneVars, passVars
<1> QED
  BY <1>1, <1>2, <1>3, <1>4

\* From the start of a pass to its registration.
LEMMA OpeningType ==
    ASSUME TypeOK, NEW p \in Passes
    PROVE  /\ StartPass(p) => TypeOK'
           /\ \A m \in Messages : SweepStores(p, m) => TypeOK'
           /\ SweepEnds(p) => TypeOK'
           /\ Requeue(p) => TypeOK'
           /\ ApplyWindow(p) => TypeOK'
           /\ ClearExclusionWindow(p) => TypeOK'
<1>1. StartPass(p) => TypeOK'
  BY DEF StartPass, Goto, TypeOK, Stages, phoneVars, serverVars
<1>2. ASSUME NEW m \in Messages, SweepStores(p, m) PROVE TypeOK'
  BY <1>2, InsertType DEF SweepStores, TypeOK, passVars, serverVars
<1>3. SweepEnds(p) => TypeOK'
  BY DEF SweepEnds, Goto, TypeOK, Stages, phoneVars, serverVars
<1>4. ASSUME Requeue(p) PROVE TypeOK'
  <2>1. rows' \in Tables
    BY <1>4, StatementTypes DEF Requeue, TypeOK
  <2> QED
    BY <1>4, <2>1 DEF Requeue, Goto, TypeOK, Stages, serverVars
<1>5. ASSUME ApplyWindow(p) PROVE TypeOK'
  <2>1. rows' \in Tables
    BY <1>5, StatementTypes DEF ApplyWindow, TypeOK
  <2> QED
    BY <1>5, <2>1 DEF ApplyWindow, Goto, TypeOK, Stages, serverVars
<1>6. ASSUME ClearExclusionWindow(p) PROVE TypeOK'
  <2>1. settings' \in Settings
    <3>1. 0 \in Times
      BY ConstantsAssumption DEF Times
    <3> QED
      BY <1>6, <3>1 DEF ClearExclusionWindow, TypeOK, Settings
  <2> QED
    BY <1>6, <2>1 DEF ClearExclusionWindow, Goto, TypeOK, Stages, serverVars
<1> QED
  BY <1>1, <1>2, <1>3, <1>4, <1>5, <1>6

LEMMA RegistrationType ==
    ASSUME TypeOK, NEW p \in Passes
    PROVE  /\ AlreadyRegistered(p) => TypeOK'
           /\ NoSetupKey(p) => TypeOK'
           /\ AskToRegister(p) => TypeOK'
           /\ ServerRegisters(p) => TypeOK'
           /\ ServerRefusesRegistration(p) => TypeOK'
           /\ StoreDevice(p) => TypeOK'
           /\ ClearEnrolmentCode(p) => TypeOK'
           /\ RegistrationFails(p) => TypeOK'
<1>1. AlreadyRegistered(p) => TypeOK'
  BY DEF AlreadyRegistered, Goto, TypeOK, Stages, phoneVars, serverVars
<1>2. NoSetupKey(p) => TypeOK'
  BY ReturnType DEF NoSetupKey, TypeOK, PassTypes, phoneVars, serverVars
<1>3. AskToRegister(p) => TypeOK'
  BY DEF AskToRegister, Answer, Goto, TypeOK, Stages, Replies, phoneVars, serverVars
<1>4. ASSUME ServerRegisters(p) PROVE TypeOK'
  <2>1. enrolment' \in [Codes -> EnrolmentStates]
    BY <1>4 DEF ServerRegisters, TypeOK, EnrolmentStates
  <2>2. reply' \in [Passes -> Replies]
    BY <1>4 DEF ServerRegisters, Answer, TypeOK, Replies
  <2> QED
    BY <1>4, <2>1, <2>2 DEF ServerRegisters, TypeOK, phoneVars
<1>5. ServerRefusesRegistration(p) => TypeOK'
  BY DEF ServerRefusesRegistration, Answer, TypeOK, Replies, phoneVars, serverVars
<1>6. ASSUME StoreDevice(p) PROVE TypeOK'
  <2>1. config[p].key \in 0..MaxCodes
    BY DEF TypeOK, Settings
  <2> QED
    BY <1>6, <2>1 DEF StoreDevice, Goto, Answer, TypeOK, Stages, Replies, serverVars
<1>7. ASSUME ClearEnrolmentCode(p) PROVE TypeOK'
  <2>1. settings' \in Settings
    <3>1. settings' = [settings EXCEPT !.key = 0]
      BY <1>7 DEF ClearEnrolmentCode
    <3>2. settings \in Settings /\ 0 \in 0..MaxCodes
      BY ConstantsAssumption DEF TypeOK
    <3> QED
      BY <3>1, <3>2 DEF Settings
  <2> QED
    BY <1>7, <2>1 DEF ClearEnrolmentCode, Goto, TypeOK, Stages, serverVars
<1>8. RegistrationFails(p) => TypeOK'
  BY ReturnType DEF RegistrationFails, TypeOK, PassTypes, phoneVars, serverVars
<1> QED
  BY <1>1, <1>2, <1>3, <1>4, <1>5, <1>6, <1>7, <1>8

LEMMA ServerType ==
    ASSUME TypeOK, NEW p \in Passes
    PROVE  /\ ServerStores(p) => TypeOK'
           /\ ServerRefusesUpload(p) => TypeOK'
           /\ LoseCall(p) => TypeOK'
           /\ StopPass(p) => TypeOK'
<1>1. batch[p] \subseteq Messages /\ Abandoned(p) \subseteq Messages
  BY DEF TypeOK, Abandoned
<1>2. ServerStores(p) => TypeOK'
  BY <1>1, ConstantsAssumption DEF ServerStores, Answer, TypeOK, Replies, phoneVars
<1>3. ServerRefusesUpload(p) => TypeOK'
  BY DEF ServerRefusesUpload, Answer, TypeOK, Replies, phoneVars, serverVars
<1>4. LoseCall(p) => TypeOK'
  BY <1>1 DEF LoseCall, Answer, TypeOK, Replies, phoneVars
<1>5. StopPass(p) => TypeOK'
  BY <1>1, ReturnType DEF StopPass, TypeOK, PassTypes, phoneVars
<1> QED
  BY <1>2, <1>3, <1>4, <1>5

LEMMA UploadType ==
    ASSUME TypeOK, NEW p \in Passes
    PROVE  /\ Select(p) => TypeOK'
           /\ Upload(p) => TypeOK'
           /\ TakeStored(p) => TypeOK'
           /\ TakeVerdicts(p) => TypeOK'
           /\ \A m \in Messages : QuarantineRefused(p, m) => TypeOK'
           /\ Isolate(p) => TypeOK'
           /\ QuarantineIsolated(p) => TypeOK'
           /\ UploadFails(p) => TypeOK'
           /\ UploadUnauthorized(p) => TypeOK'
           /\ DropDevice(p) => TypeOK'
<1>1. Select(p) => TypeOK'
  BY BatchIsQueued DEF Select, Goto, TypeOK, Stages, phoneVars, serverVars
<1>2. ASSUME Upload(p) PROVE TypeOK'
  <2>1. rows' \in Tables
    BY <1>2, StatementTypes DEF Upload, TypeOK
  <2> QED
    BY <1>2, <2>1 DEF Upload, Answer, Goto, TypeOK, Stages, Replies, serverVars
<1>3. ASSUME TakeStored(p) PROVE TypeOK'
  <2>1. rows' \in Tables
    BY <1>3, StatementTypes DEF TakeStored, TypeOK
  <2>2. /\ pc' \in [Passes -> Stages]
        /\ batch' \in [Passes -> SUBSET Messages]
        /\ reply' \in [Passes -> Replies]
    BY <1>3 DEF TakeStored, NextBatch, Answer, Goto, TypeOK, Stages, Replies
  <2> QED
    BY <1>3, <2>1, <2>2 DEF TakeStored, TypeOK, serverVars
<1>4. ASSUME TakeVerdicts(p) PROVE TypeOK'
  <2>1. rows' \in Tables
    BY <1>4, StatementTypes DEF TakeVerdicts, TypeOK
  <2>2. /\ pc' \in [Passes -> Stages]
        /\ batch' \in [Passes -> SUBSET Messages]
        /\ reply' \in [Passes -> Replies]
    BY <1>4 DEF TakeVerdicts, Answer, Goto, TypeOK, Stages, Replies
  <2> QED
    BY <1>4, <2>1, <2>2 DEF TakeVerdicts, TypeOK, serverVars
<1>5. ASSUME NEW m \in Messages, QuarantineRefused(p, m) PROVE TypeOK'
  <2>1. rows' \in Tables
    BY <1>5, StatementTypes DEF QuarantineRefused, TypeOK
  <2> QED
    BY <1>5, <2>1 DEF QuarantineRefused, Goto, TypeOK, Stages, serverVars
<1>6. ASSUME Isolate(p) PROVE TypeOK'
  <2>1. rows' \in Tables
    BY <1>6, StatementTypes DEF Isolate, TypeOK
  <2>2. limit' \in [Passes -> {1, BatchSize}]
    BY <1>6 DEF Isolate, TypeOK
  <2>3. /\ pc' \in [Passes -> Stages]
        /\ batch' \in [Passes -> SUBSET Messages]
        /\ reply' \in [Passes -> Replies]
    BY <1>6 DEF Isolate, NextBatch, Answer, Goto, TypeOK, Stages, Replies
  <2> QED
    BY <1>6, <2>1, <2>2, <2>3 DEF Isolate, TypeOK, serverVars
<1>7. ASSUME QuarantineIsolated(p) PROVE TypeOK'
  <2>1. rows' \in Tables
    BY <1>7, StatementTypes DEF QuarantineIsolated, TypeOK
  <2>2. limit' \in [Passes -> {1, BatchSize}]
    BY <1>7 DEF QuarantineIsolated, TypeOK
  <2>3. /\ pc' \in [Passes -> Stages]
        /\ batch' \in [Passes -> SUBSET Messages]
        /\ reply' \in [Passes -> Replies]
    BY <1>7 DEF QuarantineIsolated, NextBatch, Answer, Goto, TypeOK, Stages, Replies
  <2> QED
    BY <1>7, <2>1, <2>2, <2>3 DEF QuarantineIsolated, TypeOK, serverVars
<1>8. ASSUME UploadFails(p) PROVE TypeOK'
  <2>1. rows' \in Tables
    BY <1>8, StatementTypes DEF UploadFails, TypeOK
  <2> QED
    BY <1>8, <2>1, ReturnType DEF UploadFails, TypeOK, PassTypes, serverVars
<1>9. ASSUME UploadUnauthorized(p) PROVE TypeOK'
  <2>1. rows' \in Tables
    BY <1>9, StatementTypes DEF UploadUnauthorized, TypeOK
  <2>2. /\ pc' \in [Passes -> Stages]
        /\ batch' \in [Passes -> SUBSET Messages]
        /\ reply' \in [Passes -> Replies]
    BY <1>9 DEF UploadUnauthorized, Answer, Goto, TypeOK, Stages, Replies
  <2> QED
    BY <1>9, <2>1, <2>2 DEF UploadUnauthorized, TypeOK, serverVars
<1>10. DropDevice(p) => TypeOK'
  BY ReturnType, ConstantsAssumption DEF DropDevice, TypeOK, PassTypes, serverVars
<1> QED
  BY <1>1, <1>2, <1>3, <1>4, <1>5, <1>6, <1>7, <1>8, <1>9, <1>10

LEMMA ClosingType ==
    ASSUME TypeOK, NEW p \in Passes
    PROVE  /\ Prune(p) => TypeOK'
           /\ CheckIn(p) => TypeOK'
           /\ CheckInEnds(p) => TypeOK'
<1>1. Prune(p) => TypeOK'
  BY DeleteType DEF Prune, Goto, TypeOK, Stages, serverVars
<1>2. CheckIn(p) => TypeOK'
  BY DEF CheckIn, Goto, TypeOK, Stages, phoneVars, serverVars
<1>3. CheckInEnds(p) => TypeOK'
  BY ReturnType DEF CheckInEnds, TypeOK, PassTypes, phoneVars, serverVars
<1> QED
  BY <1>1, <1>2, <1>3

LEMMA NextType == TypeOK /\ [Next]_vars => TypeOK'
<1> SUFFICES ASSUME TypeOK, [Next]_vars PROVE TypeOK'
  OBVIOUS
<1>1. CASE UNCHANGED vars
  BY <1>1 DEF vars, TypeOK
<1>2. ASSUME NEW m \in Messages, NEW at \in 1..MaxClock, NEW caught \in BOOLEAN,
             Arrive(m, at, caught)
      PROVE  TypeOK'
  BY <1>2, EnvironmentType
<1>3. CASE UserStep \/ Administer \/ LateIngest
  BY <1>3, EnvironmentType
<1>4. ASSUME NEW p \in Passes, PassStep(p) PROVE TypeOK'
  BY <1>4, OpeningType, RegistrationType, UploadType, ClosingType DEF PassStep
<1>5. ASSUME NEW p \in Passes, ServerStep(p) \/ LoseCall(p) \/ StopPass(p) PROVE TypeOK'
  BY <1>5, RegistrationType, ServerType DEF ServerStep
<1>6. ASSUME NEW p \in Passes,
             StartPass(p) \/ \E m \in Messages : SweepStores(p, m)
      PROVE  TypeOK'
  BY <1>6, OpeningType
<1> QED
  BY <1>1, <1>2, <1>3, <1>4, <1>5, <1>6 DEF Next

\* The tables, settings, pass locals and server state keep their types in every
\* behaviour of the two chains.
THEOREM TypeCorrect == Spec => []TypeOK
BY InitType, NextType, PTL DEF Spec

-----------------------------------------------------------------------------
(* AckedIsStored.  It is not inductive: that markSynced only marks what the *)
(* server committed needs that a positive answer, while it waits to be      *)
(* handled, vouches for the batch it answers.                               *)

Delivered == {"SYNCED", "PRUNED"}

Vouched(p) ==
    pc[p] = "uploading" =>
        /\ reply[p] = "stored" => batch[p] \subseteq committed
        /\ reply[p] = "verdicts" => batch[p] \ Bad \subseteq committed

AckInv == AckedIsStored /\ \A p \in Passes : Vouched(p)

\* Only markSynced makes a row a delivered one.
LEMMA NoNewDelivery ==
    ASSUME NEW table \in Tables, NEW m \in Messages, NEW n \in Messages,
           NEW ids, NEW at, NEW from, NEW to
    PROVE  /\ MarkUploading(table, ids)[m] \in Delivered => table[m] \in Delivered
           /\ MarkFailed(table, ids)[m] \in Delivered => table[m] \in Delivered
           /\ Quarantine(table, ids)[m] \in Delivered => table[m] \in Delivered
           /\ RequeueStranded(table)[m] \in Delivered => table[m] \in Delivered
           /\ ExcludeReceivedBetween(table, at, from, to)[m] \in Delivered
                => table[m] \in Delivered
           /\ Insert(table, n)[m] \in Delivered => table[m] \in Delivered
           /\ DeleteSyncedBefore(table, ids)[m] \in Delivered => table[m] \in Delivered
           /\ MarkSynced(table, ids)[m] \in Delivered => table[m] \in Delivered \/ m \in ids
BY DEF MarkUploading, MarkFailed, Quarantine, RequeueStranded, ExcludeReceivedBetween,
       Insert, DeleteSyncedBefore, MarkSynced, SetStatus, Delivered, Tables

\* A step that delivers nothing, takes nothing from the server and brings in no
\* new answer preserves the invariant.
LEMMA QuietStep ==
    ASSUME AckInv,
           \A m \in Messages : rows'[m] \in Delivered => rows[m] \in Delivered,
           committed \subseteq committed',
           \A p \in Passes :
              \/ pc'[p] # "uploading"
              \/ reply'[p] \notin {"stored", "verdicts"}
              \/ pc[p] = "uploading" /\ reply'[p] = reply[p] /\ batch'[p] = batch[p]
    PROVE  AckInv'
BY DEF AckInv, AckedIsStored, Vouched, Delivered

LEMMA ReturnQuiet ==
    ASSUME TypeOK, NEW p \in Passes, Return(p), NEW q \in Passes
    PROVE  \/ pc'[q] # "uploading"
           \/ pc'[q] = pc[q] /\ reply'[q] = reply[q] /\ batch'[q] = batch[q]
BY DEF TypeOK, Return, Goto

\* A pass that moves to a stage other than "uploading" brings in no answer.
LEMMA GotoQuiet ==
    ASSUME TypeOK, NEW p \in Passes, NEW stage, stage # "uploading", Goto(p, stage),
           \A q \in Passes \ {p} : reply'[q] = reply[q] /\ batch'[q] = batch[q],
           NEW q \in Passes
    PROVE  \/ pc'[q] # "uploading"
           \/ pc'[q] = pc[q] /\ reply'[q] = reply[q] /\ batch'[q] = batch[q]
BY DEF TypeOK, Goto

LEMMA InitAck == Init => AckInv
BY DEF Init, AckInv, AckedIsStored, Vouched

LEMMA EnvironmentAck ==
    ASSUME TypeOK, AckInv
    PROVE  /\ \A m \in Messages, at \in 1..MaxClock, caught \in BOOLEAN :
                  Arrive(m, at, caught) => AckInv'
           /\ UserStep => AckInv'
           /\ Administer => AckInv'
           /\ LateIngest => AckInv'
<1>1. ASSUME NEW m \in Messages, NEW at \in 1..MaxClock, NEW caught \in BOOLEAN,
             Arrive(m, at, caught)
      PROVE  AckInv'
  <2>1. \A n \in Messages : rows'[n] \in Delivered => rows[n] \in Delivered
    BY <1>1, NoNewDelivery DEF Arrive, TypeOK
  <2> QED
    BY <1>1, <2>1, QuietStep DEF Arrive, passVars, serverVars
<1>2. UserStep => AckInv'
  BY QuietStep
     DEF UserStep, SaveConnection, PauseSync, ResumeSync, SetExcludePausedMessages,
         ForgetDevice, passVars, serverVars
<1>3. Administer => AckInv'
  BY QuietStep DEF Administer, SetEnrolment, ServerReset, phoneVars, passVars
<1>4. LateIngest => AckInv'
  BY QuietStep DEF LateIngest, phoneVars, passVars
<1> QED
  BY <1>1, <1>2, <1>3, <1>4

\* The steps of a pass that deliver nothing.
LEMMA QuietPassAck ==
    ASSUME TypeOK, AckInv, NEW p \in Passes
    PROVE  /\ StartPass(p) \/ SweepEnds(p) \/ Requeue(p) \/ ApplyWindow(p) => AckInv'
           /\ \A m \in Messages : SweepStores(p, m) => AckInv'
           /\ ClearExclusionWindow(p) \/ ClearEnrolmentCode(p) => AckInv'
           /\ AlreadyRegistered(p) \/ AskToRegister(p) \/ StoreDevice(p) => AckInv'
           /\ NoSetupKey(p) \/ RegistrationFails(p) => AckInv'
           /\ ServerRegisters(p) \/ ServerRefusesRegistration(p) => AckInv'
           /\ Select(p) \/ Prune(p) \/ CheckIn(p) \/ CheckInEnds(p) => AckInv'
<1>1. StartPass(p) => AckInv'
  BY GotoQuiet, QuietStep DEF StartPass, phoneVars, serverVars
<1>2. SweepEnds(p) => AckInv'
  BY GotoQuiet, QuietStep DEF SweepEnds, phoneVars, serverVars
<1>3. ASSUME Requeue(p) PROVE AckInv'
  <2>1. \A n \in Messages : rows'[n] \in Delivered => rows[n] \in Delivered
    BY <1>3, NoNewDelivery DEF Requeue, TypeOK
  <2> QED
    BY <1>3, <2>1, GotoQuiet, QuietStep DEF Requeue, serverVars
<1>4. ASSUME ApplyWindow(p) PROVE AckInv'
  <2>1. \A n \in Messages : rows'[n] \in Delivered => rows[n] \in Delivered
    BY <1>4, NoNewDelivery DEF ApplyWindow, TypeOK
  <2> QED
    BY <1>4, <2>1, GotoQuiet, QuietStep DEF ApplyWindow, serverVars
<1>5. ASSUME NEW m \in Messages, SweepStores(p, m) PROVE AckInv'
  <2>1. \A n \in Messages : rows'[n] \in Delivered => rows[n] \in Delivered
    BY <1>5, NoNewDelivery DEF SweepStores, TypeOK
  <2> QED
    BY <1>5, <2>1, QuietStep DEF SweepStores, passVars, serverVars
<1>6. ClearExclusionWindow(p) => AckInv'
  BY GotoQuiet, QuietStep DEF ClearExclusionWindow, serverVars
<1>7. ClearEnrolmentCode(p) => AckInv'
  BY GotoQuiet, QuietStep DEF ClearEnrolmentCode, serverVars
<1>8. AlreadyRegistered(p) => AckInv'
  BY GotoQuiet, QuietStep DEF AlreadyRegistered, phoneVars, serverVars
<1>9. AskToRegister(p) => AckInv'
  BY GotoQuiet, QuietStep DEF AskToRegister, Answer, TypeOK, phoneVars, serverVars
<1>10. StoreDevice(p) => AckInv'
  BY GotoQuiet, QuietStep DEF StoreDevice, Answer, TypeOK, serverVars
<1>11. NoSetupKey(p) \/ RegistrationFails(p) => AckInv'
  BY ReturnQuiet, QuietStep DEF NoSetupKey, RegistrationFails, phoneVars, serverVars
<1>12. ServerRegisters(p) \/ ServerRefusesRegistration(p) => AckInv'
  BY QuietStep
     DEF ServerRegisters, ServerRefusesRegistration, Answer, TypeOK, phoneVars, serverVars
<1>13. Select(p) => AckInv'
  BY GotoQuiet, QuietStep DEF Select, TypeOK, phoneVars, serverVars
<1>14. ASSUME Prune(p) PROVE AckInv'
  <2>1. \A n \in Messages : rows'[n] \in Delivered => rows[n] \in Delivered
    BY <1>14, NoNewDelivery DEF Prune, TypeOK
  <2> QED
    BY <1>14, <2>1, GotoQuiet, QuietStep DEF Prune, serverVars
<1>15. CheckIn(p) => AckInv'
  BY GotoQuiet, QuietStep DEF CheckIn, phoneVars, serverVars
<1>16. CheckInEnds(p) => AckInv'
  BY ReturnQuiet, QuietStep DEF CheckInEnds, phoneVars, serverVars
<1> QED
  BY <1>1, <1>2, <1>3, <1>4, <1>5, <1>6, <1>7, <1>8, <1>9, <1>10, <1>11, <1>12, <1>13,
     <1>14, <1>15, <1>16

\* The steps of the upload loop.
LEMMA UploadAck ==
    ASSUME TypeOK, AckInv, NEW p \in Passes
    PROVE  /\ Upload(p) => AckInv'
           /\ ServerStores(p) => AckInv'
           /\ ServerRefusesUpload(p) \/ LoseCall(p) \/ StopPass(p) => AckInv'
           /\ TakeStored(p) \/ TakeVerdicts(p) => AckInv'
           /\ \A m \in Messages : QuarantineRefused(p, m) => AckInv'
           /\ Isolate(p) \/ QuarantineIsolated(p) => AckInv'
           /\ UploadFails(p) \/ UploadUnauthorized(p) \/ DropDevice(p) => AckInv'
<1>1. ASSUME Upload(p) PROVE AckInv'
  <2>1. \A n \in Messages : rows'[n] \in Delivered => rows[n] \in Delivered
    BY <1>1, NoNewDelivery DEF Upload, TypeOK
  <2> QED
    BY <1>1, <2>1, QuietStep DEF Upload, Answer, Goto, TypeOK, serverVars
<1>2. ASSUME ServerStores(p) PROVE AckInv'
  <2>1. committed \subseteq committed' /\ rows' = rows
    BY <1>2 DEF ServerStores, phoneVars
  <2>2. \A q \in Passes \ {p} : Vouched(q)'
    BY <1>2, <2>1 DEF ServerStores, Answer, TypeOK, AckInv, Vouched
  <2>3. Vouched(p)'
    <3> PICK form \in BatchAnswers :
            Takes(form, batch[p]) /\ \E answer \in {form, "unavailable"} : Answer(p, answer)
      BY <1>2 DEF ServerStores
    <3>1. reply'[p] \in {form, "unavailable"}
      BY DEF Answer, TypeOK
    <3>2. reply'[p] = "stored" => batch[p] \cap Bad = {}
      BY <3>1 DEF Takes
    <3>3. committed' = committed \cup (batch[p] \ Bad) /\ batch' = batch
      BY <1>2 DEF ServerStores
    <3> QED
      BY <3>2, <3>3 DEF Vouched
  <2> QED
    BY <2>1, <2>2, <2>3 DEF AckInv, AckedIsStored
<1>3. ServerRefusesUpload(p) => AckInv'
  BY QuietStep DEF ServerRefusesUpload, Answer, TypeOK, phoneVars, serverVars
<1>4. LoseCall(p) => AckInv'
  BY QuietStep DEF LoseCall, Answer, TypeOK, phoneVars
<1>5. StopPass(p) => AckInv'
  BY ReturnQuiet, QuietStep DEF StopPass, phoneVars
<1>6. ASSUME TakeStored(p) \/ TakeVerdicts(p) PROVE AckInv'
  <2>1. PICK ids : /\ rows' = MarkSynced(rows, ids)
                   /\ ids \subseteq committed
    BY <1>6 DEF TakeStored, TakeVerdicts, AckInv, Vouched
  <2>2. AckedIsStored'
    BY <1>6, <2>1, NoNewDelivery
       DEF TakeStored, TakeVerdicts, AckInv, AckedIsStored, Delivered, TypeOK, serverVars
  <2>3. \A q \in Passes : Vouched(q)'
    BY <1>6
       DEF TakeStored, TakeVerdicts, NextBatch, Answer, Goto, TypeOK, AckInv, Vouched,
           serverVars
  <2> QED
    BY <2>2, <2>3 DEF AckInv
<1>7. ASSUME NEW m \in Messages, QuarantineRefused(p, m) PROVE AckInv'
  <2>1. \A n \in Messages : rows'[n] \in Delivered => rows[n] \in Delivered
    BY <1>7, NoNewDelivery DEF QuarantineRefused, TypeOK
  <2> QED
    BY <1>7, <2>1, QuietStep DEF QuarantineRefused, Goto, TypeOK, serverVars
<1>8. ASSUME Isolate(p) \/ QuarantineIsolated(p) \/ UploadUnauthorized(p) PROVE AckInv'
  <2>1. \A n \in Messages : rows'[n] \in Delivered => rows[n] \in Delivered
    BY <1>8, NoNewDelivery DEF Isolate, QuarantineIsolated, UploadUnauthorized, TypeOK
  <2> QED
    BY <1>8, <2>1, QuietStep
       DEF Isolate, QuarantineIsolated, UploadUnauthorized, NextBatch, Answer, Goto, TypeOK,
           serverVars
<1>9. ASSUME UploadFails(p) PROVE AckInv'
  <2>1. \A n \in Messages : rows'[n] \in Delivered => rows[n] \in Delivered
    BY <1>9, NoNewDelivery DEF UploadFails, TypeOK
  <2> QED
    BY <1>9, <2>1, ReturnQuiet, QuietStep DEF UploadFails, serverVars
<1>10. DropDevice(p) => AckInv'
  BY ReturnQuiet, QuietStep DEF DropDevice, serverVars
<1> QED
  BY <1>1, <1>2, <1>3, <1>4, <1>5, <1>6, <1>7, <1>8, <1>9, <1>10

LEMMA NextAck == TypeOK /\ AckInv /\ [Next]_vars => AckInv'
<1> SUFFICES ASSUME TypeOK, AckInv, [Next]_vars PROVE AckInv'
  OBVIOUS
<1>1. CASE UNCHANGED vars
  BY <1>1 DEF vars, AckInv, AckedIsStored, Vouched
<1>2. ASSUME NEW m \in Messages, NEW at \in 1..MaxClock, NEW caught \in BOOLEAN,
             Arrive(m, at, caught)
      PROVE  AckInv'
  BY <1>2, EnvironmentAck
<1>3. CASE UserStep \/ Administer \/ LateIngest
  BY <1>3, EnvironmentAck
<1>4. ASSUME NEW p \in Passes, PassStep(p) PROVE AckInv'
  BY <1>4, QuietPassAck, UploadAck DEF PassStep
<1>5. ASSUME NEW p \in Passes, ServerStep(p) \/ LoseCall(p) \/ StopPass(p) PROVE AckInv'
  BY <1>5, QuietPassAck, UploadAck DEF ServerStep
<1>6. ASSUME NEW p \in Passes,
             StartPass(p) \/ \E m \in Messages : SweepStores(p, m)
      PROVE  AckInv'
  BY <1>6, QuietPassAck
<1> QED
  BY <1>1, <1>2, <1>3, <1>4, <1>5, <1>6 DEF Next

\* Whatever is marked SYNCED, or pruned after that, the server has committed:
\* markSynced and deleteSyncedBefore lose nothing, for any number of concurrent
\* passes, lost answers, late requests and killed processes.
THEOREM AckedIsAlwaysStored == Spec => []AckedIsStored
<1>1. AckInv => AckedIsStored
  BY DEF AckInv
<1> QED
  BY <1>1, InitAck, NextAck, TypeCorrect, PTL DEF Spec

-----------------------------------------------------------------------------
(* QuarantineIsJustified, as long as the URL names a Tsunagi server: a      *)
(* server that is none answers 404, which the code reads as a verdict on    *)
(* the message.  Strengthened by what a refusal in hand says of its batch.  *)

Blames(p) ==
    /\ pc[p] = "uploading" /\ reply[p] = "refused" => batch[p] \cap Bad # {}
    /\ pc[p] = "quarantine" => batch[p] \subseteq Bad

QuarantineInv == QuarantineIsJustified /\ \A p \in Passes : Blames(p)

LEMMA QuarantinesOnly ==
    ASSUME NEW table, NEW ids, NEW m \in Messages
    PROVE  Quarantine(table, ids)[m] = "QUARANTINED" => table[m] = "QUARANTINED" \/ m \in ids
BY DEF Quarantine, SetStatus

\* Every statement but quarantine.
StatementButQuarantine ==
    \/ UNCHANGED rows
    \/ \E ids \in SUBSET Messages :
          \/ rows' = MarkUploading(rows, ids)
          \/ rows' = MarkFailed(rows, ids)
          \/ rows' = MarkSynced(rows, ids)
          \/ rows' = DeleteSyncedBefore(rows, ids)
    \/ rows' = RequeueStranded(rows)
    \/ \E from, to \in Times : rows' = ExcludeReceivedBetween(rows, received, from, to)
    \/ \E n \in Messages : rows' = Insert(rows, n)

\* A step that quarantines nothing and brings in no refusal.
LEMMA InnocentStep ==
    ASSUME TypeOK, QuarantineInv, StatementButQuarantine,
           \A p \in Passes :
              \/ pc'[p] \notin {"uploading", "quarantine"}
              \/ pc'[p] = "uploading" /\ reply'[p] # "refused"
              \/ pc'[p] = pc[p] /\ reply'[p] = reply[p] /\ batch'[p] = batch[p]
    PROVE  QuarantineInv'
<1>1. \A m \in Messages : rows'[m] = "QUARANTINED" => rows[m] = "QUARANTINED"
  <2>1. ASSUME NEW ids \in SUBSET Messages, NEW status \in SyncStatus \ {"QUARANTINED"},
               rows' = SetStatus(rows, ids, status)
        PROVE  \A m \in Messages : rows'[m] = "QUARANTINED" => rows[m] = "QUARANTINED"
    BY <2>1 DEF SetStatus
  <2>2. ASSUME NEW ids \in SUBSET Messages,
               rows' = MarkUploading(rows, ids) \/ rows' = MarkFailed(rows, ids)
                  \/ rows' = MarkSynced(rows, ids)
        PROVE  \A m \in Messages : rows'[m] = "QUARANTINED" => rows[m] = "QUARANTINED"
    BY <2>2, <2>1 DEF MarkUploading, MarkFailed, MarkSynced, SyncStatus
  <2>3. ASSUME NEW ids \in SUBSET Messages, rows' = DeleteSyncedBefore(rows, ids)
        PROVE  \A m \in Messages : rows'[m] = "QUARANTINED" => rows[m] = "QUARANTINED"
    BY <2>3 DEF DeleteSyncedBefore
  <2>4. ASSUME rows' = RequeueStranded(rows)
        PROVE  \A m \in Messages : rows'[m] = "QUARANTINED" => rows[m] = "QUARANTINED"
    BY <2>4 DEF RequeueStranded, SetStatus
  <2>5. ASSUME NEW from, NEW to, rows' = ExcludeReceivedBetween(rows, received, from, to)
        PROVE  \A m \in Messages : rows'[m] = "QUARANTINED" => rows[m] = "QUARANTINED"
    BY <2>5 DEF ExcludeReceivedBetween, SetStatus
  <2>6. ASSUME NEW n \in Messages, rows' = Insert(rows, n)
        PROVE  \A m \in Messages : rows'[m] = "QUARANTINED" => rows[m] = "QUARANTINED"
    BY <2>6 DEF Insert, TypeOK, Tables
  <2> QED
    BY <2>2, <2>3, <2>4, <2>5, <2>6 DEF StatementButQuarantine
<1>2. QuarantineIsJustified'
  BY <1>1 DEF QuarantineInv, QuarantineIsJustified
<1>3. \A p \in Passes : Blames(p)'
  BY DEF QuarantineInv, Blames
<1> QED
  BY <1>2, <1>3 DEF QuarantineInv

LEMMA InitQuarantine == Init => QuarantineInv
BY DEF Init, QuarantineInv, QuarantineIsJustified, Blames

LEMMA EnvironmentQuarantine ==
    ASSUME TypeOK, QuarantineInv
    PROVE  /\ \A m \in Messages, at \in 1..MaxClock, caught \in BOOLEAN :
                  Arrive(m, at, caught) => QuarantineInv'
           /\ UserStep => QuarantineInv'
           /\ Administer => QuarantineInv'
           /\ LateIngest => QuarantineInv'
<1>1. \A m \in Messages, at \in 1..MaxClock, caught \in BOOLEAN :
          Arrive(m, at, caught) => QuarantineInv'
  BY InnocentStep DEF Arrive, StatementButQuarantine, passVars, serverVars
<1>2. UserStep => QuarantineInv'
  BY InnocentStep
     DEF UserStep, SaveConnection, PauseSync, ResumeSync, SetExcludePausedMessages,
         ForgetDevice, StatementButQuarantine, passVars, serverVars
<1>3. Administer => QuarantineInv'
  BY InnocentStep
     DEF Administer, SetEnrolment, ServerReset, StatementButQuarantine, phoneVars, passVars
<1>4. LateIngest => QuarantineInv'
  BY InnocentStep DEF LateIngest, StatementButQuarantine, phoneVars, passVars
<1> QED
  BY <1>1, <1>2, <1>3, <1>4

LEMMA InnocentPass ==
    ASSUME TypeOK, QuarantineInv, NEW p \in Passes
    PROVE  /\ StartPass(p) \/ SweepEnds(p) \/ Requeue(p) \/ ApplyWindow(p) => QuarantineInv'
           /\ \A m \in Messages : SweepStores(p, m) => QuarantineInv'
           /\ ClearExclusionWindow(p) \/ ClearEnrolmentCode(p) => QuarantineInv'
           /\ AlreadyRegistered(p) \/ AskToRegister(p) \/ StoreDevice(p) => QuarantineInv'
           /\ NoSetupKey(p) \/ RegistrationFails(p) => QuarantineInv'
           /\ ServerRegisters(p) \/ ServerRefusesRegistration(p) => QuarantineInv'
           /\ Select(p) \/ Prune(p) \/ CheckIn(p) \/ CheckInEnds(p) => QuarantineInv'
<1>1. StartPass(p) \/ SweepEnds(p) => QuarantineInv'
  BY InnocentStep
     DEF StartPass, SweepEnds, Goto, TypeOK, StatementButQuarantine, phoneVars, serverVars
<1>2. Requeue(p) => QuarantineInv'
  BY InnocentStep DEF Requeue, Goto, TypeOK, StatementButQuarantine, serverVars
<1>3. ASSUME ApplyWindow(p) PROVE QuarantineInv'
  <2>1. StatementButQuarantine
    BY <1>3 DEF ApplyWindow, TypeOK, Settings, StatementButQuarantine
  <2> QED
    BY <1>3, <2>1, InnocentStep DEF ApplyWindow, Goto, TypeOK, serverVars
<1>4. \A m \in Messages : SweepStores(p, m) => QuarantineInv'
  BY InnocentStep DEF SweepStores, StatementButQuarantine, passVars, serverVars
<1>5. ClearExclusionWindow(p) \/ ClearEnrolmentCode(p) => QuarantineInv'
  BY InnocentStep
     DEF ClearExclusionWindow, ClearEnrolmentCode, Goto, TypeOK, StatementButQuarantine,
         serverVars
<1>6. AlreadyRegistered(p) \/ AskToRegister(p) \/ StoreDevice(p) => QuarantineInv'
  BY InnocentStep
     DEF AlreadyRegistered, AskToRegister, StoreDevice, Answer, Goto, TypeOK,
         StatementButQuarantine, phoneVars, serverVars
<1>7. NoSetupKey(p) \/ RegistrationFails(p) => QuarantineInv'
  BY ReturnQuiet, InnocentStep
     DEF NoSetupKey, RegistrationFails, Return, Goto, TypeOK, StatementButQuarantine,
         phoneVars, serverVars
<1>8. ServerRegisters(p) \/ ServerRefusesRegistration(p) => QuarantineInv'
  BY InnocentStep
     DEF ServerRegisters, ServerRefusesRegistration, Answer, TypeOK,
         StatementButQuarantine, phoneVars, serverVars
<1>9. Select(p) => QuarantineInv'
  BY InnocentStep DEF Select, Goto, TypeOK, StatementButQuarantine, phoneVars, serverVars
<1>10. Prune(p) => QuarantineInv'
  BY InnocentStep DEF Prune, Goto, TypeOK, StatementButQuarantine, serverVars
<1>11. CheckIn(p) => QuarantineInv'
  BY InnocentStep DEF CheckIn, Goto, TypeOK, StatementButQuarantine, phoneVars, serverVars
<1>12. CheckInEnds(p) => QuarantineInv'
  BY InnocentStep
     DEF CheckInEnds, Return, Goto, TypeOK, StatementButQuarantine, phoneVars, serverVars
<1> QED
  BY <1>1, <1>2, <1>3, <1>4, <1>5, <1>6, <1>7, <1>8, <1>9, <1>10, <1>11, <1>12

LEMMA UploadQuarantine ==
    ASSUME TypeOK, QuarantineInv, "elsewhere" \notin Urls, NEW p \in Passes
    PROVE  /\ Upload(p) => QuarantineInv'
           /\ ServerStores(p) \/ LoseCall(p) \/ StopPass(p) => QuarantineInv'
           /\ ServerRefusesUpload(p) => QuarantineInv'
           /\ TakeStored(p) \/ TakeVerdicts(p) => QuarantineInv'
           /\ \A m \in Messages : QuarantineRefused(p, m) => QuarantineInv'
           /\ Isolate(p) \/ QuarantineIsolated(p) => QuarantineInv'
           /\ UploadFails(p) \/ UploadUnauthorized(p) \/ DropDevice(p) => QuarantineInv'
<1>1. ASSUME Upload(p) PROVE QuarantineInv'
  <2>1. StatementButQuarantine
    BY <1>1 DEF Upload, TypeOK, StatementButQuarantine
  <2> QED
    BY <1>1, <2>1, InnocentStep DEF Upload, Answer, Goto, TypeOK, serverVars
<1>2. ServerStores(p) \/ LoseCall(p) => QuarantineInv'
  <2>1. ASSUME ServerStores(p) PROVE QuarantineInv'
    <3>1. reply'[p] # "refused"
      BY <2>1, ConstantsAssumption DEF ServerStores, Answer, TypeOK
    <3>2. \A q \in Passes \ {p} : reply'[q] = reply[q]
      BY <2>1 DEF ServerStores, Answer, TypeOK
    <3> QED
      BY <2>1, <3>1, <3>2, InnocentStep DEF ServerStores, StatementButQuarantine, phoneVars
  <2>2. LoseCall(p) => QuarantineInv'
    BY InnocentStep DEF LoseCall, Answer, TypeOK, StatementButQuarantine, phoneVars
  <2> QED
    BY <2>1, <2>2
<1>3. StopPass(p) => QuarantineInv'
  BY InnocentStep DEF StopPass, Return, Goto, TypeOK, StatementButQuarantine, phoneVars
<1>4. ASSUME ServerRefusesUpload(p) PROVE QuarantineInv'
  <2>1. config[p].url # "elsewhere"
    BY DEF TypeOK, Settings
  <2>2. reply'[p] = "refused" => batch[p] \cap Bad # {}
    BY <1>4, <2>1 DEF ServerRefusesUpload, Answer, Takes, TypeOK
  <2>3. \A q \in Passes : Blames(q)'
    BY <1>4, <2>2 DEF ServerRefusesUpload, Answer, TypeOK, QuarantineInv, Blames
  <2> QED
    BY <1>4, <2>3
       DEF ServerRefusesUpload, QuarantineInv, QuarantineIsJustified, phoneVars
<1>5. ASSUME TakeStored(p) PROVE QuarantineInv'
  <2>1. StatementButQuarantine
    BY <1>5 DEF TakeStored, TypeOK, StatementButQuarantine
  <2> QED
    BY <1>5, <2>1, InnocentStep DEF TakeStored, NextBatch, Answer, Goto, TypeOK, serverVars
<1>6. ASSUME TakeVerdicts(p) PROVE QuarantineInv'
  <2>1. \A m \in Messages : rows'[m] = "QUARANTINED" => rows[m] = "QUARANTINED"
    BY <1>6 DEF TakeVerdicts, MarkSynced, SetStatus
  <2>2. \A q \in Passes : Blames(q)'
    BY <1>6 DEF TakeVerdicts, Answer, Goto, TypeOK, QuarantineInv, Blames
  <2> QED
    BY <2>1, <2>2 DEF QuarantineInv, QuarantineIsJustified
<1>7. ASSUME NEW m \in Messages, QuarantineRefused(p, m) PROVE QuarantineInv'
  <2>1. m \in Bad
    BY <1>7 DEF QuarantineRefused, QuarantineInv, Blames
  <2>2. \A n \in Messages : rows'[n] = "QUARANTINED" => rows[n] = "QUARANTINED" \/ n = m
    BY <1>7, QuarantinesOnly DEF QuarantineRefused, TypeOK
  <2>3. \A q \in Passes : Blames(q)'
    BY <1>7 DEF QuarantineRefused, Goto, TypeOK, QuarantineInv, Blames
  <2> QED
    BY <2>1, <2>2, <2>3 DEF QuarantineInv, QuarantineIsJustified
<1>8. ASSUME Isolate(p) PROVE QuarantineInv'
  <2>1. StatementButQuarantine
    BY <1>8 DEF Isolate, TypeOK, StatementButQuarantine
  <2> QED
    BY <1>8, <2>1, InnocentStep DEF Isolate, NextBatch, Answer, Goto, TypeOK, serverVars
<1>9. ASSUME QuarantineIsolated(p) PROVE QuarantineInv'
  <2>1. batch[p] \subseteq Bad
    BY <1>9 DEF QuarantineIsolated, Isolated, QuarantineInv, Blames
  <2>2. \A n \in Messages : rows'[n] = "QUARANTINED"
            => rows[n] = "QUARANTINED" \/ n \in batch[p]
    BY <1>9, QuarantinesOnly DEF QuarantineIsolated, TypeOK
  <2>3. \A q \in Passes : Blames(q)'
    BY <1>9 DEF QuarantineIsolated, NextBatch, Answer, Goto, TypeOK, QuarantineInv, Blames
  <2> QED
    BY <2>1, <2>2, <2>3 DEF QuarantineInv, QuarantineIsJustified
<1>10. ASSUME UploadFails(p) \/ UploadUnauthorized(p) PROVE QuarantineInv'
  <2>1. StatementButQuarantine
    BY <1>10 DEF UploadFails, UploadUnauthorized, TypeOK, StatementButQuarantine
  <2> QED
    BY <1>10, <2>1, InnocentStep
       DEF UploadFails, UploadUnauthorized, Return, Answer, Goto, TypeOK, serverVars
<1>11. DropDevice(p) => QuarantineInv'
  BY InnocentStep DEF DropDevice, Return, Goto, TypeOK, StatementButQuarantine, serverVars
<1> QED
  BY <1>1, <1>2, <1>3, <1>4, <1>5, <1>6, <1>7, <1>8, <1>9, <1>10, <1>11

LEMMA NextQuarantine ==
    "elsewhere" \notin Urls /\ TypeOK /\ QuarantineInv /\ [Next]_vars => QuarantineInv'
<1> SUFFICES ASSUME "elsewhere" \notin Urls, TypeOK, QuarantineInv, [Next]_vars
             PROVE  QuarantineInv'
  OBVIOUS
<1>1. CASE UNCHANGED vars
  BY <1>1 DEF vars, QuarantineInv, QuarantineIsJustified, Blames
<1>2. ASSUME NEW m \in Messages, NEW at \in 1..MaxClock, NEW caught \in BOOLEAN,
             Arrive(m, at, caught)
      PROVE  QuarantineInv'
  BY <1>2, EnvironmentQuarantine
<1>3. CASE UserStep \/ Administer \/ LateIngest
  BY <1>3, EnvironmentQuarantine
<1>4. ASSUME NEW p \in Passes, PassStep(p) PROVE QuarantineInv'
  BY <1>4, InnocentPass, UploadQuarantine DEF PassStep
<1>5. ASSUME NEW p \in Passes, ServerStep(p) \/ LoseCall(p) \/ StopPass(p)
      PROVE  QuarantineInv'
  BY <1>5, InnocentPass, UploadQuarantine DEF ServerStep
<1>6. ASSUME NEW p \in Passes,
             StartPass(p) \/ \E m \in Messages : SweepStores(p, m)
      PROVE  QuarantineInv'
  BY <1>6, InnocentPass
<1> QED
  BY <1>1, <1>2, <1>3, <1>4, <1>5, <1>6 DEF Next

\* Isolation blames only the guilty: against a Tsunagi server, of either age,
\* no message the server would take is ever quarantined.
THEOREM QuarantineIsAlwaysJustified ==
    ASSUME "elsewhere" \notin Urls
    PROVE  Spec => []QuarantineIsJustified
<1>1. QuarantineInv => QuarantineIsJustified
  BY DEF QuarantineInv
<1>2. TypeOK /\ QuarantineInv /\ [Next]_vars => QuarantineInv'
  BY NextQuarantine
<1> QED
  BY <1>1, <1>2, InitQuarantine, TypeCorrect, PTL DEF Spec

-----------------------------------------------------------------------------
(* What the refinement below takes from a single chain: the pass that holds *)
(* a batch is the only one to touch its rows, from the query that selected  *)
(* them to the statement that settles them.  With two chains it is not.     *)

OwnRows(p) ==
    /\ pc[p] = "mark" => batch[p] \subseteq Queued(rows)
    /\ pc[p] \in {"uploading", "quarantine"} => \A m \in batch[p] : rows[m] = "UPLOADING"

OwnInv == \A p \in Passes : OwnRows(p)

LEMMA InitOwn == Init => OwnInv
BY DEF Init, OwnInv, OwnRows

LEMMA SetStatusOutside ==
    ASSUME NEW table \in Tables, NEW ids, NEW status, NEW m \in Messages, m \notin ids
    PROVE  SetStatus(table, ids, status)[m] = table[m]
BY DEF SetStatus, Tables

LEMMA EnvironmentOwn ==
    ASSUME TypeOK, OwnInv
    PROVE  /\ \A m \in Messages, at \in 1..MaxClock, caught \in BOOLEAN :
                  Arrive(m, at, caught) => OwnInv'
           /\ UserStep \/ Administer \/ LateIngest => OwnInv'
<1>1. ASSUME NEW m \in Messages, NEW at \in 1..MaxClock, NEW caught \in BOOLEAN,
             Arrive(m, at, caught)
      PROVE  OwnInv'
  <2>1. \A n \in Messages : rows'[n] = rows[n] \/ rows[n] \in NoRow
    BY <1>1 DEF Arrive, Insert, TypeOK, Tables
  <2> QED
    BY <1>1, <2>1 DEF Arrive, OwnInv, OwnRows, Queued, NoRow, TypeOK, passVars
<1>2. UserStep => UNCHANGED <<rows, pc, batch>>
  BY DEF UserStep, SaveConnection, PauseSync, ResumeSync, SetExcludePausedMessages,
         ForgetDevice, passVars
<1>3. Administer \/ LateIngest => UNCHANGED <<rows, pc, batch>>
  BY DEF Administer, SetEnrolment, ServerReset, LateIngest, phoneVars, passVars
<1>4. UNCHANGED <<rows, pc, batch>> => OwnInv'
  BY DEF OwnInv, OwnRows, Queued
<1> QED
  BY <1>1, <1>2, <1>3, <1>4

\* The steps of the one pass that holds no batch, or does not touch its rows.
LEMMA IdleOwn ==
    ASSUME TypeOK, OwnInv, NEW p \in Passes, Passes = {p}
    PROVE  /\ StartPass(p) \/ SweepEnds(p) \/ Requeue(p) \/ ApplyWindow(p)
                => OwnInv'
           /\ \A m \in Messages : SweepStores(p, m) => OwnInv'
           /\ ClearExclusionWindow(p) \/ ClearEnrolmentCode(p) => OwnInv'
           /\ AlreadyRegistered(p) \/ AskToRegister(p) \/ StoreDevice(p)
                => OwnInv'
           /\ NoSetupKey(p) \/ RegistrationFails(p) => OwnInv'
           /\ ServerRegisters(p) \/ ServerRefusesRegistration(p) => OwnInv'
           /\ Prune(p) \/ CheckIn(p) \/ CheckInEnds(p) => OwnInv'
           /\ ServerStores(p) \/ ServerRefusesUpload(p) \/ LoseCall(p) => OwnInv'
           /\ StopPass(p) \/ DropDevice(p) => OwnInv'
<1>1. pc'[p] \notin {"mark", "uploading", "quarantine"} => OwnInv'
  BY DEF OwnInv, OwnRows
<1>2. StartPass(p) \/ SweepEnds(p) => OwnInv'
  BY <1>1 DEF StartPass, SweepEnds, Goto, TypeOK, phoneVars
<1>3. Requeue(p) \/ ApplyWindow(p) => OwnInv'
  BY <1>1 DEF Requeue, ApplyWindow, Goto, TypeOK
<1>4. ASSUME NEW m \in Messages, SweepStores(p, m) PROVE OwnInv'
  BY <1>1, <1>4 DEF SweepStores, TypeOK, passVars
<1>5. ClearExclusionWindow(p) \/ ClearEnrolmentCode(p) => OwnInv'
  BY <1>1 DEF ClearExclusionWindow, ClearEnrolmentCode, Goto, TypeOK
<1>6. AlreadyRegistered(p) \/ AskToRegister(p) \/ StoreDevice(p) => OwnInv'
  BY <1>1 DEF AlreadyRegistered, AskToRegister, StoreDevice, Goto, TypeOK, phoneVars
<1>7. NoSetupKey(p) \/ RegistrationFails(p) \/ CheckInEnds(p) => OwnInv'
  BY <1>1
     DEF NoSetupKey, RegistrationFails, CheckInEnds, Return, Goto, TypeOK, phoneVars
<1>8. ServerRegisters(p) \/ ServerRefusesRegistration(p) => OwnInv'
  BY <1>1 DEF ServerRegisters, ServerRefusesRegistration, phoneVars
<1>9. Prune(p) => OwnInv'
  BY <1>1 DEF Prune, Goto, TypeOK
<1>10. CheckIn(p) => OwnInv'
  BY <1>1 DEF CheckIn, Goto, TypeOK, phoneVars
<1>11. ServerStores(p) \/ ServerRefusesUpload(p) \/ LoseCall(p) => OwnInv'
  BY DEF ServerStores, ServerRefusesUpload, LoseCall, phoneVars, OwnInv, OwnRows, Queued
<1>12. StopPass(p) \/ DropDevice(p) => OwnInv'
  BY <1>1 DEF StopPass, DropDevice, Return, Goto, TypeOK, phoneVars
<1> QED
  BY <1>2, <1>3, <1>4, <1>5, <1>6, <1>7, <1>8, <1>9, <1>10, <1>11, <1>12

\* The steps that write the rows of the batch.
LEMMA BatchOwn ==
    ASSUME TypeOK, OwnInv, NEW p \in Passes, Passes = {p}
    PROVE  /\ Select(p) \/ Upload(p) => OwnInv'
           /\ TakeStored(p) \/ TakeVerdicts(p) => OwnInv'
           /\ \A m \in Messages : QuarantineRefused(p, m) => OwnInv'
           /\ Isolate(p) \/ QuarantineIsolated(p) => OwnInv'
           /\ UploadFails(p) \/ UploadUnauthorized(p) => OwnInv'
<1>1. pc'[p] \notin {"mark", "uploading", "quarantine"} => OwnInv'
  BY DEF OwnInv, OwnRows
<1>2. Select(p) => OwnInv'
  BY BatchIsQueued DEF Select, Goto, OwnInv, OwnRows, TypeOK, phoneVars
<1>3. ASSUME Upload(p) PROVE OwnInv'
  <2>1. \A m \in batch[p] : rows'[m] = "UPLOADING"
    BY <1>3 DEF Upload, MarkUploading, SetStatus, OwnInv, OwnRows, Queued, NoRow, TypeOK
  <2> QED
    BY <1>3, <2>1 DEF Upload, Goto, OwnInv, OwnRows, TypeOK
<1>4. ASSUME TakeStored(p) PROVE OwnInv'
  BY <1>1, <1>4 DEF TakeStored, MarkSynced, NextBatch, Goto, TypeOK
<1>5. ASSUME TakeVerdicts(p) PROVE OwnInv'
  <2>1. \A m \in batch'[p] : rows'[m] = "UPLOADING"
    BY <1>5 DEF TakeVerdicts, MarkSynced, SetStatus, OwnInv, OwnRows, TypeOK
  <2> QED
    BY <1>5, <2>1 DEF TakeVerdicts, Goto, OwnInv, OwnRows, TypeOK
<1>6. ASSUME NEW m \in Messages, QuarantineRefused(p, m) PROVE OwnInv'
  <2>1. \A n \in batch'[p] : rows'[n] = "UPLOADING"
    BY <1>6 DEF QuarantineRefused, Quarantine, SetStatus, OwnInv, OwnRows, TypeOK
  <2> QED
    BY <1>6, <2>1 DEF QuarantineRefused, Goto, OwnInv, OwnRows, TypeOK
<1>7. ASSUME Isolate(p) \/ QuarantineIsolated(p) PROVE OwnInv'
  BY <1>1, <1>7
     DEF Isolate, QuarantineIsolated, MarkFailed, Quarantine, NextBatch, Goto, TypeOK
<1>8. ASSUME UploadFails(p) \/ UploadUnauthorized(p) PROVE OwnInv'
  BY <1>1, <1>8
     DEF UploadFails, UploadUnauthorized, MarkFailed, Return, Goto, TypeOK
<1> QED
  BY <1>2, <1>3, <1>4, <1>5, <1>6, <1>7, <1>8

LEMMA NextOwn ==
    ASSUME NEW chain, Passes = {chain}
    PROVE  TypeOK /\ OwnInv /\ [Next]_vars => OwnInv'
<1> SUFFICES ASSUME TypeOK, OwnInv, [Next]_vars PROVE OwnInv'
  OBVIOUS
<1>1. CASE UNCHANGED vars
  BY <1>1 DEF vars, OwnInv, OwnRows, Queued
<1>2. ASSUME NEW m \in Messages, NEW at \in 1..MaxClock, NEW caught \in BOOLEAN,
             Arrive(m, at, caught)
      PROVE  OwnInv'
  BY <1>2, EnvironmentOwn
<1>3. CASE UserStep \/ Administer \/ LateIngest
  BY <1>3, EnvironmentOwn
<1>4. ASSUME NEW p \in Passes, PassStep(p) PROVE OwnInv'
  BY <1>4, IdleOwn, BatchOwn DEF PassStep
<1>5. ASSUME NEW p \in Passes, ServerStep(p) \/ LoseCall(p) \/ StopPass(p)
      PROVE  OwnInv'
  BY <1>5, IdleOwn DEF ServerStep
<1>6. ASSUME NEW p \in Passes,
             StartPass(p) \/ \E m \in Messages : SweepStores(p, m)
      PROVE  OwnInv'
  BY <1>6, IdleOwn
<1> QED
  BY <1>1, <1>2, <1>3, <1>4, <1>5, <1>6 DEF Next

-----------------------------------------------------------------------------
(* The hold-back promise.  What was promised is in no batch and on no server, *)
(* and its row is settled, or inside the window a pass has yet to apply; every *)
(* pass that has not applied it yet works from that very window.              *)

Settled(m) == rows[m] \in {"EXCLUDED", "QUARANTINED"}

InWindow(m) ==
    settings.from > 0 /\ settings.from <= received[m] /\ received[m] <= settings.to

\* The window is in the past, and before the pause under way.
ClockInv ==
    /\ settings.from <= settings.to
    /\ settings.to <= clock
    /\ ~settings.enabled => settings.from < settings.pausedSince /\ settings.pausedSince <= clock

KeptBack(m) ==
    /\ m \notin committed \cup late
    /\ \A p \in Passes : m \notin batch[p]
    /\ received[m] > 0
    /\ Settled(m) \/ InWindow(m)

\* The stages up to the window, and those past it.
ToWindow   == {"sweep", "requeue", "exclude"}
PastWindow == Stages \ (ToWindow \cup {"idle", "clear_window"})

WindowOf(p) ==
    /\ pc[p] \in ToWindow /\ settings.from > 0
          => config[p].from = settings.from /\ config[p].to = settings.to
    /\ pc[p] \in {"requeue", "exclude"} => \A m \in promised : rows[m] # "ABSENT"
    /\ pc[p] = "exclude" => \A m \in promised : rows[m] # "UPLOADING"
    /\ pc[p] = "clear_window" => \A m \in promised : Settled(m)
    /\ pc[p] \in PastWindow => settings.from = 0

HoldInv ==
    /\ ClockInv
    /\ \A m \in promised : KeptBack(m)
    /\ \A p \in Passes : WindowOf(p)

LEMMA InitHold == Init => HoldInv
BY ConstantsAssumption
   DEF Init, HoldInv, ClockInv, WindowOf, ToWindow, PastWindow, FreshSettings

\* A row of a promised message is changed neither by what a pass does to its
\* batch nor by retention, which deletes acknowledged rows only.
LEMMA PromisedRow ==
    ASSUME TypeOK, AckedIsStored, HoldInv, NEW m \in promised
    PROVE  /\ m \in Messages
           /\ rows[m] \notin {"SYNCED", "PRUNED"}
           /\ \A p \in Passes, ids \in SUBSET Messages : \A status :
                 ids \subseteq batch[p] => SetStatus(rows, ids, status)[m] = rows[m]
           /\ \A expired \in SUBSET Messages : DeleteSyncedBefore(rows, expired)[m] = rows[m]
<1>1. m \in Messages /\ rows[m] \notin {"SYNCED", "PRUNED"}
  BY DEF TypeOK, AckedIsStored, HoldInv, KeptBack
<1>2. \A p \in Passes : m \notin batch[p]
  BY DEF HoldInv, KeptBack
<1> QED
  BY <1>1, <1>2, SetStatusOutside DEF TypeOK, DeleteSyncedBefore

\* A step that leaves the window, the clock and the promised rows alone, takes
\* none of the promised messages anywhere, and moves passes past the window only
\* on or out.
LEMMA HoldFrame ==
    ASSUME HoldInv,
           settings'.from = settings.from, settings'.to = settings.to,
           settings'.enabled = settings.enabled,
           settings'.pausedSince = settings.pausedSince,
           UNCHANGED <<received, clock, promised>>,
           \A m \in promised : /\ rows'[m] = rows[m]
                               /\ m \notin committed' \cup late'
                               /\ \A q \in Passes : m \notin batch'[q],
           \A q \in Passes : \/ pc'[q] = pc[q] /\ config'[q] = config[q]
                             \/ pc'[q] = "idle"
                             \/ pc[q] \in PastWindow /\ pc'[q] \in PastWindow
    PROVE  HoldInv'
<1>1. ClockInv'
  BY DEF HoldInv, ClockInv
<1>2. ASSUME NEW m \in promised' PROVE KeptBack(m)'
  BY DEF HoldInv, KeptBack, Settled, InWindow
<1>3. ASSUME NEW q \in Passes PROVE WindowOf(q)'
  BY DEF HoldInv, WindowOf, Settled, ToWindow, PastWindow
<1> QED
  BY <1>1, <1>2, <1>3 DEF HoldInv

\* Steps of the environment.  A resume promises what was received since the pause,
\* which is the window it leaves; no pass is under way then.
LEMMA EnvironmentHold ==
    ASSUME TypeOK, AckedIsStored, HoldInv
    PROVE  /\ \A m \in Messages, at \in 1..MaxClock, caught \in BOOLEAN :
                  Arrive(m, at, caught) => HoldInv'
           /\ UserStep /\ HoldConditions => HoldInv'
           /\ Administer => HoldInv'
           /\ LateIngest => HoldInv'
<1>1. ASSUME NEW m \in Messages, NEW at \in 1..MaxClock, NEW caught \in BOOLEAN,
             Arrive(m, at, caught)
      PROVE  HoldInv'
  <2>1. m \notin promised
    BY <1>1 DEF Arrive, HoldInv, KeptBack
  <2>2. \A n \in promised : n \in Messages /\ rows'[n] = rows[n] /\ received'[n] = received[n]
    BY <1>1, <2>1 DEF Arrive, Insert, TypeOK, Tables
  <2>3. ClockInv'
    BY <1>1 DEF Arrive, HoldInv, ClockInv, TypeOK, Times
  <2>4. \A n \in promised' : KeptBack(n)'
    BY <1>1, <2>2 DEF Arrive, HoldInv, KeptBack, Settled, InWindow, passVars, serverVars
  <2>5. \A p \in Passes : WindowOf(p)'
    BY <1>1, <2>2 DEF Arrive, HoldInv, WindowOf, Settled, passVars
  <2> QED
    BY <2>3, <2>4, <2>5 DEF HoldInv
<1>2. ASSUME NEW url, NEW key, SaveConnection(url, key) PROVE HoldInv'
  BY <1>2, HoldFrame DEF SaveConnection, passVars, TypeOK, Settings, HoldInv, KeptBack
<1>3. ASSUME PauseSync PROVE HoldInv'
  <2>1. ClockInv'
    BY <1>3 DEF PauseSync, HoldInv, ClockInv, TypeOK, Settings, Times
  <2>2. \A m \in promised' : KeptBack(m)'
    BY <1>3
       DEF PauseSync, HoldInv, KeptBack, Settled, InWindow, TypeOK, Settings, passVars, serverVars
  <2>3. \A p \in Passes : WindowOf(p)'
    BY <1>3 DEF PauseSync, HoldInv, WindowOf, Settled, TypeOK, Settings, passVars
  <2> QED
    BY <2>1, <2>2, <2>3 DEF HoldInv
<1>4. ASSUME ResumeSync, HoldConditions PROVE HoldInv'
  <2>1. \A p \in Passes : pc[p] = "idle"
    BY <1>4 DEF ResumeSync, HoldConditions, ResumeBetweenPasses, TypeOK, Settings
  <2>2. ClockInv'
    BY <1>4 DEF ResumeSync, HoldInv, ClockInv, TypeOK, Settings, Times
  <2>3. \A p \in Passes : WindowOf(p)'
    BY <1>4, <2>1 DEF ResumeSync, WindowOf, ToWindow, PastWindow, passVars
  <2>4. CASE settings.excludePaused
    <3>1. /\ settings'.from = settings.pausedSince
          /\ settings'.to = clock
          /\ promised' = promised \cup PausedSession
          /\ UNCHANGED <<rows, received, batch, committed, late>>
      BY <1>4, <2>4 DEF ResumeSync, TypeOK, Settings, passVars, serverVars
    <3>2. settings.from = 0 /\ settings.pausedSince > 0
      BY <1>4, <3>1
         DEF ResumeSync, HoldConditions, WindowAppliedFirst, HoldInv, ClockInv, TypeOK, Settings,
             Times
    <3>3. \A m \in promised : Settled(m)
      BY <3>2 DEF HoldInv, KeptBack, InWindow
    <3>4. ASSUME NEW m \in PausedSession PROVE KeptBack(m)'
      BY <3>1, <3>2
         DEF PausedSession, KeptBack, InWindow, HoldInv, ClockInv, TypeOK, Times, Settings
    <3>5. ASSUME NEW m \in promised PROVE KeptBack(m)'
      BY <3>1, <3>3 DEF HoldInv, KeptBack, Settled
    <3> QED
      BY <2>2, <2>3, <3>1, <3>4, <3>5 DEF HoldInv
  <2>5. CASE ~settings.excludePaused
    <3>1. /\ settings'.from = settings.from
          /\ settings'.to = settings.to
          /\ UNCHANGED <<rows, received, batch, committed, late, promised>>
      BY <1>4, <2>5 DEF ResumeSync, TypeOK, Settings, passVars, serverVars
    <3>2. \A m \in promised' : KeptBack(m)'
      BY <3>1 DEF HoldInv, KeptBack, Settled, InWindow
    <3> QED
      BY <2>2, <2>3, <3>2 DEF HoldInv
  <2> QED
    BY <2>4, <2>5
<1>5. ASSUME NEW on, SetExcludePausedMessages(on) PROVE HoldInv'
  BY <1>5, HoldFrame
     DEF SetExcludePausedMessages, passVars, serverVars, TypeOK, Settings, HoldInv, KeptBack
<1>6. ForgetDevice => HoldInv'
  BY HoldFrame DEF ForgetDevice, passVars, serverVars, HoldInv, KeptBack
<1>7. Administer => HoldInv'
  BY HoldFrame DEF Administer, SetEnrolment, ServerReset, phoneVars, passVars, HoldInv, KeptBack
<1>8. LateIngest => HoldInv'
  BY HoldFrame DEF LateIngest, phoneVars, passVars, HoldInv, KeptBack
<1> QED
  BY <1>1, <1>2, <1>3, <1>4, <1>5, <1>6, <1>7, <1>8 DEF UserStep

\* A pass up to the window, and the window itself.
LEMMA OpeningHold ==
    ASSUME TypeOK, AckedIsStored, HoldInv, NEW p \in Passes
    PROVE  /\ StartPass(p) => HoldInv'
           /\ \A m \in Messages : SweepStores(p, m) => HoldInv'
           /\ SweepEnds(p) /\ HoldConditions => HoldInv'
           /\ Requeue(p) => HoldInv'
           /\ ApplyWindow(p) => HoldInv'
           /\ ClearExclusionWindow(p) => HoldInv'
<1>1. ASSUME StartPass(p) PROVE HoldInv'
  <2>1. ClockInv' /\ \A m \in promised' : KeptBack(m)'
    BY <1>1
       DEF StartPass, phoneVars, serverVars, HoldInv, ClockInv, KeptBack, Settled, InWindow
  <2>2. \A q \in Passes : WindowOf(q)'
    BY <1>1
       DEF StartPass, Goto, phoneVars, TypeOK, HoldInv, WindowOf, Settled, ToWindow, PastWindow
  <2> QED
    BY <2>1, <2>2 DEF HoldInv
<1>2. ASSUME NEW m \in Messages, SweepStores(p, m) PROVE HoldInv'
  <2>1. \A n \in promised : /\ n \in Messages
                            /\ Settled(n) => rows'[n] = rows[n]
                            /\ rows'[n] = rows[n] \/ rows'[n] = "PENDING"
    BY <1>2, PromisedRow DEF SweepStores, Insert, Settled, NoRow, TypeOK, Tables
  <2>2. ClockInv' /\ \A n \in promised' : KeptBack(n)'
    BY <1>2, <2>1
       DEF SweepStores, passVars, serverVars, HoldInv, ClockInv, KeptBack, Settled, InWindow
  <2>3. \A q \in Passes : WindowOf(q)'
    BY <1>2, <2>1 DEF SweepStores, passVars, HoldInv, WindowOf, Settled
  <2> QED
    BY <2>2, <2>3 DEF HoldInv
<1>3. ASSUME SweepEnds(p), HoldConditions PROVE HoldInv'
  <2>1. \A m \in promised : rows[m] # "ABSENT"
    BY <1>3, PromisedRow DEF HoldConditions, SweepsComplete, HoldInv, KeptBack, NoRow
  <2>2. ClockInv' /\ \A m \in promised' : KeptBack(m)'
    BY <1>3 DEF SweepEnds, phoneVars, serverVars, HoldInv, ClockInv, KeptBack, Settled, InWindow
  <2>3. \A q \in Passes : WindowOf(q)'
    BY <1>3, <2>1
       DEF SweepEnds, Goto, phoneVars, TypeOK, HoldInv, WindowOf, Settled, ToWindow, PastWindow
  <2> QED
    BY <2>2, <2>3 DEF HoldInv
<1>4. ASSUME Requeue(p) PROVE HoldInv'
  <2>1. \A m \in promised : /\ rows[m] # "UPLOADING" => rows'[m] = rows[m]
                            /\ rows[m] = "UPLOADING" => rows'[m] = "PENDING"
    BY <1>4, PromisedRow DEF Requeue, RequeueStranded, SetStatus, NoRow, TypeOK, Tables
  <2>2. ClockInv' /\ \A m \in promised' : KeptBack(m)'
    BY <1>4, <2>1 DEF Requeue, serverVars, HoldInv, ClockInv, KeptBack, Settled, InWindow
  <2>3. ~(config[p].from > 0 /\ config[p].to > 0) => settings.from = 0
    BY <1>4
       DEF Requeue, HoldInv, ClockInv, WindowOf, ToWindow, TypeOK, Settings, Times
  <2>4. \A q \in Passes \ {p} : WindowOf(q)'
    BY <1>4, <2>1 DEF Requeue, Goto, TypeOK, HoldInv, WindowOf, Settled
  <2>5. WindowOf(p)'
    BY <1>4, <2>1, <2>3
       DEF Requeue, Goto, TypeOK, HoldInv, WindowOf, Settled, ToWindow, PastWindow
  <2> QED
    BY <2>2, <2>4, <2>5 DEF HoldInv
<1>5. ASSUME ApplyWindow(p) PROVE HoldInv'
  <2>1. ASSUME NEW m \in promised PROVE rows'[m] \in {"EXCLUDED", "QUARANTINED"}
    <3>1. m \in Messages /\ rows[m] \notin {"SYNCED", "PRUNED", "ABSENT", "UPLOADING"}
      BY <1>5, PromisedRow DEF ApplyWindow, HoldInv, WindowOf
    <3>2. CASE Settled(m)
      BY <1>5, <3>1, <3>2, SetStatusOutside
         DEF ApplyWindow, ExcludeReceivedBetween, Queued, Settled, TypeOK
    <3>3. CASE ~Settled(m)
      <4>1. /\ m \in Queued(rows)
            /\ rows[m] \notin NoRow
        BY <3>1, <3>3 DEF Settled, Queued, NoRow, TypeOK, Tables, SyncStatus
      <4>2. config[p].from <= received[m] /\ received[m] <= config[p].to
        BY <1>5, <3>3 DEF ApplyWindow, HoldInv, KeptBack, InWindow, WindowOf, ToWindow
      <4> QED
        BY <1>5, <3>1, <4>1, <4>2
           DEF ApplyWindow, ExcludeReceivedBetween, SetStatus
    <3> QED
      BY <3>2, <3>3
  <2>2. ClockInv' /\ \A m \in promised' : KeptBack(m)'
    BY <1>5, <2>1 DEF ApplyWindow, serverVars, HoldInv, ClockInv, KeptBack, Settled
  <2>3. \A q \in Passes : WindowOf(q)'
    BY <1>5, <2>1
       DEF ApplyWindow, Goto, TypeOK, HoldInv, WindowOf, Settled, ToWindow, PastWindow
  <2> QED
    BY <2>2, <2>3 DEF HoldInv
<1>6. ASSUME ClearExclusionWindow(p) PROVE HoldInv'
  <2>1. settings'.from = 0 /\ settings'.to = 0 /\ settings'.enabled = settings.enabled
        /\ settings'.pausedSince = settings.pausedSince
    BY <1>6 DEF ClearExclusionWindow, TypeOK, Settings
  <2>2. \A m \in promised : Settled(m)
    BY <1>6 DEF ClearExclusionWindow, HoldInv, WindowOf
  <2>3. ClockInv'
    BY <1>6, <2>1 DEF ClearExclusionWindow, HoldInv, ClockInv, TypeOK, Settings, Times
  <2>4. \A m \in promised' : KeptBack(m)'
    BY <1>6, <2>2 DEF ClearExclusionWindow, serverVars, HoldInv, KeptBack, Settled
  <2>5. \A q \in Passes : WindowOf(q)'
    BY <1>6, <2>1, <2>2
       DEF ClearExclusionWindow, Goto, TypeOK, HoldInv, WindowOf, Settled, ToWindow, PastWindow
  <2> QED
    BY <2>3, <2>4, <2>5 DEF HoldInv
<1> QED
  BY <1>1, <1>2, <1>3, <1>4, <1>5, <1>6

\* HoldFrame, for a step of one pass that is past the window and stays so or ends.
LEMMA HoldPast ==
    ASSUME TypeOK, HoldInv, NEW p \in Passes,
           pc[p] \in PastWindow, NEW stage \in PastWindow \cup {"idle"}, Goto(p, stage),
           settings'.from = settings.from, settings'.to = settings.to,
           settings'.enabled = settings.enabled,
           settings'.pausedSince = settings.pausedSince,
           UNCHANGED <<received, clock, promised>>,
           \A q \in Passes \ {p} : config'[q] = config[q],
           \A m \in promised : /\ rows'[m] = rows[m]
                               /\ m \notin committed' \cup late'
                               /\ \A q \in Passes : m \notin batch'[q]
    PROVE  HoldInv'
<1>1. \A q \in Passes : \/ pc'[q] = pc[q] /\ config'[q] = config[q]
                        \/ pc'[q] = "idle"
                        \/ pc[q] \in PastWindow /\ pc'[q] \in PastWindow
  BY DEF Goto, TypeOK
<1> QED
  BY <1>1, HoldFrame

LEMMA NotTaken ==
    ASSUME HoldInv, NEW m \in promised
    PROVE  m \notin committed \cup late /\ \A p \in Passes : m \notin batch[p]
BY DEF HoldInv, KeptBack

\* A pass past the window: the steps that change no row.
LEMMA QuietHold ==
    ASSUME TypeOK, AckedIsStored, HoldInv, NEW p \in Passes
    PROVE  /\ AlreadyRegistered(p) \/ AskToRegister(p) \/ StoreDevice(p) => HoldInv'
           /\ ClearEnrolmentCode(p) => HoldInv'
           /\ NoSetupKey(p) \/ RegistrationFails(p) => HoldInv'
           /\ ServerRegisters(p) \/ ServerRefusesRegistration(p) => HoldInv'
           /\ Select(p) => HoldInv'
           /\ ServerStores(p) \/ ServerRefusesUpload(p) \/ LoseCall(p) => HoldInv'
           /\ CheckIn(p) \/ CheckInEnds(p) \/ DropDevice(p) => HoldInv'
           /\ StopPass(p) => HoldInv'
<1>1. AlreadyRegistered(p) \/ AskToRegister(p) \/ StoreDevice(p) => HoldInv'
  BY HoldPast, NotTaken
     DEF AlreadyRegistered, AskToRegister, StoreDevice, PastWindow, ToWindow, Stages,
         phoneVars, serverVars
<1>2. ASSUME ClearEnrolmentCode(p) PROVE HoldInv'
  <2>1. /\ settings'.from = settings.from
        /\ settings'.to = settings.to
        /\ settings'.enabled = settings.enabled
        /\ settings'.pausedSince = settings.pausedSince
    BY <1>2 DEF ClearEnrolmentCode, TypeOK, Settings
  <2> QED
    BY <1>2, <2>1, HoldPast, NotTaken
       DEF ClearEnrolmentCode, PastWindow, ToWindow, Stages, serverVars
<1>3. ASSUME NoSetupKey(p) \/ RegistrationFails(p) \/ CheckInEnds(p) \/ DropDevice(p)
      PROVE  HoldInv'
  <2>1. /\ Goto(p, "idle")
        /\ \A q \in Passes \ {p} : config'[q] = config[q]
        /\ \A q \in Passes : batch'[q] \subseteq batch[q]
    BY <1>3 DEF NoSetupKey, RegistrationFails, CheckInEnds, DropDevice, Return, TypeOK
  <2> QED
    BY <1>3, <2>1, HoldPast, NotTaken
       DEF NoSetupKey, RegistrationFails, CheckInEnds, DropDevice, PastWindow, ToWindow, Stages,
           phoneVars, serverVars
<1>4. ServerRegisters(p) \/ ServerRefusesRegistration(p) => HoldInv'
  BY HoldFrame, NotTaken DEF ServerRegisters, ServerRefusesRegistration, phoneVars, serverVars
<1>5. ASSUME Select(p) PROVE HoldInv'
  <2>1. PICK ids \in PendingBatches(rows, received, limit[p]) :
            /\ batch' = [batch EXCEPT ![p] = ids]
            /\ Goto(p, IF ids = {} THEN "prune" ELSE "mark")
    BY <1>5 DEF Select
  <2>2. pc[p] \in PastWindow /\ {"prune", "mark"} \subseteq PastWindow
    BY <1>5 DEF Select, PastWindow, ToWindow, Stages
  <2>3. \A m \in promised : Settled(m)
    BY <2>2 DEF HoldInv, KeptBack, InWindow, WindowOf
  <2>4. \A m \in promised : m \notin ids
    BY <2>1, <2>3, BatchIsQueued DEF Settled, Queued
  <2>5. \A m \in promised, q \in Passes : m \notin batch'[q]
    BY <2>1, <2>4, NotTaken DEF TypeOK
  <2> QED
    BY <1>5, <2>1, <2>2, <2>5, HoldPast, NotTaken DEF Select, phoneVars, serverVars
<1>6. ServerStores(p) => HoldInv'
  BY HoldFrame, NotTaken DEF ServerStores, phoneVars
<1>7. ServerRefusesUpload(p) => HoldInv'
  BY HoldFrame, NotTaken DEF ServerRefusesUpload, phoneVars, serverVars
<1>8. LoseCall(p) => HoldInv'
  BY HoldFrame, NotTaken DEF LoseCall, Abandoned, phoneVars
<1>9. CheckIn(p) => HoldInv'
  BY HoldPast, NotTaken DEF CheckIn, PastWindow, ToWindow, Stages, phoneVars, serverVars
<1>10. ASSUME StopPass(p) PROVE HoldInv'
  <2>1. /\ \A q \in Passes : batch'[q] \subseteq batch[q]
        /\ \A q \in Passes : pc'[q] = "idle" \/ (pc'[q] = pc[q] /\ config'[q] = config[q])
    BY <1>10 DEF StopPass, Return, Goto, TypeOK
  <2>2. committed' = committed /\ late' \subseteq late \cup batch[p]
    BY <1>10 DEF StopPass, Abandoned
  <2> QED
    BY <1>10, <2>1, <2>2, HoldFrame, NotTaken DEF StopPass, phoneVars
<1> QED
  BY <1>1, <1>2, <1>3, <1>4, <1>5, <1>6, <1>7, <1>8, <1>9, <1>10

\* A pass past the window: the steps that settle its batch, or prune.
LEMMA BatchHold ==
    ASSUME TypeOK, AckedIsStored, HoldInv, NEW p \in Passes
    PROVE  /\ Upload(p) => HoldInv'
           /\ TakeStored(p) \/ TakeVerdicts(p) => HoldInv'
           /\ \A m \in Messages : QuarantineRefused(p, m) => HoldInv'
           /\ Isolate(p) \/ QuarantineIsolated(p) => HoldInv'
           /\ UploadFails(p) \/ UploadUnauthorized(p) => HoldInv'
           /\ Prune(p) => HoldInv'
<1>1. ASSUME Upload(p) PROVE HoldInv'
  <2>1. \A m \in promised : rows'[m] = rows[m]
    BY <1>1, PromisedRow DEF Upload, MarkUploading, TypeOK
  <2> QED
    BY <1>1, <2>1, HoldPast, NotTaken DEF Upload, PastWindow, ToWindow, Stages, serverVars
<1>2. ASSUME TakeStored(p) \/ TakeVerdicts(p) PROVE HoldInv'
  <2>1. \A m \in promised : rows'[m] = rows[m]
    BY <1>2, PromisedRow DEF TakeStored, TakeVerdicts, MarkSynced, TypeOK
  <2>2. \A q \in Passes : batch'[q] \subseteq batch[q]
    BY <1>2 DEF TakeStored, TakeVerdicts, NextBatch, TypeOK
  <2> QED
    BY <1>2, <2>1, <2>2, HoldPast, NotTaken
       DEF TakeStored, TakeVerdicts, NextBatch, PastWindow, ToWindow, Stages, serverVars
<1>3. ASSUME NEW m \in Messages, QuarantineRefused(p, m) PROVE HoldInv'
  <2>1. \A n \in promised : rows'[n] = rows[n]
    BY <1>3, PromisedRow DEF QuarantineRefused, Quarantine, TypeOK
  <2>2. \A q \in Passes : batch'[q] \subseteq batch[q]
    BY <1>3 DEF QuarantineRefused, TypeOK
  <2> QED
    BY <1>3, <2>1, <2>2, HoldPast, NotTaken
       DEF QuarantineRefused, PastWindow, ToWindow, Stages, serverVars
<1>4. ASSUME Isolate(p) \/ QuarantineIsolated(p) PROVE HoldInv'
  <2>1. \A m \in promised : rows'[m] = rows[m]
    BY <1>4, PromisedRow DEF Isolate, QuarantineIsolated, MarkFailed, Quarantine, TypeOK
  <2>2. \A q \in Passes : batch'[q] \subseteq batch[q]
    BY <1>4 DEF Isolate, QuarantineIsolated, NextBatch, TypeOK
  <2> QED
    BY <1>4, <2>1, <2>2, HoldPast, NotTaken
       DEF Isolate, QuarantineIsolated, NextBatch, PastWindow, ToWindow, Stages, serverVars
<1>5. ASSUME UploadFails(p) \/ UploadUnauthorized(p) PROVE HoldInv'
  <2>1. \A m \in promised : rows'[m] = rows[m]
    BY <1>5, PromisedRow DEF UploadFails, UploadUnauthorized, MarkFailed, TypeOK
  <2>2. /\ \A q \in Passes : batch'[q] \subseteq batch[q]
        /\ \A q \in Passes \ {p} : config'[q] = config[q]
        /\ Goto(p, "idle") \/ Goto(p, "drop_device")
    BY <1>5 DEF UploadFails, UploadUnauthorized, Return, TypeOK
  <2> QED
    BY <1>5, <2>1, <2>2, HoldPast, NotTaken
       DEF UploadFails, UploadUnauthorized, PastWindow, ToWindow, Stages, serverVars
<1>6. ASSUME Prune(p) PROVE HoldInv'
  <2>1. \A m \in promised : rows'[m] = rows[m]
    BY <1>6, PromisedRow DEF Prune
  <2> QED
    BY <1>6, <2>1, HoldPast, NotTaken DEF Prune, PastWindow, ToWindow, Stages, serverVars
<1> QED
  BY <1>1, <1>2, <1>3, <1>4, <1>5, <1>6

LEMMA NextHold ==
    TypeOK /\ AckedIsStored /\ HoldInv /\ [Next /\ HoldConditions]_vars => HoldInv'
<1> SUFFICES ASSUME TypeOK, AckedIsStored, HoldInv, [Next /\ HoldConditions]_vars
             PROVE  HoldInv'
  OBVIOUS
<1>1. CASE UNCHANGED vars
  BY <1>1 DEF vars, HoldInv, ClockInv, KeptBack, WindowOf, Settled, InWindow
<1>2. ASSUME NEW m \in Messages, NEW at \in 1..MaxClock, NEW caught \in BOOLEAN,
             Arrive(m, at, caught)
      PROVE  HoldInv'
  BY <1>2, EnvironmentHold
<1>3. CASE (UserStep \/ Administer \/ LateIngest) /\ HoldConditions
  BY <1>3, EnvironmentHold
<1>4. ASSUME NEW p \in Passes, PassStep(p), HoldConditions PROVE HoldInv'
  BY <1>4, OpeningHold, QuietHold, BatchHold DEF PassStep
<1>5. ASSUME NEW p \in Passes, ServerStep(p) \/ LoseCall(p) \/ StopPass(p) PROVE HoldInv'
  BY <1>5, QuietHold DEF ServerStep
<1>6. ASSUME NEW p \in Passes,
             StartPass(p) \/ \E m \in Messages : SweepStores(p, m)
      PROVE  HoldInv'
  BY <1>6, OpeningHold
<1> QED
  BY <1>1, <1>2, <1>3, <1>4, <1>5, <1>6 DEF Next

\* Under HoldConditions no message the user was promised would be held back is
\* ever put into a request, for any number of chains, pauses and crashes: the
\* window a resume leaves covers all of them, and no pass takes a batch before a
\* pass has applied it to every row.
THEOREM PausedSessionIsAlwaysHeld ==
    Spec /\ [][HoldConditions]_vars => PausedSessionIsHeld
<1>1. TypeOK /\ AckedIsStored /\ HoldInv /\ [Next]_vars /\ [HoldConditions]_vars => HoldInv'
  BY NextHold
<1>2. HoldInv => [\A m \in promised : ~Uploads(m)]_vars
  BY DEF HoldInv, KeptBack, Uploads
<1> QED
  BY <1>1, <1>2, InitHold, TypeCorrect, AckedIsAlwaysStored, PTL
     DEF Spec, PausedSessionIsHeld

\* No server ever has it, either: neither answered, nor after its call was given up.
THEOREM PromisedNeverLeavesPhone ==
    Spec /\ [][HoldConditions]_vars => [](promised \cap (committed \cup late) = {})
<1>1. TypeOK /\ AckedIsStored /\ HoldInv /\ [Next]_vars /\ [HoldConditions]_vars => HoldInv'
  BY NextHold
<1>2. HoldInv => promised \cap (committed \cup late) = {}
  BY DEF HoldInv, KeptBack
<1> QED
  BY <1>1, <1>2, InitHold, TypeCorrect, AckedIsAlwaysStored, PTL DEF Spec

-----------------------------------------------------------------------------
(* EXCLUDED and SYNCED are final for a message in no pass's hands, however    *)
(* many chains there are: no statement that picks its rows by status reaches  *)
(* such a row, and no pass selects it.                                        *)

\* The statements that pick rows by status, and those that name a batch.
LEMMA FinalRow ==
    ASSUME TypeOK, NEW m \in Messages, rows[m] \in {"EXCLUDED", "SYNCED"}, Unclaimed(m)
    PROVE  /\ \A n \in Messages : Insert(rows, n)[m] = rows[m]
           /\ RequeueStranded(rows)[m] = rows[m]
           /\ \A from, to : ExcludeReceivedBetween(rows, received, from, to)[m] = rows[m]
           /\ \A expired : DeleteSyncedBefore(rows, expired)[m] \in
                  {rows[m]} \cup (IF rows[m] = "SYNCED" THEN {"PRUNED"} ELSE {})
           /\ \A p \in Passes : \A ids, status : ids \subseteq batch[p] =>
                  SetStatus(rows, ids, status)[m] = rows[m]
BY DEF Insert, NoRow, Tables, RequeueStranded, ExcludeReceivedBetween, DeleteSyncedBefore,
       SetStatus, Queued, Unclaimed, TypeOK

FinalStays(m) ==
    rows'[m] = rows[m] \/ (rows[m] = "SYNCED" /\ rows'[m] = "PRUNED")

LEMMA TableStatements ==
    ASSUME TypeOK, [Next]_vars, NEW m \in Messages, rows[m] \in {"EXCLUDED", "SYNCED"},
           Unclaimed(m)
    PROVE  FinalStays(m)
<1>1. CASE UserStep \/ Administer \/ LateIngest \/ UNCHANGED vars
  BY <1>1 DEF UserStep, SaveConnection, PauseSync, ResumeSync, SetExcludePausedMessages,
              ForgetDevice, Administer, SetEnrolment, ServerReset, LateIngest, phoneVars, vars,
              FinalStays
<1>2. CASE \E n \in Messages, at \in 1..MaxClock, caught \in BOOLEAN : Arrive(n, at, caught)
  BY <1>2, FinalRow DEF Arrive, FinalStays
<1>3. ASSUME NEW p \in Passes,
             \/ StartPass(p) \/ ServerStep(p) \/ LoseCall(p) \/ StopPass(p)
             \/ \E n \in Messages : SweepStores(p, n)
      PROVE  FinalStays(m)
  BY <1>3, FinalRow
     DEF StartPass, ServerStep, ServerRegisters, ServerRefusesRegistration, ServerStores,
         ServerRefusesUpload, LoseCall, StopPass, SweepStores, phoneVars, FinalStays
<1>4. ASSUME NEW p \in Passes, PassStep(p) PROVE FinalStays(m)
  <2>1. CASE \/ SweepEnds(p) \/ ClearExclusionWindow(p) \/ AlreadyRegistered(p)
             \/ NoSetupKey(p) \/ AskToRegister(p) \/ StoreDevice(p)
             \/ ClearEnrolmentCode(p) \/ RegistrationFails(p) \/ Select(p)
             \/ DropDevice(p) \/ CheckIn(p) \/ CheckInEnds(p)
    BY <2>1 DEF SweepEnds, ClearExclusionWindow, AlreadyRegistered, NoSetupKey, AskToRegister,
                StoreDevice, ClearEnrolmentCode, RegistrationFails, Select, DropDevice,
                CheckIn, CheckInEnds, phoneVars, FinalStays
  <2>2. CASE Requeue(p) \/ ApplyWindow(p)
    BY <2>2, FinalRow DEF Requeue, ApplyWindow, FinalStays
  <2>3. CASE Prune(p)
    BY <2>3, FinalRow DEF Prune, FinalStays
  <2>4. CASE \/ Upload(p) \/ TakeStored(p) \/ TakeVerdicts(p)
             \/ \E n \in Messages : QuarantineRefused(p, n)
             \/ Isolate(p) \/ QuarantineIsolated(p)
             \/ UploadFails(p) \/ UploadUnauthorized(p)
    <3>1. \E ids \in SUBSET batch[p] : \E status : rows' = SetStatus(rows, ids, status)
      BY <2>4 DEF Upload, TakeStored, TakeVerdicts, QuarantineRefused, Isolate,
                  QuarantineIsolated, UploadFails, UploadUnauthorized,
                  MarkUploading, MarkSynced, MarkFailed, Quarantine
    <3> QED
      BY <3>1, FinalRow DEF FinalStays
  <2> QED
    BY <1>4, <2>1, <2>2, <2>3, <2>4 DEF PassStep
<1> QED
  BY <1>1, <1>2, <1>3, <1>4 DEF Next

\* A batch takes up nothing but queued messages.
LEMMA BatchesTakeQueued ==
    ASSUME TypeOK, [Next]_vars, NEW q \in Passes
    PROVE  batch'[q] \subseteq batch[q] \cup Queued(rows)
<1>1. CASE UserStep \/ Administer \/ LateIngest \/ UNCHANGED vars
  BY <1>1 DEF UserStep, SaveConnection, PauseSync, ResumeSync, SetExcludePausedMessages,
              ForgetDevice, Administer, SetEnrolment, ServerReset, LateIngest, passVars, vars
<1>2. CASE \E n \in Messages, at \in 1..MaxClock, caught \in BOOLEAN : Arrive(n, at, caught)
  BY <1>2 DEF Arrive, passVars
<1>3. ASSUME NEW p \in Passes,
             \/ StartPass(p) \/ ServerStep(p) \/ LoseCall(p) \/ StopPass(p)
             \/ \E n \in Messages : SweepStores(p, n)
      PROVE  batch'[q] \subseteq batch[q]
  BY <1>3 DEF StartPass, ServerStep, ServerRegisters, ServerRefusesRegistration, ServerStores,
              ServerRefusesUpload, LoseCall, StopPass, Return, SweepStores, passVars, TypeOK
<1>4. ASSUME NEW p \in Passes, PassStep(p)
      PROVE  batch'[q] \subseteq batch[q] \cup Queued(rows)
  <2>1. CASE \/ SweepEnds(p) \/ Requeue(p) \/ ApplyWindow(p) \/ ClearExclusionWindow(p)
             \/ AlreadyRegistered(p) \/ AskToRegister(p) \/ StoreDevice(p)
             \/ ClearEnrolmentCode(p) \/ Upload(p) \/ Prune(p) \/ CheckIn(p)
    BY <2>1 DEF SweepEnds, Requeue, ApplyWindow, ClearExclusionWindow, AlreadyRegistered,
                AskToRegister, StoreDevice, ClearEnrolmentCode, Upload, Prune, CheckIn
  <2>2. CASE Select(p)
    BY <2>2, BatchIsQueued DEF Select, TypeOK
  <2>3. CASE NoSetupKey(p) \/ RegistrationFails(p) \/ UploadFails(p) \/ DropDevice(p)
             \/ CheckInEnds(p)
    BY <2>3 DEF NoSetupKey, RegistrationFails, UploadFails, DropDevice, CheckInEnds, Return, TypeOK
  <2>4. CASE \/ TakeStored(p) \/ TakeVerdicts(p) \/ \E n \in Messages : QuarantineRefused(p, n)
             \/ Isolate(p) \/ QuarantineIsolated(p) \/ UploadUnauthorized(p)
    BY <2>4 DEF TakeStored, TakeVerdicts, QuarantineRefused, Isolate, QuarantineIsolated,
                UploadUnauthorized, NextBatch, TypeOK
  <2> QED
    BY <1>4, <2>1, <2>2, <2>3, <2>4 DEF PassStep
<1> QED
  BY <1>1, <1>2, <1>3, <1>4 DEF Next

LEMMA StaysUnclaimed ==
    ASSUME TypeOK, [Next]_vars, NEW m \in Messages, rows[m] \in {"EXCLUDED", "SYNCED"},
           Unclaimed(m)
    PROVE  Unclaimed(m)'
<1>1. m \notin Queued(rows)
  BY DEF Queued
<1> QED
  BY <1>1, BatchesTakeQueued DEF Unclaimed

\* For any number of chains: a message held back from a paused session stays held
\* back, and no pass ever takes it up, unless one already had when it was held back.
THEOREM HeldBackIsFinal == Spec => HeldBackStaysHeld
<1>1. TypeOK /\ [Next]_vars =>
        [\A m \in Messages : rows[m] = "EXCLUDED" /\ Unclaimed(m) =>
              rows'[m] = "EXCLUDED" /\ Unclaimed(m)']_vars
  BY TableStatements, StaysUnclaimed DEF FinalStays
<1> QED
  BY <1>1, TypeCorrect, PTL DEF Spec, HeldBackStaysHeld

\* Likewise an acknowledged message: until its row is deleted it is not uploaded
\* again, unless the other chain had selected it before it was acknowledged.
THEOREM SyncedIsFinal ==
    Spec => [][\A m \in Messages : rows[m] = "SYNCED" /\ Unclaimed(m) =>
                  rows'[m] \in {"SYNCED", "PRUNED"} /\ Unclaimed(m)']_vars
<1>1. TypeOK /\ [Next]_vars =>
        [\A m \in Messages : rows[m] = "SYNCED" /\ Unclaimed(m) =>
              rows'[m] \in {"SYNCED", "PRUNED"} /\ Unclaimed(m)']_vars
  BY TableStatements, StaysUnclaimed DEF FinalStays
<1> QED
  BY <1>1, TypeCorrect, PTL DEF Spec

\* The messages the user was promised are in no pass's hands when they are held
\* back, so for them there is no exception.
THEOREM PromisedStaysHeldBack ==
    Spec /\ [][HoldConditions]_vars =>
        [][\A m \in promised : rows[m] = "EXCLUDED" => rows'[m] = "EXCLUDED"]_vars
<1>1. TypeOK /\ AckedIsStored /\ HoldInv /\ [Next]_vars /\ [HoldConditions]_vars => HoldInv'
  BY NextHold
<1>2. TypeOK /\ HoldInv /\ [Next]_vars =>
          [\A m \in promised : rows[m] = "EXCLUDED" => rows'[m] = "EXCLUDED"]_vars
  BY TableStatements DEF FinalStays, HoldInv, KeptBack, Unclaimed, TypeOK
<1> QED
  BY <1>1, <1>2, InitHold, TypeCorrect, AckedIsAlwaysStored, PTL DEF Spec

-----------------------------------------------------------------------------
(* A pass that is about to drop the device row authenticates as a device the *)
(* server has forgotten, and what it has forgotten it does not learn again.  *)
(* The row itself may have become the other chain's new registration.        *)

\* The stages of a pass that holds a device token.
WithToken == {"clear_code", "select", "mark", "uploading", "quarantine", "prune",
              "check_in", "heartbeat", "drop_device"}

Rejected(p) == pc[p] = "drop_device" \/ (pc[p] = "uploading" /\ reply[p] = "unauthorized")

DeviceOf(p) ==
    /\ pc[p] = "registering" => config[p].key > 0
    /\ pc[p] \in WithToken => token[p] > 0
    /\ Rejected(p) => enrolment[token[p]] = "forgotten"

DeviceInv == \A p \in Passes : DeviceOf(p)

DropsRejected ==
    device > 0 /\ device' = 0 /\ ~ForgetDevice =>
        \E p \in Passes : pc[p] = "drop_device" /\ enrolment[token[p]] = "forgotten"

\* What the server has forgotten stays so.
Lasting == \A c \in Codes : enrolment[c] = "forgotten" => enrolment'[c] = "forgotten"

LEMMA InitDevice == Init => DeviceInv
BY DEF Init, DeviceInv, DeviceOf, WithToken, Rejected

\* A pass no step has moved.
LEMMA StillDevice ==
    ASSUME TypeOK, DeviceInv, Lasting, NEW p \in Passes,
           pc'[p] = pc[p], config'[p] = config[p], token'[p] = token[p], reply'[p] = reply[p]
    PROVE  DeviceOf(p)'
<1>1. DeviceOf(p)
  BY DEF DeviceInv
<1>2. Rejected(p) => token[p] \in Codes
  BY <1>1 DEF DeviceOf, Rejected, WithToken, TypeOK, Codes
<1> QED
  BY <1>1, <1>2 DEF DeviceOf, Rejected, Lasting

\* Outside the passes, the phone can only forget the row.
LEMMA OutsideDevice ==
    ASSUME TypeOK, DeviceInv, Lasting, UNCHANGED <<pc, config, token, reply>>,
           device' = device \/ ForgetDevice
    PROVE  DeviceInv' /\ DropsRejected
<1>1. DeviceInv'
  BY StillDevice DEF DeviceInv
<1>2. DropsRejected
  BY DEF DropsRejected, TypeOK
<1> QED
  BY <1>1, <1>2

LEMMA EnvironmentDevice ==
    ASSUME TypeOK, DeviceInv
    PROVE  /\ \A m \in Messages, at \in 1..MaxClock, caught \in BOOLEAN :
                  Arrive(m, at, caught) => DeviceInv' /\ DropsRejected
           /\ UserStep => DeviceInv' /\ DropsRejected
           /\ Administer => DeviceInv' /\ DropsRejected
           /\ LateIngest => DeviceInv' /\ DropsRejected
<1>1. ASSUME NEW m \in Messages, NEW at \in 1..MaxClock, NEW caught \in BOOLEAN,
             Arrive(m, at, caught)
      PROVE  DeviceInv' /\ DropsRejected
  BY <1>1, OutsideDevice DEF Arrive, passVars, serverVars, Lasting
<1>2. ASSUME UserStep PROVE DeviceInv' /\ DropsRejected
  <2>1. ASSUME NEW url \in Urls, NEW key \in 0..MaxCodes, SaveConnection(url, key)
        PROVE  DeviceInv' /\ DropsRejected
    <3>1. Lasting
      BY <2>1 DEF SaveConnection, Lasting
    <3>2. device' = device /\ UNCHANGED <<pc, config, token, reply>>
      BY <2>1 DEF SaveConnection, passVars
    <3> QED
      BY <3>1, <3>2, OutsideDevice
  <2>2. PauseSync \/ ResumeSync => DeviceInv' /\ DropsRejected
    BY OutsideDevice DEF PauseSync, ResumeSync, passVars, serverVars, Lasting
  <2>3. ASSUME NEW on \in BOOLEAN, SetExcludePausedMessages(on)
        PROVE  DeviceInv' /\ DropsRejected
    BY <2>3, OutsideDevice DEF SetExcludePausedMessages, passVars, serverVars, Lasting
  <2>4. ForgetDevice => DeviceInv' /\ DropsRejected
    BY OutsideDevice DEF ForgetDevice, passVars, serverVars, Lasting
  <2> QED
    BY <1>2, <2>1, <2>2, <2>3, <2>4 DEF UserStep
<1>3. ASSUME Administer PROVE DeviceInv' /\ DropsRejected
  <2>1. ASSUME NEW c \in Codes, NEW from \in EnrolmentStates \ {"forgotten"}, NEW to,
               SetEnrolment(c, from, to)
        PROVE  DeviceInv' /\ DropsRejected
    <3>1. Lasting
      BY <2>1 DEF SetEnrolment, TypeOK, Lasting
    <3>2. device' = device /\ UNCHANGED <<pc, config, token, reply>>
      BY <2>1 DEF SetEnrolment, phoneVars, passVars
    <3> QED
      BY <3>1, <3>2, OutsideDevice
  <2>2. ASSUME ServerReset PROVE DeviceInv' /\ DropsRejected
    <3>1. Lasting
      BY <2>2 DEF ServerReset, Lasting
    <3>2. device' = device /\ UNCHANGED <<pc, config, token, reply>>
      BY <2>2 DEF ServerReset, phoneVars, passVars
    <3> QED
      BY <3>1, <3>2, OutsideDevice
  <2> QED
    BY <1>3, <2>1, <2>2 DEF Administer, EnrolmentStates
<1>4. LateIngest => DeviceInv' /\ DropsRejected
  BY OutsideDevice DEF LateIngest, phoneVars, passVars, Lasting
<1> QED
  BY <1>1, <1>2, <1>3, <1>4

\* The step of one pass leaves the others where they are.
Alone(p) ==
    \A q \in Passes \ {p} : /\ pc'[q] = pc[q] /\ config'[q] = config[q]
                            /\ token'[q] = token[q] /\ reply'[q] = reply[q]

\* A step of a pass after which it holds no token, or holds the one it had and has
\* not been rejected, or only now is, by a server that does not know it.
LEMMA PassDevice ==
    ASSUME TypeOK, DeviceInv, NEW p \in Passes, Alone(p),
           UNCHANGED <<device, enrolment>>,
           pc'[p] = "registering" => config'[p].key > 0,
           pc'[p] \in WithToken => pc[p] \in WithToken /\ token'[p] = token[p],
           Rejected(p)' => Rejected(p) \/ enrolment[token[p]] = "forgotten"
    PROVE  DeviceInv' /\ DropsRejected
<1>1. DeviceOf(p)
  BY DEF DeviceInv
<1>2. Rejected(p)' => pc'[p] \in WithToken
  BY DEF Rejected, WithToken
<1>3. DeviceOf(p)'
  BY <1>1, <1>2 DEF DeviceOf
<1>4. \A q \in Passes \ {p} : DeviceOf(q)'
  BY StillDevice DEF Alone, Lasting
<1>5. DropsRejected
  BY DEF DropsRejected, TypeOK
<1> QED
  BY <1>3, <1>4, <1>5 DEF DeviceInv

LEMMA RegistrationDevice ==
    ASSUME TypeOK, DeviceInv, NEW p \in Passes
    PROVE  /\ AlreadyRegistered(p) \/ StoreDevice(p) => DeviceInv' /\ DropsRejected
           /\ AskToRegister(p) \/ NoSetupKey(p) => DeviceInv' /\ DropsRejected
           /\ ServerRegisters(p) => DeviceInv' /\ DropsRejected
           /\ ServerRefusesRegistration(p) => DeviceInv' /\ DropsRejected
           /\ ClearEnrolmentCode(p) \/ RegistrationFails(p) => DeviceInv' /\ DropsRejected
<1>1. DeviceOf(p)
  BY DEF DeviceInv
<1>2. ASSUME AlreadyRegistered(p) PROVE DeviceInv' /\ DropsRejected
  <2>1. pc'[p] = "select" /\ token'[p] = device /\ device' = device /\ device > 0
    BY <1>2 DEF AlreadyRegistered, Goto, TypeOK, phoneVars
  <2>2. \A q \in Passes \ {p} : DeviceOf(q)'
    BY <1>2, StillDevice DEF AlreadyRegistered, Goto, TypeOK, Lasting, serverVars
  <2> QED
    BY <2>1, <2>2 DEF DeviceInv, DeviceOf, Rejected, DropsRejected
<1>3. ASSUME StoreDevice(p) PROVE DeviceInv' /\ DropsRejected
  <2>1. pc'[p] = "clear_code" /\ token'[p] = device' /\ device' = config[p].key
    BY <1>3 DEF StoreDevice, Goto, TypeOK
  <2>2. device' > 0 /\ device' # 0
    BY <1>1, <1>3, <2>1, ConstantsAssumption DEF StoreDevice, DeviceOf, TypeOK, Settings
  <2>3. \A q \in Passes \ {p} : DeviceOf(q)'
    BY <1>3, StillDevice DEF StoreDevice, Goto, Answer, TypeOK, Lasting, serverVars
  <2> QED
    BY <2>1, <2>2, <2>3 DEF DeviceInv, DeviceOf, Rejected, DropsRejected
<1>4. AskToRegister(p) \/ NoSetupKey(p) => DeviceInv' /\ DropsRejected
  BY PassDevice, ConstantsAssumption
     DEF AskToRegister, NoSetupKey, Return, Goto, Answer, TypeOK, Settings, Rejected, WithToken,
         Alone, phoneVars, serverVars
<1>5. ASSUME ServerRegisters(p) PROVE DeviceInv' /\ DropsRejected
  <2>1. pc' = pc /\ config' = config /\ token' = token /\ device' = device
        /\ pc[p] = "registering" /\ Lasting
    BY <1>5 DEF ServerRegisters, Lasting, TypeOK, phoneVars
  <2>2. \A q \in Passes \ {p} : DeviceOf(q)'
    BY <1>5, <2>1, StillDevice DEF ServerRegisters, Answer, TypeOK
  <2>3. DeviceOf(p)'
    BY <1>1, <2>1 DEF DeviceOf, Rejected, WithToken
  <2> QED
    BY <2>1, <2>2, <2>3 DEF DeviceInv, DropsRejected, TypeOK
<1>6. ServerRefusesRegistration(p) => DeviceInv' /\ DropsRejected
  BY <1>1, PassDevice
     DEF ServerRefusesRegistration, Answer, TypeOK, DeviceOf, Rejected, WithToken, Alone,
         phoneVars, serverVars
<1>7. ClearEnrolmentCode(p) \/ RegistrationFails(p) => DeviceInv' /\ DropsRejected
  BY PassDevice
     DEF ClearEnrolmentCode, RegistrationFails, Return, Goto, TypeOK, Rejected, WithToken,
         Alone, phoneVars, serverVars
<1> QED
  BY <1>2, <1>3, <1>4, <1>5, <1>6, <1>7

\* The steps before registration, and those that end a pass.
LEMMA EdgeDevice ==
    ASSUME TypeOK, DeviceInv, NEW p \in Passes
    PROVE  /\ StartPass(p) \/ SweepEnds(p) => DeviceInv' /\ DropsRejected
           /\ \A m \in Messages : SweepStores(p, m) => DeviceInv' /\ DropsRejected
           /\ Requeue(p) \/ ApplyWindow(p) => DeviceInv' /\ DropsRejected
           /\ ClearExclusionWindow(p) => DeviceInv' /\ DropsRejected
           /\ Prune(p) \/ CheckIn(p) \/ CheckInEnds(p) => DeviceInv' /\ DropsRejected
           /\ StopPass(p) \/ DropDevice(p) => DeviceInv' /\ DropsRejected
<1>1. DeviceOf(p)
  BY DEF DeviceInv
<1>2. StartPass(p) \/ SweepEnds(p) => DeviceInv' /\ DropsRejected
  BY PassDevice
     DEF StartPass, SweepEnds, Goto, TypeOK, Rejected, WithToken, Alone, phoneVars, serverVars
<1>3. ASSUME NEW m \in Messages, SweepStores(p, m) PROVE DeviceInv' /\ DropsRejected
  BY <1>1, <1>3, PassDevice
     DEF SweepStores, DeviceOf, Rejected, WithToken, Alone, passVars, serverVars
<1>4. Requeue(p) \/ ApplyWindow(p) \/ ClearExclusionWindow(p) => DeviceInv' /\ DropsRejected
  BY PassDevice
     DEF Requeue, ApplyWindow, ClearExclusionWindow, Goto, TypeOK, Rejected, WithToken, Alone,
         serverVars
<1>5. Prune(p) \/ CheckInEnds(p) \/ StopPass(p) => DeviceInv' /\ DropsRejected
  BY PassDevice
     DEF Prune, CheckInEnds, StopPass, Return, Goto, TypeOK, Rejected, WithToken, Alone,
         phoneVars, serverVars
<1>6. CheckIn(p) => DeviceInv' /\ DropsRejected
  BY PassDevice
     DEF CheckIn, Unauthorized, Goto, TypeOK, Rejected, WithToken, Alone, phoneVars, serverVars
<1>7. ASSUME DropDevice(p) PROVE DeviceInv' /\ DropsRejected
  <2>1. pc'[p] = "idle"
    BY <1>7 DEF DropDevice, Return, Goto, TypeOK
  <2>2. \A q \in Passes \ {p} : DeviceOf(q)'
    BY <1>7, StillDevice DEF DropDevice, Return, Goto, TypeOK, Lasting, serverVars
  <2>3. pc[p] = "drop_device" /\ enrolment[token[p]] = "forgotten"
    BY <1>1, <1>7 DEF DropDevice, DeviceOf, Rejected
  <2> QED
    BY <2>1, <2>2, <2>3 DEF DeviceInv, DeviceOf, Rejected, WithToken, DropsRejected
<1> QED
  BY <1>2, <1>3, <1>4, <1>5, <1>6, <1>7

LEMMA UploadDevice ==
    ASSUME TypeOK, DeviceInv, NEW p \in Passes
    PROVE  /\ Select(p) \/ Upload(p) => DeviceInv' /\ DropsRejected
           /\ ServerStores(p) \/ LoseCall(p) => DeviceInv' /\ DropsRejected
           /\ ServerRefusesUpload(p) => DeviceInv' /\ DropsRejected
           /\ TakeStored(p) \/ TakeVerdicts(p) => DeviceInv' /\ DropsRejected
           /\ \A m \in Messages : QuarantineRefused(p, m) => DeviceInv' /\ DropsRejected
           /\ Isolate(p) \/ QuarantineIsolated(p) => DeviceInv' /\ DropsRejected
           /\ UploadFails(p) \/ UploadUnauthorized(p) => DeviceInv' /\ DropsRejected
<1>1. DeviceOf(p)
  BY DEF DeviceInv
<1>2. Select(p) \/ Upload(p) => DeviceInv' /\ DropsRejected
  BY PassDevice
     DEF Select, Upload, Answer, Goto, TypeOK, Rejected, WithToken, Alone, phoneVars, serverVars
<1>3. ASSUME ServerStores(p) \/ LoseCall(p) PROVE DeviceInv' /\ DropsRejected
  <2>1. reply'[p] # "unauthorized" /\ pc' = pc /\ config' = config /\ token' = token
    BY <1>3, ConstantsAssumption DEF ServerStores, LoseCall, Answer, TypeOK
  <2>2. UNCHANGED <<device, enrolment>> /\ Alone(p)
    BY <1>3 DEF ServerStores, LoseCall, Answer, TypeOK, Alone, phoneVars
  <2> QED
    BY <1>1, <2>1, <2>2, PassDevice DEF DeviceOf, Rejected
<1>4. ServerRefusesUpload(p) => DeviceInv' /\ DropsRejected
  BY <1>1, PassDevice
     DEF ServerRefusesUpload, Unauthorized, Answer, TypeOK, DeviceOf, Rejected, WithToken, Alone,
         phoneVars, serverVars
<1>5. TakeStored(p) \/ TakeVerdicts(p) => DeviceInv' /\ DropsRejected
  BY PassDevice
     DEF TakeStored, TakeVerdicts, NextBatch, Answer, Goto, TypeOK, Rejected, WithToken, Alone,
         serverVars
<1>6. ASSUME NEW m \in Messages, QuarantineRefused(p, m) PROVE DeviceInv' /\ DropsRejected
  BY <1>6, PassDevice DEF QuarantineRefused, Goto, TypeOK, Rejected, WithToken, Alone, serverVars
<1>7. Isolate(p) \/ QuarantineIsolated(p) => DeviceInv' /\ DropsRejected
  BY PassDevice
     DEF Isolate, QuarantineIsolated, NextBatch, Answer, Goto, TypeOK, Rejected, WithToken,
         Alone, serverVars
<1>8. UploadFails(p) \/ UploadUnauthorized(p) => DeviceInv' /\ DropsRejected
  BY PassDevice
     DEF UploadFails, UploadUnauthorized, Return, Answer, Goto, TypeOK, Rejected, WithToken,
         Alone, serverVars
<1> QED
  BY <1>2, <1>3, <1>4, <1>5, <1>6, <1>7, <1>8

LEMMA NextDevice == TypeOK /\ DeviceInv /\ [Next]_vars => DeviceInv' /\ [DropsRejected]_vars
<1> SUFFICES ASSUME TypeOK, DeviceInv, [Next]_vars PROVE DeviceInv' /\ [DropsRejected]_vars
  OBVIOUS
<1>1. CASE UNCHANGED vars
  BY <1>1 DEF vars, DeviceInv, DeviceOf, Rejected
<1>2. ASSUME NEW m \in Messages, NEW at \in 1..MaxClock, NEW caught \in BOOLEAN,
             Arrive(m, at, caught)
      PROVE  DeviceInv' /\ DropsRejected
  BY <1>2, EnvironmentDevice
<1>3. CASE UserStep \/ Administer \/ LateIngest
  BY <1>3, EnvironmentDevice
<1>4. ASSUME NEW p \in Passes, PassStep(p) PROVE DeviceInv' /\ DropsRejected
  BY <1>4, RegistrationDevice, EdgeDevice, UploadDevice DEF PassStep
<1>5. ASSUME NEW p \in Passes, ServerStep(p) \/ LoseCall(p) \/ StopPass(p)
      PROVE  DeviceInv' /\ DropsRejected
  BY <1>5, RegistrationDevice, EdgeDevice, UploadDevice DEF ServerStep
<1>6. ASSUME NEW p \in Passes,
             StartPass(p) \/ \E m \in Messages : SweepStores(p, m)
      PROVE  DeviceInv' /\ DropsRejected
  BY <1>6, EdgeDevice
<1> QED
  BY <1>1, <1>2, <1>3, <1>4, <1>5, <1>6 DEF Next

\* For any number of chains and codes: a pass drops a registration only when the
\* server has forgotten the device the pass itself authenticates as, whatever
\* resets and switch-offs there were.
THEOREM DropsOnlyUnknown == Spec => DropsOnlyUnknownDevice
<1>1. TypeOK /\ DeviceInv /\ [Next]_vars => DeviceInv' /\ [DropsRejected]_vars
  BY NextDevice
<1>2. [DropsRejected]_vars =>
        [device > 0 /\ device' = 0 /\ ~ForgetDevice =>
              \E p \in Passes : pc[p] = "drop_device" /\ enrolment[token[p]] = "forgotten"]_vars
  BY DEF DropsRejected
<1> QED
  BY <1>1, <1>2, InitDevice, TypeCorrect, PTL DEF Spec, DropsOnlyUnknownDevice
-----------------------------------------------------------------------------
(* SyncEngine implements UploadPromise.  Each statement of a pass settles,   *)
(* reopens or captures; each request is sent, and served or lost.  What the  *)
(* proof needs are the invariants above: with one chain, the one that says a *)
(* batch is still in the queue.                                              *)

Exclusive == \A p, q \in Passes : p = q

PromiseInv ==
    /\ TypeOK
    /\ AckInv
    /\ "elsewhere" \notin Urls => QuarantineInv
    /\ Exclusive => OwnInv
    /\ late \cap Bad = {}

LEMMA LateIsStorable ==
    TypeOK /\ late \cap Bad = {} /\ [Next]_vars => (late \cap Bad = {})'
<1> SUFFICES ASSUME late \cap Bad = {}, [Next]_vars PROVE late' \cap Bad = {}
  OBVIOUS
<1>1. ASSUME NEW p \in Passes, LoseCall(p) \/ StopPass(p) PROVE late' \cap Bad = {}
  BY <1>1 DEF LoseCall, StopPass, Abandoned
<1>2. CASE LateIngest
  BY <1>2 DEF LateIngest
<1>3. CASE UNCHANGED vars
  BY <1>3 DEF vars
<1>4. ASSUME NEW m \in Messages, NEW at \in 1..MaxClock, NEW caught \in BOOLEAN,
             Arrive(m, at, caught)
      PROVE  late' = late
  BY <1>4 DEF Arrive, serverVars
<1>5. CASE UserStep \/ Administer
  BY <1>5
     DEF UserStep, SaveConnection, PauseSync, ResumeSync, SetExcludePausedMessages, ForgetDevice,
         Administer, SetEnrolment, ServerReset, serverVars
<1>6. ASSUME NEW p \in Passes, ServerStep(p) PROVE late' = late
  BY <1>6
     DEF ServerStep, ServerRegisters, ServerRefusesRegistration, ServerStores,
         ServerRefusesUpload, serverVars
<1>7. ASSUME NEW p \in Passes, PassStep(p) PROVE late' = late
  <2>1. CASE \/ SweepEnds(p) \/ Requeue(p) \/ ApplyWindow(p) \/ ClearExclusionWindow(p)
             \/ AlreadyRegistered(p) \/ NoSetupKey(p) \/ AskToRegister(p)
             \/ StoreDevice(p) \/ ClearEnrolmentCode(p) \/ RegistrationFails(p)
    BY <2>1
       DEF SweepEnds, Requeue, ApplyWindow, ClearExclusionWindow, AlreadyRegistered, NoSetupKey,
           AskToRegister, StoreDevice, ClearEnrolmentCode, RegistrationFails, serverVars
  <2>2. CASE \/ Select(p) \/ Upload(p) \/ TakeStored(p) \/ TakeVerdicts(p)
             \/ \E m \in Messages : QuarantineRefused(p, m)
             \/ Isolate(p) \/ QuarantineIsolated(p) \/ UploadFails(p) \/ UploadUnauthorized(p)
             \/ DropDevice(p) \/ Prune(p) \/ CheckIn(p) \/ CheckInEnds(p)
    BY <2>2
       DEF Select, Upload, TakeStored, TakeVerdicts, QuarantineRefused, Isolate,
           QuarantineIsolated, UploadFails, UploadUnauthorized, DropDevice, Prune, CheckIn,
           CheckInEnds, serverVars
  <2> QED
    BY <1>7, <2>1, <2>2 DEF PassStep
<1>8. ASSUME NEW p \in Passes,
             StartPass(p) \/ \E m \in Messages : SweepStores(p, m)
      PROVE  late' = late
  BY <1>8 DEF StartPass, SweepStores, serverVars
<1> QED
  BY <1>1, <1>2, <1>3, <1>4, <1>5, <1>6, <1>7, <1>8 DEF Next

LEMMA PromiseInvariant == Spec => []PromiseInv
<1>1. Init => PromiseInv
  BY InitType, InitAck, InitQuarantine, InitOwn DEF PromiseInv, Init
<1>2. PromiseInv /\ [Next]_vars => PromiseInv'
  <2> SUFFICES ASSUME PromiseInv, [Next]_vars PROVE PromiseInv'
    OBVIOUS
  <2>1. TypeOK' /\ AckInv' /\ (late \cap Bad = {})'
    BY NextType, NextAck, LateIsStorable DEF PromiseInv
  <2>2. "elsewhere" \notin Urls => QuarantineInv'
    BY NextQuarantine DEF PromiseInv
  <2>3. ASSUME Exclusive PROVE OwnInv'
    <3>1. CASE Passes = {}
      BY <3>1 DEF OwnInv
    <3>2. ASSUME NEW chain \in Passes PROVE OwnInv'
      BY <2>3, NextOwn DEF PromiseInv, Exclusive
    <3> QED
      BY <3>1, <3>2
  <2> QED
    BY <2>1, <2>2, <2>3 DEF PromiseInv, Exclusive
<1> QED
  BY <1>1, <1>2, PTL DEF Spec

\* What the promise sees of a statement.
FateOf(status) == IF status \in {"PENDING", "UPLOADING", "FAILED"} THEN "WAITING" ELSE status

LEMMA KeptRows == Promise!Kept = {m \in Messages : rows[m] \notin NoRow}
BY DEF Promise!Kept, Fate, NoRow

LEMMA StatementBecomes ==
    ASSUME NEW ids \in SUBSET Messages, NEW status \in SyncStatus,
           rows' = SetStatus(rows, ids, status)
    PROVE  Promise!Becomes(ids \cap Promise!Kept, FateOf(status))
<1>1. ASSUME NEW m \in Messages
      PROVE  Fate'[m] = IF m \in ids \cap Promise!Kept THEN FateOf(status) ELSE Fate[m]
  BY KeptRows DEF Fate, FateOf, SetStatus
<1> QED
  BY <1>1 DEF Promise!Becomes, Fate

LEMMA SameFate == UNCHANGED rows => UNCHANGED Fate
BY DEF Fate

\* What a pass has on its way.
InFlight(p) == IF pc[p] = "uploading" /\ reply[p] = "none" THEN batch[p] ELSE {}

LEMMA SentIs == Sent = late \cup {m \in Messages : \E p \in Passes : m \in InFlight(p)}
BY DEF Sent, InFlight

\* A step that moves no message and sends none.
LEMMA QuietPromise ==
    ASSUME UNCHANGED <<Fate, committed>>, late' \subseteq Sent,
           \A q \in Passes : InFlight(q)' \subseteq InFlight(q)
    PROVE  Promise!Next
<1>1. Sent' \subseteq Sent
  BY SentIs DEF Sent, InFlight
<1>2. Promise!Serve({})
  BY <1>1 DEF Promise!Serve
<1> QED
  BY <1>2 DEF Promise!Next

LEMMA SentStays ==
    ASSUME NEW p \in Passes, late' = late, InFlight(p) = {}, InFlight(p)' = {},
           \A q \in Passes \ {p} : InFlight(q)' = InFlight(q)
    PROVE  Sent' = Sent
BY SentIs DEF Sent, InFlight

\* The rows of a batch are a worker's to settle: with one chain they still wait.
LEMMA BatchIsMovable ==
    ASSUME PromiseInv, NEW p \in Passes, pc[p] \in {"mark", "uploading", "quarantine"}
    PROVE  /\ batch[p] \cap Promise!Kept \subseteq Promise!Movable
           /\ Exclusive => batch[p] \subseteq Promise!Fated("WAITING")
           /\ batch[p] \subseteq Messages
<1>1. batch[p] \subseteq Messages
  BY DEF PromiseInv, TypeOK
<1>2. Exclusive => batch[p] \subseteq Promise!Fated("WAITING")
  BY <1>1 DEF PromiseInv, OwnInv, OwnRows, Queued, Promise!Fated, Fate
<1> QED
  BY <1>1, <1>2 DEF Promise!Movable, Exclusive

\* A statement on the rows of a batch, and what it takes to be one the promise
\* allows.
LEMMA SettlesBatch ==
    ASSUME PromiseInv, NEW p \in Passes, pc[p] \in {"uploading", "quarantine"},
           NEW ids \in SUBSET batch[p],
           NEW status \in {"SYNCED", "FAILED", "QUARANTINED"},
           rows' = SetStatus(rows, ids, status), UNCHANGED committed,
           status = "SYNCED" => ids \subseteq committed,
           status = "QUARANTINED" => "elsewhere" \in Urls \/ ids \subseteq Bad,
           Sent' = Sent
    PROVE  Promise!Next
<1> DEFINE kept == ids \cap Promise!Kept
<1>1. ids \subseteq Messages /\ kept \subseteq Promise!Movable /\ kept \in SUBSET Messages
  BY BatchIsMovable
<1>2. Promise!Becomes(kept, FateOf(status))
  BY <1>1, StatementBecomes DEF SyncStatus
<1>3. Promise!Settle(kept)
  <2>1. CASE status = "SYNCED"
    BY <1>1, <1>2, <2>1 DEF Promise!Settle, FateOf
  <2>2. CASE status = "FAILED"
    BY <1>1, <1>2, <2>2 DEF Promise!Settle, FateOf
  <2>3. CASE status = "QUARANTINED"
    BY <1>1, <1>2, <2>3 DEF Promise!Settle, FateOf
  <2> QED
    BY <2>1, <2>2, <2>3
<1> QED
  BY <1>1, <1>3 DEF Promise!Next

\* A row that appears is a message captured.
LEMMA InsertCaptures ==
    ASSUME TypeOK, NEW m \in Messages, rows' = Insert(rows, m),
           UNCHANGED <<committed, late, pc, batch, reply>>
    PROVE  Promise!Next
<1>1. Sent' = Sent
  BY DEF Sent
<1>2. CASE rows[m] \in NoRow
  <2>1. \A n \in Messages : rows'[n] = IF n = m THEN "PENDING" ELSE rows[n]
    BY <1>2 DEF Insert, TypeOK, Tables
  <2>2. Promise!Becomes({m}, "WAITING") /\ m \notin Promise!Kept
    BY <1>2, <2>1, KeptRows DEF Promise!Becomes, Fate
  <2> QED
    BY <1>1, <2>2 DEF Promise!Next, Promise!Capture
<1>3. CASE rows[m] \notin NoRow
  <2>1. UNCHANGED Fate
    BY <1>3, SameFate DEF Insert
  <2> QED
    BY <2>1, QuietPromise DEF Sent, InFlight
<1> QED
  BY <1>2, <1>3

LEMMA EnvironmentPromise ==
    ASSUME PromiseInv
    PROVE  /\ \A m \in Messages, at \in 1..MaxClock, caught \in BOOLEAN :
                  Arrive(m, at, caught) => Promise!Next
           /\ UserStep \/ Administer => Promise!Next
           /\ LateIngest => Promise!Next
<1>1. ASSUME NEW m \in Messages, NEW at \in 1..MaxClock, NEW caught \in BOOLEAN,
             Arrive(m, at, caught)
      PROVE  Promise!Next
  <2>1. UNCHANGED <<committed, late, pc, batch, reply>>
    BY <1>1 DEF Arrive, passVars, serverVars
  <2>2. CASE rows' = Insert(rows, m)
    BY <2>1, <2>2, InsertCaptures DEF PromiseInv
  <2>3. CASE rows' = rows
    BY <2>1, <2>3, SameFate, QuietPromise DEF Sent, InFlight
  <2> QED
    BY <1>1, <2>2, <2>3 DEF Arrive
<1>2. ASSUME UserStep \/ Administer PROVE Promise!Next
  <2>1. UNCHANGED <<rows, committed, late, pc, batch, reply>>
    BY <1>2
       DEF UserStep, SaveConnection, PauseSync, ResumeSync, SetExcludePausedMessages,
           ForgetDevice, Administer, SetEnrolment, ServerReset, phoneVars, passVars, serverVars
  <2> QED
    BY <2>1, SameFate, QuietPromise DEF Sent, InFlight
<1>3. ASSUME LateIngest PROVE Promise!Next
  <2>1. PICK ids \in SUBSET late : committed' = committed \cup ids /\ late' = late \ ids
    BY <1>3 DEF LateIngest
  <2>2. UNCHANGED Fate /\ UNCHANGED <<pc, batch, reply>>
    BY <1>3, SameFate DEF LateIngest, phoneVars, passVars
  <2>3. Sent' \subseteq Sent /\ ids \subseteq Sent \cap (Messages \ Bad)
    BY <2>1, <2>2 DEF Sent, PromiseInv, TypeOK
  <2> QED
    BY <2>1, <2>2, <2>3 DEF Promise!Next, Promise!Serve, PromiseInv, TypeOK
<1> QED
  BY <1>1, <1>2, <1>3

\* The steps of a pass that change no row and are no business of the server's.
LEMMA QuietPassPromise ==
    ASSUME PromiseInv, NEW p \in Passes,
           \/ StartPass(p) \/ SweepEnds(p) \/ ClearExclusionWindow(p)
           \/ AlreadyRegistered(p) \/ NoSetupKey(p) \/ AskToRegister(p) \/ StoreDevice(p)
           \/ ClearEnrolmentCode(p) \/ RegistrationFails(p)
           \/ ServerRegisters(p) \/ ServerRefusesRegistration(p)
           \/ Select(p) \/ DropDevice(p) \/ CheckIn(p) \/ CheckInEnds(p)
    PROVE  Promise!Next
<1>1. UNCHANGED <<rows, committed, late>>
  BY DEF StartPass, SweepEnds, ClearExclusionWindow, AlreadyRegistered, NoSetupKey,
         AskToRegister, StoreDevice, ClearEnrolmentCode, RegistrationFails, ServerRegisters,
         ServerRefusesRegistration, Select, DropDevice, CheckIn, CheckInEnds, phoneVars,
         serverVars
<1>2. \A q \in Passes : InFlight(q)' \subseteq InFlight(q)
  <2>1. CASE \/ NoSetupKey(p) \/ RegistrationFails(p) \/ DropDevice(p) \/ CheckInEnds(p)
    BY <2>1
       DEF NoSetupKey, RegistrationFails, DropDevice, CheckInEnds, Return, Goto, InFlight,
           PromiseInv, TypeOK
  <2>2. CASE \/ StartPass(p) \/ SweepEnds(p) \/ ClearExclusionWindow(p)
             \/ AlreadyRegistered(p) \/ ClearEnrolmentCode(p) \/ CheckIn(p)
    BY <2>2
       DEF StartPass, SweepEnds, ClearExclusionWindow, AlreadyRegistered, ClearEnrolmentCode,
           CheckIn, Goto, InFlight, PromiseInv, TypeOK
  <2>3. CASE AskToRegister(p) \/ StoreDevice(p)
    BY <2>3 DEF AskToRegister, StoreDevice, Answer, Goto, InFlight, PromiseInv, TypeOK
  <2>4. CASE ServerRegisters(p) \/ ServerRefusesRegistration(p)
    BY <2>4
       DEF ServerRegisters, ServerRefusesRegistration, Answer, InFlight, PromiseInv, TypeOK
  <2>5. CASE Select(p)
    BY <2>5 DEF Select, Goto, InFlight, PromiseInv, TypeOK
  <2> QED
    BY <2>1, <2>2, <2>3, <2>4, <2>5
<1> QED
  BY <1>1, <1>2, SameFate, QuietPromise DEF Sent

\* The statements of a pass outside the upload loop.
LEMMA StatementPromise ==
    ASSUME PromiseInv, NEW p \in Passes
    PROVE  /\ \A m \in Messages : SweepStores(p, m) => Promise!Next
           /\ Requeue(p) => Promise!Next
           /\ ApplyWindow(p) => Promise!Next
           /\ Prune(p) => Promise!Next
<1>1. ASSUME NEW m \in Messages, SweepStores(p, m) PROVE Promise!Next
  BY <1>1, InsertCaptures DEF SweepStores, PromiseInv, passVars, serverVars
<1>2. ASSUME Requeue(p) PROVE Promise!Next
  <2>1. UNCHANGED Fate
    BY <1>2 DEF Requeue, RequeueStranded, SetStatus, Fate
  <2>2. \A q \in Passes : InFlight(q)' \subseteq InFlight(q)
    BY <1>2 DEF Requeue, Goto, InFlight, PromiseInv, TypeOK
  <2> QED
    BY <1>2, <2>1, <2>2, QuietPromise DEF Requeue, serverVars, Sent
<1>3. ASSUME ApplyWindow(p) PROVE Promise!Next
  <2>1. PICK ids \in SUBSET Queued(rows) : rows' = SetStatus(rows, ids, "EXCLUDED")
    BY <1>3 DEF ApplyWindow, ExcludeReceivedBetween
  <2>2. ids \subseteq Promise!Kept /\ ids \subseteq Promise!Fated("WAITING")
    BY KeptRows DEF Queued, NoRow, Promise!Fated, Fate
  <2>3. Promise!Becomes(ids \cap Promise!Kept, FateOf("EXCLUDED"))
    BY <2>1, StatementBecomes DEF Queued, SyncStatus
  <2>4. Promise!Becomes(ids, "EXCLUDED")
    BY <2>2, <2>3 DEF Promise!Becomes, FateOf
  <2>5. UNCHANGED <<Sent, committed>>
    BY <1>3, SentStays DEF ApplyWindow, Goto, InFlight, serverVars, PromiseInv, TypeOK
  <2> QED
    BY <2>2, <2>4, <2>5 DEF Promise!Next, Promise!Settle, Promise!Fated
<1>4. ASSUME Prune(p) PROVE Promise!Next
  <2>1. PICK expired \in SUBSET Messages : rows' = DeleteSyncedBefore(rows, expired)
    BY <1>4 DEF Prune
  <2> DEFINE ids == {m \in expired : rows[m] = "SYNCED"}
  <2>2. ids \subseteq Promise!Fated("SYNCED")
    BY DEF Promise!Fated, Fate
  <2>3. Promise!Becomes(ids, "PRUNED")
    BY <2>1 DEF DeleteSyncedBefore, Promise!Becomes, Fate
  <2>4. UNCHANGED <<Sent, committed>>
    BY <1>4, SentStays DEF Prune, Goto, InFlight, serverVars, PromiseInv, TypeOK
  <2> QED
    BY <2>2, <2>3, <2>4 DEF Promise!Next, Promise!Settle
<1> QED
  BY <1>1, <1>2, <1>3, <1>4

\* The server and the network.
LEMMA RequestPromise ==
    ASSUME PromiseInv, NEW p \in Passes
    PROVE  /\ Upload(p) => Promise!Next
           /\ ServerStores(p) => Promise!Next
           /\ ServerRefusesUpload(p) => Promise!Next
           /\ LoseCall(p) \/ StopPass(p) => Promise!Next
<1>1. ASSUME Upload(p) PROVE Promise!Next
  <2>1. /\ batch[p] \subseteq Messages
        /\ Exclusive => batch[p] \subseteq Promise!Fated("WAITING")
    BY <1>1, BatchIsMovable DEF Upload
  <2>2. Promise!Becomes(batch[p] \cap Promise!Kept, "WAITING")
    BY <1>1, <2>1, StatementBecomes DEF Upload, MarkUploading, FateOf, SyncStatus
  <2>3. InFlight(p)' = batch[p] /\ InFlight(p) = {}
    BY <1>1 DEF Upload, Goto, Answer, InFlight, PromiseInv, TypeOK
  <2>4. \A q \in Passes \ {p} : InFlight(q)' = InFlight(q)
    BY <1>1 DEF Upload, Goto, Answer, InFlight, PromiseInv, TypeOK
  <2>5. UNCHANGED <<committed, late>>
    BY <1>1 DEF Upload, serverVars
  <2>6. Sent' = Sent \cup batch[p]
    <3>1. Sent' = late' \cup {m \in Messages : \E q \in Passes : m \in InFlight(q)'}
      BY DEF Sent, InFlight
    <3> QED
      BY <2>1, <2>3, <2>4, <2>5, <3>1, SentIs
  <2> QED
    BY <2>1, <2>2, <2>5, <2>6 DEF Promise!Next, Promise!Send, Exclusive
<1>2. ASSUME ServerStores(p) PROVE Promise!Next
  <2> DEFINE ids == batch[p] \ Bad
  <2>1. UNCHANGED <<Fate, late, pc, batch>> /\ committed' = committed \cup ids
    BY <1>2, SameFate DEF ServerStores, phoneVars
  <2>2. ids \subseteq Messages /\ ids \subseteq Sent
    BY <1>2 DEF ServerStores, Sent, PromiseInv, TypeOK
  <2>3. reply'[p] # "none" /\ \A q \in Passes \ {p} : reply'[q] = reply[q]
    BY <1>2, ConstantsAssumption DEF ServerStores, Answer, PromiseInv, TypeOK
  <2>4. Sent' \subseteq Sent
    BY <2>1, <2>3 DEF Sent
  <2> QED
    BY <2>1, <2>2, <2>4 DEF Promise!Next, Promise!Serve
<1>3. ASSUME ServerRefusesUpload(p) PROVE Promise!Next
  <2>1. \A q \in Passes : InFlight(q)' \subseteq InFlight(q)
    BY <1>3 DEF ServerRefusesUpload, Answer, InFlight, PromiseInv, TypeOK
  <2> QED
    BY <1>3, <2>1, SameFate, QuietPromise DEF ServerRefusesUpload, phoneVars, serverVars, Sent
<1>4. Abandoned(p) \subseteq InFlight(p) /\ Abandoned(p) \subseteq Messages
  BY DEF Abandoned, InFlight, PromiseInv, TypeOK
<1>5. ASSUME LoseCall(p) PROVE Promise!Next
  <2>1. \A q \in Passes : InFlight(q)' \subseteq InFlight(q)
    BY <1>5 DEF LoseCall, Answer, InFlight, PromiseInv, TypeOK
  <2>2. late' \subseteq Sent
    BY <1>4, <1>5, SentIs DEF LoseCall
  <2> QED
    BY <1>5, <2>1, <2>2, SameFate, QuietPromise DEF LoseCall, phoneVars
<1>6. ASSUME StopPass(p) PROVE Promise!Next
  <2>1. \A q \in Passes : InFlight(q)' \subseteq InFlight(q)
    BY <1>6 DEF StopPass, Return, Goto, InFlight, PromiseInv, TypeOK
  <2>2. late' \subseteq Sent
    BY <1>4, <1>6, SentIs DEF StopPass
  <2> QED
    BY <1>6, <2>1, <2>2, SameFate, QuietPromise DEF StopPass, phoneVars
<1> QED
  BY <1>1, <1>2, <1>3, <1>5, <1>6

\* The answers to an upload.
LEMMA BatchPromise ==
    ASSUME PromiseInv, NEW p \in Passes
    PROVE  /\ TakeStored(p) => Promise!Next
           /\ TakeVerdicts(p) => Promise!Next
           /\ \A m \in Messages : QuarantineRefused(p, m) => Promise!Next
           /\ QuarantineIsolated(p) => Promise!Next
           /\ Isolate(p) \/ UploadFails(p) \/ UploadUnauthorized(p) => Promise!Next
<1>1. ASSUME TakeStored(p) PROVE Promise!Next
  <2>1. rows' = SetStatus(rows, batch[p], "SYNCED") /\ batch[p] \subseteq committed
    BY <1>1 DEF TakeStored, MarkSynced, PromiseInv, AckInv, Vouched
  <2>2. UNCHANGED <<Sent, committed>>
    BY <1>1, SentStays
       DEF TakeStored, NextBatch, Answer, Goto, InFlight, serverVars, PromiseInv, TypeOK
  <2> QED
    BY <1>1, <2>1, <2>2, SettlesBatch DEF TakeStored
<1>2. ASSUME TakeVerdicts(p) PROVE Promise!Next
  <2> DEFINE ids == batch[p] \ (batch[p] \cap Bad)
  <2>1. rows' = SetStatus(rows, ids, "SYNCED") /\ ids \subseteq committed
    BY <1>2 DEF TakeVerdicts, MarkSynced, PromiseInv, AckInv, Vouched
  <2>2. UNCHANGED <<Sent, committed>>
    BY <1>2, SentStays
       DEF TakeVerdicts, Answer, Goto, InFlight, serverVars, PromiseInv, TypeOK
  <2> QED
    BY <1>2, <2>1, <2>2, SettlesBatch DEF TakeVerdicts
<1>3. ASSUME NEW m \in Messages, QuarantineRefused(p, m) PROVE Promise!Next
  <2>1. rows' = SetStatus(rows, {m}, "QUARANTINED") /\ {m} \subseteq batch[p]
    BY <1>3 DEF QuarantineRefused, Quarantine
  <2>2. "elsewhere" \in Urls \/ {m} \subseteq Bad
    BY <1>3 DEF QuarantineRefused, PromiseInv, QuarantineInv, Blames
  <2>3. UNCHANGED <<Sent, committed>>
    BY <1>3, SentStays DEF QuarantineRefused, Goto, InFlight, serverVars, PromiseInv, TypeOK
  <2> QED
    BY <1>3, <2>1, <2>2, <2>3, SettlesBatch DEF QuarantineRefused
<1>4. ASSUME QuarantineIsolated(p) PROVE Promise!Next
  <2>1. rows' = SetStatus(rows, batch[p], "QUARANTINED")
    BY <1>4 DEF QuarantineIsolated, Quarantine
  <2>2. "elsewhere" \in Urls \/ batch[p] \subseteq Bad
    BY <1>4 DEF QuarantineIsolated, Isolated, PromiseInv, QuarantineInv, Blames
  <2>3. UNCHANGED <<Sent, committed>>
    BY <1>4, SentStays
       DEF QuarantineIsolated, NextBatch, Answer, Goto, InFlight, serverVars, PromiseInv, TypeOK
  <2> QED
    BY <1>4, <2>1, <2>2, <2>3, SettlesBatch DEF QuarantineIsolated
<1>5. ASSUME Isolate(p) \/ UploadFails(p) \/ UploadUnauthorized(p) PROVE Promise!Next
  <2>1. rows' = SetStatus(rows, batch[p], "FAILED") /\ pc[p] = "uploading"
    BY <1>5 DEF Isolate, UploadFails, UploadUnauthorized, MarkFailed
  <2>2. /\ InFlight(p) = {}
        /\ InFlight(p)' = {}
        /\ \A q \in Passes \ {p} : InFlight(q)' = InFlight(q)
    <3>1. CASE Isolate(p) \/ UploadUnauthorized(p)
      BY <3>1
         DEF Isolate, UploadUnauthorized, NextBatch, Answer, Goto, InFlight, PromiseInv, TypeOK
    <3>2. CASE UploadFails(p)
      BY <3>2 DEF UploadFails, Return, Goto, InFlight, PromiseInv, TypeOK
    <3> QED
      BY <1>5, <3>1, <3>2
  <2>3. UNCHANGED <<Sent, committed>>
    BY <1>5, <2>2, SentStays DEF Isolate, UploadFails, UploadUnauthorized, serverVars
  <2> QED
    BY <2>1, <2>3, SettlesBatch
<1> QED
  BY <1>1, <1>2, <1>3, <1>4, <1>5

\* Every step of the engine is a step of the outbox that SyncStatus promises, for
\* any number of chains; with a single chain, of the outbox in which a message
\* is settled once.
THEOREM ImplementsUploadPromise == Spec => KeepsUploadPromise
<1>1. Init => Promise!Init
  BY DEF Init, Promise!Init, Fate, Sent
<1>2. PromiseInv /\ [Next]_vars => [Promise!Next]_<<Fate, Sent, committed>>
  <2> SUFFICES ASSUME PromiseInv, [Next]_vars
               PROVE  Promise!Next \/ UNCHANGED <<Fate, Sent, committed>>
    OBVIOUS
  <2>1. CASE UNCHANGED vars
    BY <2>1 DEF vars, Fate, Sent
  <2>2. ASSUME NEW m \in Messages, NEW at \in 1..MaxClock, NEW caught \in BOOLEAN,
             Arrive(m, at, caught)
      PROVE  Promise!Next
    BY <2>2, EnvironmentPromise
  <2>3. CASE UserStep \/ Administer \/ LateIngest
    BY <2>3, EnvironmentPromise
  <2>4. ASSUME NEW p \in Passes, PassStep(p) PROVE Promise!Next
    BY <2>4, QuietPassPromise, StatementPromise, RequestPromise, BatchPromise DEF PassStep
  <2>5. ASSUME NEW p \in Passes, ServerStep(p) \/ LoseCall(p) \/ StopPass(p)
        PROVE  Promise!Next
    BY <2>5, QuietPassPromise, RequestPromise DEF ServerStep
  <2>6. ASSUME NEW p \in Passes,
               StartPass(p) \/ \E m \in Messages : SweepStores(p, m)
        PROVE  Promise!Next
    BY <2>6, QuietPassPromise, StatementPromise
  <2> QED
    BY <2>1, <2>2, <2>3, <2>4, <2>5, <2>6 DEF Next
<1> QED
  BY <1>1, <1>2, PromiseInvariant, PTL DEF Spec, KeepsUploadPromise, Promise!Spec
=============================================================================
