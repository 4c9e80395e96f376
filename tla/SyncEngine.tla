----------------------------- MODULE SyncEngine -----------------------------
(***************************************************************************)
(* TsunagiRepository.sync(): the pass that recovers, holds back, registers,*)
(* uploads and prunes, run by two independent WorkManager chains (the      *)
(* immediate one and the periodic one) over one message table, one         *)
(* settings file and one device row.                                       *)
(*                                                                         *)
(* A step is one DAO statement, one settings read or edit, or one event of *)
(* a request: the server's decision, the loss of the call, the phone's use *)
(* of the answer.  Everything else between two of them is local to a pass. *)
(*                                                                         *)
(* Server side: `committed` holds the messages the server has committed at *)
(* least once, `enrolment` the state of every enrolment code.  A code      *)
(* yields at most one device, so the code's number also names that device  *)
(* and its token; 0 is "no code" and "no device row".                      *)
(***************************************************************************)
EXTENDS MessageStore

CONSTANTS
    Bad,         \* messages the server's validation refuses
    Passes,      \* the WorkManager chains; at most one pass of each runs
    Periodic,    \* the chains the platform starts by itself, again and again
    BatchSize,   \* BATCH_SIZE
    MaxCodes,    \* bound: enrolment codes ever issued to this phone
    MaxClock,    \* bound: pauses and resumes, which are what moves the clock
    Urls,        \* the server URLs the user may enter
    BatchAnswers \* how the server answers a batch it takes, message by message or whole

\* "elsewhere" is a web server that is not Tsunagi and answers 404.
ASSUME ConstantsAssumption ==
    /\ Bad \subseteq Messages
    /\ IsFiniteSet(Messages)
    /\ Periodic \subseteq Passes
    /\ BatchSize \in Nat \ {0}
    /\ MaxCodes \in Nat
    /\ MaxClock \in Nat \ {0}
    /\ Urls \subseteq {"blank", "invalid", "tsunagi", "elsewhere"}
    /\ BatchAnswers \subseteq {"stored", "verdicts"}

VARIABLES
    rows,        \* the message table
    received,    \* received_at of each message, 0 before it reaches the phone
    settings,    \* SettingsStore, as far as a pass reads it
    device,      \* the device row
    pc,          \* where each pass is
    config,      \* the settings snapshot each pass works from
    token,       \* the device each pass authenticates as
    batch,       \* the messages each pass is working on
    limit,       \* batchSize of each pass
    reply,       \* the answer to each pass's request in flight
    committed,   \* messages the server has committed
    late,        \* messages of requests whose pass has given up on the answer
    enrolment,   \* what the server says of each code, and of its device
    clock,       \* moves at every pause and resume
    promised     \* history: messages the user was promised would be held back

phoneVars  == <<rows, received, settings, device>>
passVars   == <<pc, config, token, batch, limit, reply>>
serverVars == <<committed, late, enrolment>>
vars == <<rows, received, settings, device, pc, config, token, batch, limit,
          reply, committed, late, enrolment, clock, promised>>

Codes == 1..MaxCodes
Times == 0..MaxClock

Settings == [url: Urls \cup {"blank"}, key: 0..MaxCodes, enabled: BOOLEAN,
             excludePaused: BOOLEAN, pausedSince: Times, from: Times, to: Times]

Stages == {"idle", "sweep", "requeue", "exclude", "clear_window", "register",
           "registering", "clear_code", "select", "mark", "uploading",
           "quarantine", "prune", "check_in", "heartbeat", "drop_device"}

\* What an answer means to the phone: 401 unauthorized, 403 forbidden, 408, 429
\* and 5xx unavailable, any other 4xx refused; an IOException is a lost call.
Replies == {"none", "lost", "registered", "stored", "verdicts", "refused",
            "unauthorized", "forbidden", "unavailable"}

\* unissued -> pending -> active <-> disabled; a pending code may expire or be
\* cancelled (closed), and a server whose database was reset knows none of them.
EnrolmentStates == {"unissued", "pending", "active", "disabled", "closed", "forgotten"}

FreshSettings == [url |-> "blank", key |-> 0, enabled |-> TRUE, excludePaused |-> FALSE,
                  pausedSince |-> 0, from |-> 0, to |-> 0]

Init ==
    /\ rows = [m \in Messages |-> "ABSENT"]
    /\ received = [m \in Messages |-> 0]
    /\ settings = FreshSettings
    /\ device = 0
    /\ pc = [p \in Passes |-> "idle"]
    /\ config = [p \in Passes |-> FreshSettings]
    /\ token = [p \in Passes |-> 0]
    /\ batch = [p \in Passes |-> {}]
    /\ limit = [p \in Passes |-> BatchSize]
    /\ reply = [p \in Passes |-> "none"]
    /\ committed = {}
    /\ late = {}
    /\ enrolment = [c \in Codes |-> "unissued"]
    /\ clock = 1
    /\ promised = {}
-----------------------------------------------------------------------------
(* Helpers. *)

Goto(p, stage) == pc' = [pc EXCEPT ![p] = stage]

\* A pass returns: its locals go with it.
Return(p) ==
    /\ Goto(p, "idle")
    /\ config' = [config EXCEPT ![p] = FreshSettings]
    /\ token' = [token EXCEPT ![p] = 0]
    /\ batch' = [batch EXCEPT ![p] = {}]
    /\ limit' = [limit EXCEPT ![p] = BatchSize]
    /\ reply' = [reply EXCEPT ![p] = "none"]

Answer(p, answer) == reply' = [reply EXCEPT ![p] = answer]

\* What the server makes of a device token: deps.resolve_principal.
Authenticates(p) == config[p].url = "tsunagi" /\ enrolment[token[p]] = "active"
Unauthorized(p)  == config[p].url = "tsunagi" /\ enrolment[token[p]] = "forgotten"
-----------------------------------------------------------------------------
(* The user, the SMS stack and the administrator. *)

\* An SMS reaches the phone, dated by the service centre: `at` may lie on either
\* side of the phone's clock, which is what pauses are dated by.  `caught` is
\* whether the broadcast was delivered and its write survived; otherwise only the
\* platform's inbox holds it.
Arrive(m, at, caught) ==
    /\ received[m] = 0
    /\ received' = [received EXCEPT ![m] = at]
    /\ rows' = IF caught THEN Insert(rows, m) ELSE rows
    /\ UNCHANGED <<settings, device, passVars, serverVars, clock, promised>>

\* The connection form: a URL, and the code already there, none, or a new one
\* the administrator has just issued.
SaveConnection(url, key) ==
    /\ key > 0 => key = settings.key \/ enrolment[key] = "unissued"
    /\ settings' = [settings EXCEPT !.url = url, !.key = key]
    /\ enrolment' = [c \in Codes |->
            IF c = key /\ enrolment[c] = "unissued" THEN "pending" ELSE enrolment[c]]
    /\ UNCHANGED <<rows, received, device, passVars, committed, late, clock, promised>>

PauseSync ==
    /\ settings.enabled
    /\ clock < MaxClock
    /\ clock' = clock + 1
    /\ settings' = [settings EXCEPT !.enabled = FALSE, !.pausedSince = clock + 1]
    /\ UNCHANGED <<rows, received, device, passVars, serverVars, promised>>

\* Messages on the phone that are dated in the session and have not left it yet.
\* One delivered in the session and dated before it is not among them.
PausedSession ==
    {m \in Messages : /\ received[m] \in settings.pausedSince..clock
                      /\ m \notin committed \cup late
                      /\ \A p \in Passes : m \notin batch[p]}

\* A new window takes the place of one no pass has applied yet.
ResumeSync ==
    /\ ~settings.enabled
    /\ clock < MaxClock
    /\ clock' = clock + 1
    /\ LET running == [settings EXCEPT !.enabled = TRUE, !.pausedSince = 0]
       IN  settings' = IF settings.excludePaused
                       THEN [running EXCEPT !.from = settings.pausedSince, !.to = clock]
                       ELSE running
    /\ promised' = IF settings.excludePaused THEN promised \cup PausedSession ELSE promised
    /\ UNCHANGED <<rows, received, device, passVars, serverVars>>

SetExcludePausedMessages(on) ==
    /\ settings.excludePaused # on
    /\ settings' = [settings EXCEPT !.excludePaused = on]
    /\ UNCHANGED <<rows, received, device, passVars, serverVars, clock, promised>>

ForgetDevice ==
    /\ device' = 0
    /\ UNCHANGED <<rows, received, settings, passVars, serverVars, clock, promised>>

\* The administrator switches a device off and on, withdraws a code, or the
\* server comes back without its database.
SetEnrolment(c, from, to) ==
    /\ enrolment[c] = from
    /\ enrolment' = [enrolment EXCEPT ![c] = to]
    /\ UNCHANGED <<phoneVars, passVars, committed, late, clock, promised>>

ServerReset ==
    /\ enrolment' = [c \in Codes |->
            IF enrolment[c] = "unissued" THEN "unissued" ELSE "forgotten"]
    /\ UNCHANGED <<phoneVars, passVars, committed, late, clock, promised>>

Administer ==
    \/ \E c \in Codes : \/ SetEnrolment(c, "active", "disabled")
                        \/ SetEnrolment(c, "disabled", "active")
                        \/ SetEnrolment(c, "pending", "closed")
    \/ ServerReset
-----------------------------------------------------------------------------
(* A pass, up to the upload loop. *)

\* The early returns (not configured, paused, bad URL) change nothing.
StartPass(p) ==
    /\ pc[p] = "idle"
    /\ settings.url \notin {"blank", "invalid"}
    /\ settings.enabled
    /\ config' = [config EXCEPT ![p] = settings]
    /\ Goto(p, "sweep")
    /\ UNCHANGED <<phoneVars, token, batch, limit, reply, serverVars, clock, promised>>

\* backfill() stores, one by one, messages of the inbox that have no row: those
\* the broadcast missed, and pruned ones still inside the overlap.
SweepStores(p, m) ==
    /\ pc[p] = "sweep"
    /\ received[m] > 0
    /\ rows[m] \in NoRow
    /\ rows' = Insert(rows, m)
    /\ UNCHANGED <<received, settings, device, passVars, serverVars, clock, promised>>

\* It may end before it has stored them all: the inbox was unreadable, the scan
\* limit cut it short, or it failed.
SweepEnds(p) ==
    /\ pc[p] = "sweep"
    /\ Goto(p, "requeue")
    /\ UNCHANGED <<phoneVars, config, token, batch, limit, reply, serverVars, clock, promised>>

Requeue(p) ==
    /\ pc[p] = "requeue"
    /\ rows' = RequeueStranded(rows)
    /\ Goto(p, IF config[p].from > 0 /\ config[p].to > 0 THEN "exclude" ELSE "register")
    /\ UNCHANGED <<received, settings, device, config, token, batch, limit, reply,
                   serverVars, clock, promised>>

ApplyWindow(p) ==
    /\ pc[p] = "exclude"
    /\ rows' = ExcludeReceivedBetween(rows, received, config[p].from, config[p].to)
    /\ Goto(p, "clear_window")
    /\ UNCHANGED <<received, settings, device, config, token, batch, limit, reply,
                   serverVars, clock, promised>>

ClearExclusionWindow(p) ==
    /\ pc[p] = "clear_window"
    /\ settings' = [settings EXCEPT !.from = 0, !.to = 0]
    /\ Goto(p, "register")
    /\ UNCHANGED <<rows, received, device, config, token, batch, limit, reply,
                   serverVars, clock, promised>>
-----------------------------------------------------------------------------
(* ensureRegistered. *)

AlreadyRegistered(p) ==
    /\ pc[p] = "register"
    /\ device > 0
    /\ token' = [token EXCEPT ![p] = device]
    /\ Goto(p, "select")
    /\ UNCHANGED <<phoneVars, config, batch, limit, reply, serverVars, clock, promised>>

NoSetupKey(p) ==
    /\ pc[p] = "register"
    /\ device = 0
    /\ config[p].key = 0
    /\ Return(p)
    /\ UNCHANGED <<phoneVars, serverVars, clock, promised>>

AskToRegister(p) ==
    /\ pc[p] = "register"
    /\ device = 0
    /\ config[p].key > 0
    /\ Answer(p, "none")
    /\ Goto(p, "registering")
    /\ UNCHANGED <<phoneVars, config, token, batch, limit, serverVars, clock, promised>>

\* The server creates the device and spends the code in one transaction.  A
\* failure after that commit still answers 500.
ServerRegisters(p) ==
    LET code == config[p].key IN
    /\ pc[p] = "registering"
    /\ reply[p] = "none"
    /\ config[p].url = "tsunagi"
    /\ enrolment[code] = "pending"
    /\ enrolment' = [enrolment EXCEPT ![code] = "active"]
    /\ \E answer \in {"registered", "unavailable"} : Answer(p, answer)
    /\ UNCHANGED <<phoneVars, pc, config, token, batch, limit, committed, late, clock, promised>>

ServerRefusesRegistration(p) ==
    LET code == config[p].key IN
    /\ pc[p] = "registering"
    /\ reply[p] = "none"
    /\ \/ config[p].url = "elsewhere" /\ Answer(p, "refused")
       \/ /\ config[p].url = "tsunagi"
          /\ \/ enrolment[code] \in {"active", "disabled", "closed"} /\ Answer(p, "forbidden")
             \/ enrolment[code] = "forgotten" /\ Answer(p, "unauthorized")
             \/ Answer(p, "unavailable")
    /\ UNCHANGED <<phoneVars, pc, config, token, batch, limit, serverVars, clock, promised>>

StoreDevice(p) ==
    /\ pc[p] = "registering"
    /\ reply[p] = "registered"
    /\ device' = config[p].key
    /\ token' = [token EXCEPT ![p] = config[p].key]
    /\ Answer(p, "none")
    /\ Goto(p, "clear_code")
    /\ UNCHANGED <<rows, received, settings, config, batch, limit, serverVars, clock, promised>>

ClearEnrolmentCode(p) ==
    /\ pc[p] = "clear_code"
    /\ settings' = [settings EXCEPT !.key = 0]
    /\ Goto(p, "select")
    /\ UNCHANGED <<rows, received, device, config, token, batch, limit, reply,
                   serverVars, clock, promised>>

\* Every other answer ends the pass; no 401 drops the device row here.
RegistrationFails(p) ==
    /\ pc[p] = "registering"
    /\ reply[p] \notin {"none", "registered"}
    /\ Return(p)
    /\ UNCHANGED <<phoneVars, serverVars, clock, promised>>
-----------------------------------------------------------------------------
(* The upload loop. *)

Select(p) ==
    /\ pc[p] = "select"
    /\ \E ids \in PendingBatches(rows, received, limit[p]) :
          /\ batch' = [batch EXCEPT ![p] = ids]
          /\ Goto(p, IF ids = {} THEN "prune" ELSE "mark")
    /\ UNCHANGED <<phoneVars, config, token, limit, reply, serverVars, clock, promised>>

\* markStatus(UPLOADING), and the request leaves.
Upload(p) ==
    /\ pc[p] = "mark"
    /\ rows' = MarkUploading(rows, batch[p])
    /\ Answer(p, "none")
    /\ Goto(p, "uploading")
    /\ UNCHANGED <<received, settings, device, config, token, batch, limit, serverVars,
                   clock, promised>>

\* A server with verdicts takes any batch, and of it what it can store; one from
\* before them takes all or nothing.  An upgrade may come between any two requests.
Takes(form, ids) == form = "verdicts" \/ ids \cap Bad = {}

\* insert_if_absent for each message and one commit; a failure while announcing
\* what was committed answers 500.
ServerStores(p) ==
    /\ pc[p] = "uploading"
    /\ reply[p] = "none"
    /\ Authenticates(p)
    /\ \E form \in BatchAnswers :
          /\ Takes(form, batch[p])
          /\ \E answer \in {form, "unavailable"} : Answer(p, answer)
    /\ committed' = committed \cup (batch[p] \ Bad)
    /\ UNCHANGED <<phoneVars, pc, config, token, batch, limit, late, enrolment, clock, promised>>

ServerRefusesUpload(p) ==
    /\ pc[p] = "uploading"
    /\ reply[p] = "none"
    /\ \/ config[p].url = "elsewhere" /\ Answer(p, "refused")
       \/ /\ Authenticates(p)
          /\ \E form \in BatchAnswers : ~Takes(form, batch[p])
          /\ Answer(p, "refused")
       \/ /\ config[p].url = "tsunagi"
          /\ enrolment[token[p]] = "disabled"
          /\ Answer(p, "forbidden")
       \/ Unauthorized(p) /\ Answer(p, "unauthorized")
       \/ Answer(p, "unavailable")
    /\ UNCHANGED <<phoneVars, pc, config, token, batch, limit, serverVars, clock, promised>>

\* An IOException, before or after the server has decided.  A request given up
\* before the decision may still be decided later.
Abandoned(p) ==
    IF /\ pc[p] = "uploading"
       /\ reply[p] = "none"
       /\ config[p].url = "tsunagi"
       /\ \E form \in BatchAnswers : Takes(form, batch[p])
    THEN batch[p] \ Bad ELSE {}

LoseCall(p) ==
    /\ pc[p] \in {"registering", "uploading"}
    /\ reply[p] # "lost"
    /\ Answer(p, "lost")
    /\ \E ids \in {{}, Abandoned(p)} : late' = late \cup ids
    /\ UNCHANGED <<phoneVars, pc, config, token, batch, limit, committed, enrolment,
                   clock, promised>>

LateIngest ==
    /\ late # {}
    /\ \E ids \in SUBSET late :
          /\ committed' = committed \cup ids
          /\ late' = late \ ids
    /\ UNCHANGED <<phoneVars, passVars, enrolment, clock, promised>>

\* The batch is dealt with and the loop goes round.
NextBatch(p) ==
    /\ batch' = [batch EXCEPT ![p] = {}]
    /\ Answer(p, "none")
    /\ Goto(p, "select")

\* Faulty: a call that broke off after the request was written counts as taken.
TakeStoredOrLost(p) ==
    /\ pc[p] = "uploading"
    /\ reply[p] \in {"stored", "lost"}
    /\ rows' = MarkSynced(rows, batch[p])
    /\ NextBatch(p)
    /\ UNCHANGED <<received, settings, device, config, token, limit, serverVars, clock, promised>>

\* A 200 without results has always meant that everything was taken.
TakeStored(p) ==
    /\ pc[p] = "uploading"
    /\ reply[p] = "stored"
    /\ rows' = MarkSynced(rows, batch[p])
    /\ NextBatch(p)
    /\ UNCHANGED <<received, settings, device, config, token, limit, serverVars, clock, promised>>

\* Faulty: one refusal and the whole batch goes on to be quarantined.
TakeVerdictsKeepsBatch(p) ==
    LET refused == batch[p] \cap Bad IN
    /\ pc[p] = "uploading"
    /\ reply[p] = "verdicts"
    /\ rows' = MarkSynced(rows, batch[p] \ refused)
    /\ batch' = [batch EXCEPT ![p] = IF refused = {} THEN {} ELSE batch[p]]
    /\ Answer(p, "none")
    /\ Goto(p, IF refused = {} THEN "select" ELSE "quarantine")
    /\ UNCHANGED <<received, settings, device, config, token, limit, serverVars, clock, promised>>

\* markSynced for what was stored; what was refused is left to be quarantined.
TakeVerdicts(p) ==
    LET refused == batch[p] \cap Bad IN
    /\ pc[p] = "uploading"
    /\ reply[p] = "verdicts"
    /\ rows' = MarkSynced(rows, batch[p] \ refused)
    /\ batch' = [batch EXCEPT ![p] = refused]
    /\ Answer(p, "none")
    /\ Goto(p, IF refused = {} THEN "select" ELSE "quarantine")
    /\ UNCHANGED <<received, settings, device, config, token, limit, serverVars, clock, promised>>

QuarantineRefused(p, m) ==
    /\ pc[p] = "quarantine"
    /\ m \in batch[p]
    /\ rows' = Quarantine(rows, {m})
    /\ batch' = [batch EXCEPT ![p] = batch[p] \ {m}]
    /\ Goto(p, IF batch[p] = {m} THEN "select" ELSE "quarantine")
    /\ UNCHANGED <<received, settings, device, config, token, limit, reply,
                   serverVars, clock, promised>>

\* Faulty: a refused batch is quarantined whole.
NeedsNoIsolation(ids) == ids # {}

Isolated(ids) == \E m \in Messages : ids = {m}

\* An answer that blames the message, for a batch of several: one at a time.
Isolate(p) ==
    /\ pc[p] = "uploading"
    /\ reply[p] = "refused"
    /\ ~Isolated(batch[p])
    /\ rows' = MarkFailed(rows, batch[p])
    /\ limit' = [limit EXCEPT ![p] = 1]
    /\ NextBatch(p)
    /\ UNCHANGED <<received, settings, device, config, token, serverVars, clock, promised>>

QuarantineIsolated(p) ==
    /\ pc[p] = "uploading"
    /\ reply[p] = "refused"
    /\ Isolated(batch[p])
    /\ rows' = Quarantine(rows, batch[p])
    /\ limit' = [limit EXCEPT ![p] = BatchSize]
    /\ NextBatch(p)
    /\ UNCHANGED <<received, settings, device, config, token, serverVars, clock, promised>>

\* The connection or the credential is at fault: requeue and end the pass.
UploadFails(p) ==
    /\ pc[p] = "uploading"
    /\ reply[p] \in {"lost", "forbidden", "unavailable"}
    /\ rows' = MarkFailed(rows, batch[p])
    /\ Return(p)
    /\ UNCHANGED <<received, settings, device, serverVars, clock, promised>>

\* Faulty: 403 is handled like 401.
UploadNotAllowed(p) ==
    /\ pc[p] = "uploading"
    /\ reply[p] \in {"unauthorized", "forbidden"}
    /\ rows' = MarkFailed(rows, batch[p])
    /\ batch' = [batch EXCEPT ![p] = {}]
    /\ Answer(p, "none")
    /\ Goto(p, "drop_device")
    /\ UNCHANGED <<received, settings, device, config, token, limit, serverVars, clock, promised>>

UploadUnauthorized(p) ==
    /\ pc[p] = "uploading"
    /\ reply[p] = "unauthorized"
    /\ rows' = MarkFailed(rows, batch[p])
    /\ batch' = [batch EXCEPT ![p] = {}]
    /\ Answer(p, "none")
    /\ Goto(p, "drop_device")
    /\ UNCHANGED <<received, settings, device, config, token, limit, serverVars, clock, promised>>

\* deviceDao.clear(), whichever device the row holds by now.
DropDevice(p) ==
    /\ pc[p] = "drop_device"
    /\ device' = 0
    /\ Return(p)
    /\ UNCHANGED <<rows, received, settings, serverVars, clock, promised>>
-----------------------------------------------------------------------------
(* The end of a pass. *)

Prune(p) ==
    /\ pc[p] = "prune"
    /\ \E expired \in SUBSET Messages : rows' = DeleteSyncedBefore(rows, expired)
    /\ Goto(p, "check_in")
    /\ UNCHANGED <<received, settings, device, config, token, batch, limit, reply,
                   serverVars, clock, promised>>

\* Only a 401 has an effect; whatever else comes back, the pass is over.  A
\* server that knows no check-ins answers 404, and the heartbeat takes over.
CheckIn(p) ==
    /\ \/ /\ pc[p] = "check_in"
          /\ "stored" \in BatchAnswers \/ config[p].url = "elsewhere"
          /\ Goto(p, "heartbeat")
       \/ pc[p] \in {"check_in", "heartbeat"} /\ Unauthorized(p) /\ Goto(p, "drop_device")
    /\ UNCHANGED <<phoneVars, config, token, batch, limit, reply, serverVars, clock, promised>>

CheckInEnds(p) ==
    /\ pc[p] \in {"check_in", "heartbeat"}
    /\ Return(p)
    /\ UNCHANGED <<phoneVars, serverVars, clock, promised>>

\* Cancelled by WorkManager when its network goes, or killed with the process:
\* rows, settings and the device row survive, the pass does not.
StopPass(p) ==
    /\ pc[p] # "idle"
    /\ \E ids \in {{}, Abandoned(p)} : late' = late \cup ids
    /\ Return(p)
    /\ UNCHANGED <<phoneVars, committed, enrolment, clock, promised>>
-----------------------------------------------------------------------------
\* What a pass does by itself once it runs.
PassStep(p) ==
    \/ SweepEnds(p) \/ Requeue(p) \/ ApplyWindow(p) \/ ClearExclusionWindow(p)
    \/ AlreadyRegistered(p) \/ NoSetupKey(p) \/ AskToRegister(p)
    \/ StoreDevice(p) \/ ClearEnrolmentCode(p) \/ RegistrationFails(p)
    \/ Select(p) \/ Upload(p)
    \/ TakeStored(p) \/ TakeVerdicts(p) \/ \E m \in Messages : QuarantineRefused(p, m)
    \/ Isolate(p) \/ QuarantineIsolated(p)
    \/ UploadFails(p) \/ UploadUnauthorized(p) \/ DropDevice(p)
    \/ Prune(p) \/ CheckIn(p) \/ CheckInEnds(p)

ServerStep(p) ==
    \/ ServerRegisters(p) \/ ServerRefusesRegistration(p)
    \/ ServerStores(p) \/ ServerRefusesUpload(p)

UserStep ==
    \/ \E url \in Urls, key \in 0..MaxCodes : SaveConnection(url, key)
    \/ PauseSync
    \/ ResumeSync
    \/ \E on \in BOOLEAN : SetExcludePausedMessages(on)
    \/ ForgetDevice

Next ==
    \/ \E m \in Messages, at \in 1..MaxClock, caught \in BOOLEAN : Arrive(m, at, caught)
    \/ UserStep
    \/ Administer
    \/ LateIngest
    \/ \E p \in Passes :
          \/ StartPass(p)
          \/ \E m \in Messages : SweepStores(p, m)
          \/ PassStep(p)
          \/ ServerStep(p)
          \/ LoseCall(p)
          \/ StopPass(p)

Spec == Init /\ [][Next]_vars

\* A running pass goes on, a call is answered or times out, and the platform
\* starts the periodic chain again whatever its last pass returned.
Fairness ==
    /\ \A p \in Passes : WF_vars(PassStep(p)) /\ WF_vars(ServerStep(p) \/ LoseCall(p))
    /\ \A p \in Periodic : WF_vars(StartPass(p))

FairSpec == Spec /\ Fairness
-----------------------------------------------------------------------------
(* Types. *)

\* Every variable has its type (Entities.kt, SettingsStore.kt, the locals of sync).
TypeOK ==
    /\ rows \in Tables
    /\ received \in [Messages -> Times]
    /\ settings \in Settings
    /\ device \in 0..MaxCodes
    /\ pc \in [Passes -> Stages]
    /\ config \in [Passes -> Settings]
    /\ token \in [Passes -> 0..MaxCodes]
    /\ batch \in [Passes -> SUBSET Messages]
    /\ limit \in [Passes -> {1, BatchSize}]
    /\ reply \in [Passes -> Replies]
    /\ committed \subseteq Messages
    /\ late \subseteq Messages
    /\ enrolment \in [Codes -> EnrolmentStates]
    /\ clock \in 1..MaxClock
    /\ promised \subseteq Messages
-----------------------------------------------------------------------------
(* Safety. *)

\* A message the phone counts as delivered, or has deleted, is one the server
\* committed: markSynced and deleteSyncedBefore never run ahead of the server,
\* however two passes, lost answers and restarts interleave.
AckedIsStored ==
    \A m \in Messages : rows[m] \in {"SYNCED", "PRUNED"} => m \in committed

\* Quarantine is for messages the server refuses: no innocent message that
\* shared a batch with a refused one is ever set aside for good.
QuarantineIsJustified ==
    \A m \in Messages : rows[m] = "QUARANTINED" => m \in Bad

\* Not in the hands of any pass, which marks what it selected by id alone.
Unclaimed(m) == \A p \in Passes : m \notin batch[p]

\* A message held back from a paused session stays held back (SyncStatus.EXCLUDED),
\* and no pass takes it up: neither chain's recovery statement or selection reaches
\* it.  The exception is a message the other chain had selected before it was held
\* back: that chain marks it uploading, whatever its row says by then.
HeldBackStaysHeld ==
    [][\A m \in Messages : rows[m] = "EXCLUDED" /\ Unclaimed(m) =>
          rows'[m] = "EXCLUDED" /\ Unclaimed(m)']_vars

\* A pass drops the device row only after the server has said that it does not know
\* the device this pass authenticates as: never for one an administrator switched
\* off.  The row it drops may be the other chain's newer registration.
DropsOnlyUnknownDevice ==
    [][device > 0 /\ device' = 0 /\ ~ForgetDevice =>
          \E p \in Passes : pc[p] = "drop_device" /\ enrolment[token[p]] = "forgotten"]_vars

Uploads(m) == \E p \in Passes : m \in batch[p] /\ pc[p] = "mark" /\ pc'[p] = "uploading"

\* What the hold-back promise needs of a step: no pass is under way when sync
\* resumes, since it would not see the window and would clear it unapplied;
ResumeBetweenPasses ==
    ~settings.enabled /\ settings'.enabled => \A p \in Passes : pc[p] = "idle"

\* no sweep stops short, since what it leaves behind has no row to hold back;
SweepsComplete ==
    \A p \in Passes : SweepEnds(p) => \A m \in Messages : received[m] > 0 => rows[m] \notin NoRow

\* and a window is applied before the next paused session replaces it.
WindowAppliedFirst == settings.from > 0 => settings'.from \in {0, settings.from}

HoldConditions == ResumeBetweenPasses /\ SweepsComplete /\ WindowAppliedFirst

\* With the option on, a message that was dated in a paused session and had arrived
\* by its end is held back for good (a promise of the code under HoldConditions
\* only).  The date is the service centre's and the session the phone's: a message
\* sent before the pause and delivered during it is uploaded.
PausedSessionIsHeld ==
    [][\A m \in promised : ~Uploads(m)]_vars
-----------------------------------------------------------------------------
(* The abstract outbox. *)

\* What the promise sees of a row: the three statuses in the queue are one.
Fate == [m \in Messages |->
            IF rows[m] \in {"PENDING", "UPLOADING", "FAILED"} THEN "WAITING" ELSE rows[m]]

Sent == late \cup {m \in Messages : \E p \in Passes :
                       m \in batch[p] /\ pc[p] = "uploading" /\ reply[p] = "none"}

Promise == INSTANCE UploadPromise WITH
    Storable  <- Messages \ Bad,
    Refusable <- IF "elsewhere" \in Urls THEN Messages ELSE Bad,
    Exclusive <- \A p, q \in Passes : p = q,
    fate <- Fate, sent <- Sent, stored <- committed

\* Every statement of every pass is a step of the outbox the SyncStatus states
\* promise: whatever is interleaved, lost, repeated or killed, a message leaves
\* the queue only as stored, as refusable or held back, and nothing is deleted
\* before it is stored, nor stored without having been sent.
KeepsUploadPromise == Promise!Spec
-----------------------------------------------------------------------------
(* Liveness. *)

\* The phone is configured, running, and enrolled or able to enrol.
Healthy ==
    /\ settings.url = "tsunagi"
    /\ settings.enabled
    /\ IF device > 0 THEN enrolment[device] = "active"
       ELSE settings.key > 0 /\ enrolment[settings.key] = "pending"

\* A pass stopped other than where it ends by itself, or a call that fails.
Disturbed ==
    \E p \in Passes :
        \/ StopPass(p) /\ ~PassStep(p)
        \/ LoseCall(p)
        \/ ServerStep(p) /\ reply'[p] = "unavailable"

\* Once the phone stays healthy and calls stop failing, every captured message is
\* delivered, or set aside as refused or held back: no row is stranded in
\* UPLOADING by an earlier crash, and no refused message blocks those behind it.
DrainsQueue ==
    (<>[]Healthy /\ <>[][~Disturbed]_vars) =>
        \A m \in Messages :
            rows[m] \in {"PENDING", "FAILED", "UPLOADING"} ~>
                rows[m] \in {"SYNCED", "PRUNED", "QUARANTINED", "EXCLUDED"}
=============================================================================
