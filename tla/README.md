# A verification development for Tsunagi

Tsunagi takes the SMS messages an Android phone receives and makes them available
on a server the user runs. The phone app (`src/app`, Kotlin) captures each SMS
into a local table and uploads it; the server (`src/backend`, FastAPI and
PostgreSQL) stores it and offers it over REST, WebSocket and webhooks; a dashboard
(`src/frontend`, React) shows it.

Two promises carry the system. On the phone's side: *an SMS the phone received
reaches the server, once, unless the user or the server decided otherwise*, across
two background work chains that overlap, processes killed at any moment, networks
that lose answers, registrations that come and go, and an SMS inbox that reports the
same message in two ways. On the server's side: *what the server answered, announced
or switched is so*, although every request is a transaction of its own that races
with others, announcements come after the commit, and queues are bounded.

Contents: 1 inventory · 2 plan · 3 modules and the code · 4 runs · 5 bounds ·
6 fairness · 7 proofs · 8 what the runs found · 9 what is left out.

## 1. Inventory

### The phone

**Message table** (`data/local/Daos.kt`, `Entities.kt`). State: one row per
captured message, its status one of PENDING, UPLOADING, SYNCED, FAILED,
QUARANTINED, EXCLUDED. Operations: the DAO's statements, each atomic. Correct if
SYNCED, QUARANTINED and EXCLUDED are exits that no later statement undoes, and if a
row leaves UPLOADING whatever happens to the process. Hard: a statement sets the
status of a list of ids chosen by an *earlier* statement.

**Sync engine** (`data/TsunagiRepository.kt`, `sync()`). State: the locals of a
pass (settings snapshot, device token, current batch, batch size). A pass sweeps the
inbox, requeues stranded rows, applies the hold-back window, makes sure there is a
device row, uploads batches, applies the server's verdicts, prunes, checks in.
Interacts with every other phone component and with the server. Correct if nothing is
marked delivered that is not stored, only refused messages are quarantined, held-back
messages stay, a registration is dropped only when it is dead, and the queue drains.
Hard: no lock protects a pass, and the two chains are different unique works, so two
passes do run together.

**Capture and inbox sweep** (`sms/SmsReceiver.kt`, `sms/SmsInbox.kt`, `backfill()` in
the repository, `data/MessageIdentity.kt`). State: the watermark. The
broadcast stores a message under an id derived from sender, text and service centre
time; the sweep re-reads the platform's inbox from an overlap before the watermark and
stores what has no row. Correct if one SMS is one row, a resend is a second one, and
the watermark passes over nothing. Hard: two sources that may disagree about the time,
two sweeps at once, a scan limit, retention deleting rows inside the overlap.

**Settings** (`data/SettingsStore.kt`): URL, enrolment code, pause flag,
hold-back option and window, watermark; single edits, read as a snapshot. Hard: the
snapshot outlives the edit. **Scheduling** (`sync/SyncScheduler.kt`,
`SyncWorker.kt`): an immediate and a periodic chain, each with one worker at most.
**UI** (`ui/MainViewModel.kt`): save connection, pause, resume, the hold-back option,
forget device. **HTTP client** (`data/remote/`): answers, failures, nothing kept.
**Platform checks**: read-only.

### The server

**Authentication** (`deps.py`): resolves a bearer to a device, an API key or an
enrolment code; 401 unknown, 403 known and switched off or spent. **Enrolment**
(`services.py`, `repositories.py`, `routers/enrolments.py`): a code is pending until
consumed, expired or cancelled; consuming it and creating the device is one
transaction. Correct if a code never makes two devices and every answer is true. Hard:
cancel against consume, two phones with one code, an answer lost after the commit.

**Message ingest** (`routers/messages.py`, `services.py`): insert if absent, one
commit per batch, announcements after the commit. Correct if an answered batch is in
the table and a row is announced once at most. Hard: ids shared by two phones, row
locks taken in the order of the batch, a crash between commit and announcement.
**Queries, long poll, export** (`repositories.py`, `services.py`): cursors
over `created_at` or `(received_at, id)`, and pages by offset. Correct if a reader gets
what was there. Hard: commits, deletions and other readers between two statements.

**Event bus, audit trail, live frames** (`events.py`, `audit.py`, `routers/ws.py`).
State: a capped log, the table `audit_events`, bounded subscriber queues, and with
`TSUNAGI_REDIS_URL` a channel and a stream that all processes share. `emit` writes the
log, then the trail, then publishes. Correct if a subscriber hears frames in order and
at most once, and hears of nothing that is on no record. Hard: a process that publishes
through Redis is its own subscriber, readers lose their connection, calls are repeated.

**Webhooks** (`webhooks.py`, `routers/webhooks.py`). State: a bounded queue, the
delivery each worker has in hand, a failure count in each row. Correct if an endpoint is
not nagged, the count is the run of failures, and a hook is switched off for cause.
Hard: the count is read, changed in memory and written back by workers, tests and the
administrator. **Device administration and capture health** (`routers/devices.py`,
`services.py`): enable, disable, revoke, clear; check-ins whose transition is announced
once. Hard: overlapping requests decide on rows they read before.

**Rate limiting** (`ratelimit.py`): a fixed-window counter. **API keys, identity,
statistics, wiring, migrations**: plain rows, or no state.

### The dashboard and the scripts

`useApi` (an answer that arrives after its request is out of date), `useLiveFrames`
(reconnect with back-off, frames missed between load and subscription); pages render.
Scripts and deployment only call the server.

`PROJECT.json` lists all components with their status, and under `hazards` the
places where this code can go wrong in ways a test hardly reaches.

## 2. Plan

| Order | Module | Subject | Status |
|---|---|---|---|
| 1 | `MessageStore` | the DAO statements over an abstract table | done |
| 2 | `SyncEngine` (over 1) | passes, registration, uploads, the server as the phone sees it | done |
| 3 | `InboxSweep` | broadcast, inbox, sweep, watermark | done |
| 4 | `SingleUseCode`, `Enrolment` | what a code promises; registrations, cancellations and their transactions, shown to implement it | done |
| 5 | `MessageFeed` | batches, duplicates, announcements, the long poll with its queue | done |
| 6 | `MessageQueries` | export and pages against concurrent writes | done |
| 7 | `WebhookDispatcher` | queue, workers, retries, failure count | done |
| 8 | `DeviceHealth` | check-ins and switches, announced transitions | done |
| 9 | `Broadcast`, `EventBus` | best-effort broadcast; log, trail, publication with and without Redis, shown to implement it | done |
| 10 | `UploadPromise` | abstract outbox: a message is captured, then delivered, refused or held back; `SyncEngine` implements it | done |
| 11 | `AtomicIngest` | the server as the phone relies on it; `MessageFeed` implements it | done |
| 12 | `RateLimiter`, keys and bootstrap | the window counter; two processes that start on an empty database | then |
| 13 | `LiveView` (over 9) | dashboard data layer: stale answers, reconnects | last |

Composition still worth having: `EventBus` under `MessageFeed` and `WebhookDispatcher`,
which now have a queue of their own in one process each (a process with Redis runs the
same code behind the channel).

## 3. The modules and the code

### MessageStore

A table maps each message to a status, or to ABSENT (never captured) or PRUNED
(captured, later deleted). One operator per `MessageDao` statement that changes rows or
selects a batch, with the code's WHERE clause: `MarkSynced` and its siblings set the
status of the listed ids *whatever it was*, as the SQL does. Attempt counts and error
texts are left out; nothing reads them to make a decision.

### SyncEngine

State: `rows` and `received` (the table), `settings`, `device` (the phone's storage);
`pc`, `config`, `token`, `batch`, `limit`, `reply` (a pass's locals and the request it
has in flight); `committed`, `late`, `enrolment` (the server); `clock`; `promised` (a
history variable). Codes are numbered; a code makes at most one device, so its number
also stands for that device and its token, and 0 for none.

| Code | Actions |
|---|---|
| `SmsReceiver.onReceive`, or an SMS only the inbox has | `Arrive` |
| `MainViewModel` commands, `SettingsStore` edits | `SaveConnection`, `PauseSync`, `ResumeSync`, `SetExcludePausedMessages`, `ForgetDevice` |
| the administrator, a lost database | `Administer` (`SetEnrolment`, `ServerReset`) |
| `sync()`: guards, sweep, requeue, window | `StartPass`, `SweepStores`, `SweepEnds`, `Requeue`, `ApplyWindow`, `ClearExclusionWindow` |
| `ensureRegistered()` | `AlreadyRegistered`, `NoSetupKey`, `AskToRegister`, `StoreDevice`, `ClearEnrolmentCode`, `RegistrationFails` |
| the server on `/devices/register` | `ServerRegisters`, `ServerRefusesRegistration` |
| the upload loop | `Select`, `Upload`, `NextBatch` |
| the server on `/messages/batch` | `ServerStores`, `ServerRefusesUpload` |
| `applyVerdicts()` | `TakeStored`, `TakeVerdicts`, `QuarantineRefused` |
| `catch` branches, `handleHttpError()` | `Isolate`, `QuarantineIsolated`, `UploadFails`, `UploadUnauthorized`, `DropDevice` |
| `prune()`, `checkIn()`, `heartbeat()` | `Prune`, `CheckIn`, `CheckInEnds` |
| the network, WorkManager, process death | `LoseCall`, `LateIngest`, `StopPass` |

One action is one DAO statement, one settings access or one event of a request,
because that is where two passes can interleave: coroutines suspend there and nowhere
else does shared state change. The network is modelled by three outcomes of a request:
decided and answered; decided and the answer lost; given up by the phone and decided
later or never (`late`). `StopPass` is both WorkManager stopping a worker and the death
of the process, which is both chains being stopped: a pass has no state outside the
database and the settings. `BatchAnswers` says how the server may answer a batch: message
by message ("verdicts"), or for the whole batch ("stored", or a 422), as a server did
before it had verdicts; with both, an upgrade may fall between any two requests.

`received` is what the row carries, the service centre's time (`SmsReceiver.kt:119`, and
DATE_SENT for the sweep), while pauses are dated by the phone's clock: `Arrive` gives a
message any date, before or after the moment it arrives at.

Abstractions, and why the properties cannot tell: the clock moves only at a pause or a
resume, since only the hold-back window is compared with dates; the server's own failures are one answer, "unavailable" (408, 429, 5xx), as the
phone treats them alike; the outcome of a pass (success, retry, failure) is left out,
because a new pass may start at any time anyway; the inbox sweep is reduced to storing
missing messages and stopping anywhere, `InboxSweep` has it in detail; the registration
request is decided before the phone gives up on it.

`UploadPromise` is what the `SyncStatus` states promise of a message: it waits; it is
delivered once the server has it, refused, or held back; only a delivered message is
deleted; a server has nothing that was not sent to it. The three statuses in the queue are
one there, and so is everything a pass does between its statements. Its constant
`Exclusive` says whether one worker empties the outbox: then a message is settled once.
With two chains, a late statement may settle or requeue what the other has settled, and
the promise is weaker by just that. `SyncEngine` implements it (`KeepsUploadPromise`).

### InboxSweep

State: `clock`; `stamp` (service centre time of each copy), `inbox` (DATE in the
platform's inbox), `heard` (stored from the broadcast); `rows`; `watermark`; per sweep
`pc`, `cutoff`, `found`, `todo`, `claimed`; and history: among it `vain`, the texts of
undated copies a sweep found no row for, and `late`, the copies broadcast only after that. A row is a pair of text and
timestamp, which is what its id is derived from. `Broadcast` is `captureSms` from the
receiver, `StartSweep` to `Finish` are `backfill()`: read from an overlap before the
watermark, and for each candidate, oldest first, `Find` by id, `Match` a row of the same
text nearby no earlier candidate has claimed, or `Store`. Each is a step of its own, so a
broadcast, retention or the other chain's sweep can come between any two. `Stop` is an
unreadable inbox, a failure or a stopped worker.

For a copy in `Undated` the inbox has no service centre time (DATE_SENT is zero) and
reports DATE, so broadcast and sweep derive different ids for it and only the match window
brings them together. DATE is in milliseconds and unique, at most `Lag` behind the clock
when the row is written; a copy is delivered within `Delay`. Deletions from the inbox by the user are
left out (what is no longer there cannot be swept).

### Enrolment, over SingleUseCode

`SingleUseCode` is what the model class promises: "a single-use code that authorizes
exactly one device registration". `Enrolment` is the code: requests with a transaction
each, at READ COMMITTED, with row locks. A SELECT sees what is committed; an UPDATE
waits for the row's lock and evaluates its WHERE on the row as it is then.

| Code | Actions |
|---|---|
| `EnrolmentService.create`, the passing of `expires_at` | `Issue`, `Expire` |
| `resolve_principal`, the check of the credential | `Present` |
| `DeviceService.register`: device row, `EnrolmentRepository.consume`, commit, two events | `InsertDevice`, `Consume`, `Commit`, `Announce`, `AnnounceUse` |
| `DELETE /enrolments/{id}`: look-up, UPDATE, commit, event | `FindCode`, `Cancel`, `CommitCancel`, `AnnounceCancel` |
| an error, a broken connection, a process that dies | `Fail` |

`inTime` records that the time compared with `expires_at` is the one the statement was
sent at, not the one at which it got the lock. The refinement maps `Fate`, what an
observer of the committed rows sees of a code, and the committed devices.

### MessageFeed

State: the rows with their `created_at` (`clock`, `stamp`, `stored`, `owner`); per upload
`pc`, `left`, `fresh`; the long poll (`poll`, `queue`, `cursor`); history of what was
told, received, wiped, overtaken and left unheard.

| Code | Actions |
|---|---|
| `insert_if_absent` and its look-up after an IntegrityError | `Insert`, `Lookup` |
| `ingest_batch`, `ingest`: commit, `_announce`, `sync.event` and `SYNC_OK` | `Commit`, `Announce`, `Summarise` (`Single` for a batch of one) |
| errors, crashes, PostgreSQL's deadlock detection | `Fail`, `BreakDeadlock` |
| `DELETE /devices/{id}/messages` and its event | `Clear`, `AnnounceClear` |
| `wait_for_new`: subscribe, read, wait, time out | `StartPoll`, `ReadSince`, `Wake`, `TimeOut` |
| the client's connection | `LoseCall` |

`AtomicIngest` is the server that `SyncEngine` gives the phone: an upload is taken whole,
in one step, or not at all, and answered only once it is taken. `MessageFeed` implements it
(`UploadsAreAtomic`), insert by insert, which justifies `SyncEngine`'s one `ServerStores`.

### MessageQueries

`ExportChunk` is one statement of `iter_filtered` (keyset over `(received_at, id)`),
`WalkPage` one page by OFFSET, newest first; `Upload` and `Clear` change the table
between them; `Start` begins either. `steady` remembers what was there throughout,
`shrunk` that rows were deleted.

### WebhookDispatcher

| Code | Actions |
|---|---|
| `_pump` and `_fan_out`: the hooks that want an event, `put_nowait` | `FanOut`; `Miss` for an event whose look-up fails or which the pump never got |
| `_worker`, `deliver`: take, POST with retries | `Take`, `Send` |
| `_record`: read the row, write it back, switch off, event; the worker's `except` | `Read`, `Record`, `Tell`, `RecordFails` |
| `routers/webhooks.py`: create, test, enable, disable, delete | `Create`, `Open`, `SendTest`, `RecordTest`, `SwitchOn`, `SwitchOff`, `Delete` |
| the process stops and starts again | `Crash` |

The worker survives every error. Before the commit nothing is recorded (`RecordFails`); a
commit that takes effect and raises, or an `emit` that raises, loses the event that tells
of a switch-off (`notice` is "lost").

### DeviceHealth

One device. `Authenticate` reads the row a check-in will compare with, `Record` writes
the columns that changed and commits, `Announce` emits the transition; `Find`,
`SetEnabled`, `Revoke` and `AnnounceSwitch` are the administrator's; `Refuse` is the 403 of
a device that is off, `Fail` an error at any point. A request's slot is free again once it is over,
so there is no bound on how many requests there are. `muddled` records that an
overlapping write or a lost or late event makes the last announcement say nothing.

### EventBus, over Broadcast

`Broadcast` is the promise: over one connection, the publications in their order, each
at most once, any of them missing. `EventBus` has processes, in-process or with Redis as
the configuration says (`redis` is chosen at the start).

| Code | Actions |
|---|---|
| the lifespan of a process | `Start`, `Stop` |
| `_read_loop`: connect, lose the connection, forward locally | `Resubscribe`, `LoseConnection`, `ReadLoop` |
| `subscribe`, the socket, `pump_events` | `Subscribe`, `Unsubscribe`, `Forward` |
| `emit`: log, `persist_event`, publish | `Record`, `PersistEvent`, `Publish`, `PublishFails` |
| `publish` called by a request | `Announce` |

A frame is known by its position in `published`, so that two publications of one event
(a repeated Redis call) are told apart. In the in-process bus a batch's frames are
published without suspension; a step for each frame allows more interleavings, not fewer.

### The MC modules

They name model values, give functions (`MCMessageFeed`: two phones that caught the same
two texts and upload them in opposite orders; `MCMessageQueries`: five messages of two
phones with ties) and symmetry (`MCDeviceHealth`, `MCEventBus`, `MCSyncEngine`,
`MCInboxSweep`). `MCSyncEngine` also has an action constraint, `OptionSettled`: the
hold-back option is not touched once no pause is left; and `ServerSteady`, which
`paused_session` uses: the administrator leaves this phone's code and device alone.
`MCInboxSweep` has `PlatformFirst`: a copy is in the inbox before it is broadcast. The
conditions under which some
properties hold are part of the modules, because theorems name them too. In `SyncEngine`
they are conditions on steps: `ResumeBetweenPasses` (sync resumes while no pass runs),
`SweepsComplete` (no sweep stops short), `WindowAppliedFirst` (a window is applied before
the next pause replaces it), together `HoldConditions`; in `InboxSweep`,
`LooksBackFarEnough` (a watermark is set within the look-back of the first sweep).

## 4. The runs

| Run | States | Checks | Shows |
|---|---|---|---|
| `two_passes` | 1,283,620 | `TypeOK`, `AckedIsStored`, `QuarantineIsJustified`, `DropsOnlyUnknownDevice` | With two concurrent passes, lost answers, late requests, kills, resets and both kinds of server, nothing counts as delivered that the server does not have, no good message is quarantined with a bad one, and a registration is dropped only by a pass whose own device the server does not know. |
| `paused_session` | 879,450 | `HeldBackStaysHeld`, `PausedSessionIsHeld` | Two chains, one paused session, a message dated before, in or after it, under the conditions of section 3: what was promised to be held back is, and held back is final for what no pass has in hand. |
| `drain` | 77,751 | `DrainsQueue`, `KeepsUploadPromise` | Once the phone is healthy and calls stop failing, every queued message is delivered, quarantined or held back, after kills, with a bad message, after time spent pointed at a foreign server; every step keeps the promise of the abstract outbox. |
| `sweep_two_passes` | 2,349,004 | `TypeOK`, `StoredOnce`, `SkipsNothing` | Two sweeps and the broadcast together, over an undated copy and its dated resend: no copy gets a second row unless it is broadcast after a sweep looked for it in vain, and the watermark steps over nothing. |
| `resend_swallowed` | 3,823 | `ResendsKeptApart` | fails: a missed message is taken for its resend (section 8) |
| `enrolment` | 107,232 | `TypeOK`, `CodeAndDeviceTogether`, `AnswersAreTrue`, `EventsAreTrue`, `CodeIsSingleUse`, `EveryRequestEnds` | Three registrations and a cancellation race for one code: it makes one device at most, every answer and event is true, nobody waits for ever, and the whole implements `SingleUseCode`. |
| `feed` | 472,186 | `TypeOK`, `AnnouncedOnce`, `NoLostWakeUp`, `SkippedOnlyIfOvertaken`, `UploadsAreAtomic`, `UploadsEnd`, `PollerCatchesUp` | Two uploads that share ids, a deadlock between them, deletions and a long poll with a full queue: uploads are atomic and answered only once taken, no wake-up is lost, and the poller catches up. |
| `poll_skips` | 5,456 | `PollSkipsNothing` | fails: a row stamped earlier and committed later is never given (section 8) |
| `queries` | 7,542 | `TypeOK`, `ExportIsComplete`, `WalkMissesNothing`, `EveryReadEnds` | Exports are complete and ordered whatever is written meanwhile; pages by offset miss nothing unless rows were deleted. |
| `webhooks` | 130,046 | `TypeOK`, `NoNagging`, `CountIsTheRun`, `SwitchedOffForCause`, `QueueDrains` | Two workers, a test and an administrator on one hook, across a restart, failed commits and failed events. |
| `devices` | 1,045,968 | `TypeOK`, `AlarmTellsStatus`, `NoticeTellsSwitch`, `RevokedStaysOut` | Overlapping check-ins and switches without a bound on their number: the last announcement tells the row, revoked is for good. |
| `events` | 440,364 | `FramesAreOnRecord`, `BestEffortBroadcast` | Two processes with or without Redis, lost connections, repeated calls, restarts: what is heard is on record, in order, and once. |

Every property of a passing run has a mutant, an operator marked "Faulty"
that stands next to the definition it replaces: a dropped guard, a status too many,
a window cut in half, a missing recovery, a copy left to a background task.

Deadlock is checked where nothing ends: `devices` and `queries`. In the others a bound
stops the model (requests, events or arrivals run out), or the end is legitimate.

## 5. Bounds

*SyncEngine.* Two messages, one of which the server refuses, are what isolation and
verdicts need: a batch with an innocent and a guilty member. Two passes are all the app
can have. One code suffices for every history of a registration (pending, spent,
disabled, closed, forgotten by a reset). `MaxClock` 1 means no pause, 3 one pause and
resume. `BatchSize` 2 is the batch of both messages. `paused_session` has both chains, and
so one message, one pause, a steady server, and sync resumed between passes with complete
sweeps; with one pause no window is replaced, so `WindowAppliedFirst` holds by itself. Two
and more pauses are for the theorems, of which `HeldBackIsFinal` needs no condition at
all. `drain` has one chain: with two, liveness would have to be asked of both together,
and `KeepsUploadPromise` for two chains is a theorem (`ImplementsUploadPromise`). One code
cannot show a 401 that meets a newer registration (section 8); `DropsOnlyUnknownDevice` is
about which 401 counts, and its theorem has any number of codes.

*InboxSweep.* Times reach 5, a clock long enough for a copy to leave the overlap, be
pruned and be found again; the limit is 1, below the number of copies, so that it
bites; the overlap is greater than the lag in `sweep_two_passes`, as the code's (10
minutes) is by far; the delay is no longer than the match window; its look-back is 2,
shorter than the clock, so that behaviours go on after the look-back has lost sight of the
first copies. Two copies of one text, one of them undated, are what two rows for one copy,
or one row for two, take. `resend_swallowed` has neither lag nor delay nor an undated copy,
one chain and a limit that cuts nothing off: none of them is needed.

*Enrolment.* Three registrations are two that race and one that retries or brings a key;
one code, since codes share nothing. *MessageFeed.* Batches of two and three that share
two ids in opposite order are the smallest that deadlock; `Limit` 1 makes a reader come
back, `QueueSize` 2 is full after one message's two frames; one of the two devices is
cleared. *MessageQueries.* Five messages in chunks of 2: three chunks, a tie across a chunk
boundary, one row the filter leaves out. *WebhookDispatcher.* Two events, two workers, one
place in the queue, two attempts and a limit of two failures let one delivery wait,
one be dropped and two records race. *DeviceHealth.* Two check-ins and two administrators
at a time, for ever. *EventBus.* Two processes and a client, two events (one the trail
skips) and a plain frame, two log entries kept, one repeated call.

The theorems of section 7 remove all these bounds from the safety properties.

## 6. Fairness

`SyncEngine` (`FairSpec`): a running pass takes its next step; a call is answered or
times out (OkHttp has timeouts); the periodic chain starts again (WorkManager reschedules
periodic work whatever its last result). Nothing is assumed of the
user, the administrator, the immediate chain or the network. `DrainsQueue` adds as
hypotheses that the phone is healthy from some point on, and that from some point on no
call is lost, no 5xx answered and no pass stopped: without any of these the queue
rightly stays. `InboxSweep` states none.

`Enrolment`: an accepted request goes on (weak fairness of the server's next step for
it), which a coroutine with a database behind it does; no client has to present
anything. `MessageFeed`: an upload that has begun goes on; the client loops over its
calls and the wait times out (`asyncio.wait_for`); strong fairness of `ReadSince`, because a
call may be lost again and again before its read, yet a client that retries gets one
through some day. `MessageQueries`: the server streams as long as the client reads.
`EveryReadEnds` also needs the uploads to end, as finitely many messages do: an export has
no upper bound, and new rows push the old ones ahead of a walk's offset, so beside endless
uploads neither need end.
`WebhookDispatcher`: workers go on, since every request of theirs has a timeout.
`DeviceHealth` and `EventBus` state none: a best-effort broadcast promises no delivery.

## 7. What is proved

With TLAPS, for all values of the constants that meet the module's assumption (a finite
set of messages, a positive batch or queue size, values that are not confused with each
other, and the like):

| Theorem | Extra assumption | Invariant behind it |
|---|---|---|
| `SyncEngine_proofs!TypeCorrect` | none | `TypeOK` is inductive |
| `AckedIsAlwaysStored` | none | `AckInv` |
| `QuarantineIsAlwaysJustified` | no foreign web server among the URLs | `QuarantineInv` |
| `HeldBackIsFinal`, `SyncedIsFinal` | none | `TypeOK` |
| `DropsOnlyUnknown` | none | `DeviceInv` |
| `PausedSessionIsAlwaysHeld`, `PromisedNeverLeavesPhone`, `PromisedStaysHeldBack` | every step meets `HoldConditions` | `AckInv`, `HoldInv` |
| `ImplementsUploadPromise` | none | `PromiseInv` (with `OwnInv` where there is one chain) |
| `InboxSweep_proofs!TypeCorrect` | none | `TypeOK` is inductive |
| `SmsIsStoredOnce` | `Delay <= MatchWindow`; no two copies share a text | `OnceInv` |
| `WatermarkSkipsNothing` | `Lag < Overlap`; `LooksBackFarEnough` at all times | `WatermarkInv` |
| `Enrolment_proofs!TypeCorrect`, `OneDevicePerCode`, `AnswersAreAlwaysTrue`, `EventsAreAlwaysTrue`, `ImplementsSingleUse` | none | `IInv` |
| `MessageFeed_proofs!TypeCorrect`, `AnsweredIsAlwaysStored`, `AlwaysAnnouncedOnce`, `NoWakeUpIsLost`, `OnlyTheOvertakenIsSkipped` | none | `IInv` |
| `ImplementsAtomicIngest` | none | `IInv`, `OwnInv` |
| `MessageQueries_proofs!TypeCorrect`, `ExportIsAlwaysComplete`, `WalkNeverMisses` | none | `IInv` |
| `WebhookDispatcher_proofs!TypeCorrect`, `EndpointsAreNotNagged`, `CountIsAlwaysTheRun`, `AlwaysSwitchedOffForCause` | none | `IInv` |
| `DeviceHealth_proofs!TypeCorrect`, `AlarmAlwaysTellsStatus`, `NoticeAlwaysTellsSwitch`, `RevokedIsPermanent` | none | `IInv` |
| `EventBus_proofs!TypeCorrect`, `HeardIsOnRecord`, `ImplementsBroadcast` | none | `IInv` |

Why the strengthenings are needed:

* `AckInv`: that no row is SYNCED without being committed says nothing of the answer a
  pass is about to act on. The invariant adds that a waiting positive answer vouches for
  the batch it answers: all of it if "stored", all but the refused ones if "verdicts".
  No statement but `markSynced` delivers anything, hence two passes cannot hurt.
* `QuarantineInv` adds that a waiting refusal is about a batch with a bad message in it,
  and that what is left of a batch after its verdicts is bad. A batch of one
  with a bad message in it is that message, so isolation blames the right one.
* `HeldBackIsFinal` and `SyncedIsFinal` need no more than the types: the statements that
  reach a row by its status (recovery, selection, pruning) skip EXCLUDED and SYNCED rows,
  and those that reach it by id have it from a batch. What is in no batch therefore
  stays, and stays out of batches, for any number of chains. What the other chain had
  selected is the exception, and it is real (section 8).
* `DeviceInv`: a pass's token is that of a device the server made, and a pass that is about
  to drop the device row was rejected for a device the server has forgotten, which is
  permanent. Whether the row it drops is still that device's is another matter (section 8).
* `OwnInv`, for one chain: a pass owns its batch. Between the query and the statement that
  settles the rows they stay queued, then UPLOADING; so an update by id never hits a row
  that has become SYNCED or EXCLUDED.
* `HoldInv`: a promised message is in no batch and no request, and is either set aside
  already or inside the stored window. A pass that has yet to apply a window carries a
  copy of the stored one; the message has a row, and not an UPLOADING one, when its turn
  comes; a pass past that point means that no window is stored. Two chains may do all
  this at once. Each of the three conditions keeps one part of it: a pass that misses the
  window, a row that is not there yet, a window replaced before it was applied.
* `PromiseInv` puts the invariants above together, each under the condition it needs. An
  answer that tells the truth makes the statement that follows it a step of the outbox;
  with one chain, `OwnInv` makes it a step on waiting messages.
* `OnceInv`: a row of a copy has its service centre time, or the inbox's where a sweep
  has looked for it in vain; and then only the inbox's, unless the broadcast came later. A
  sweep that comes to an undated copy with a row finds that row: its time is within the
  delay, so within the match window, and nobody has claimed it, because a sweep claims
  rows of the text it is at, and no other copy has it. That is where resends would break the
  argument; for two copies of a text `StoredOnce` is checked by TLC.
* `WatermarkInv`: every copy stored after the app first looked and older than the
  watermark by the overlap has been examined; the same holds for the time each running
  sweep read from, and for each candidate up to what is still to do. A copy that arrives
  later is dated after all of these because its lag is smaller than the overlap. Hence
  the watermark may even move back, when the slower of two sweeps ends last, without
  harm. Before a watermark is set nothing is claimed of what the phone held before the
  first sweep; `LooksBackFarEnough` covers what arrived since.
* `Enrolment`: a transaction that has updated a code holds its row lock, only one does,
  and what it will commit is still true when it commits (`LockInv`, `StageInv`). Used and
  cancelled exclude each other (`FateInv`). Every step then is one step of
  `SingleUseCode`, or none: only `Commit` and `CommitCancel` change what is committed.
* `MessageFeed`: no `created_at` is given out twice, so a row is known by its id and
  stamp, and the uncommitted rows of two requests are disjoint (`FreshInv`). An answered
  duplicate rests on a row that was committed when it was looked up (`BatchInv`). For the
  wake-up (`NoLostWakeUp` is inductive with the rest), a committed row that is not yet
  announced is in the `fresh` of a request that will.
* `OwnInv` of `MessageFeed`: what an upload inserts and has left to insert is of its own
  batch. The commit is the step of `AtomicIngest` that takes the batch: by `BatchInv`, what
  was not inserted then was taken before; everything else is no step of it.
* `MessageQueries`: both orders are strict and total, and a finite set has a lowest chunk
  under each. What an export has given lies up to its cursor, and of the rows that were
  there throughout it has given all up to there. For the walk, a row that was there
  throughout and is not given has at least `offset` rows above it, as insertions only add
  to them.
* `WebhookDispatcher`: a delivery is in one place, the queue or a worker's hand
  (`PlaceInv`), so nothing is sent for it after it is settled (`SendInv`); a count never
  exceeds the failures recorded, in the row and in every copy in memory (`CountInv`).
* `DeviceHealth`: as long as nothing was muddled, at most one request has something left
  to announce, and what it will say is what the row says. Revocation is in a column of
  its own that the write of a switch does not touch.
* `EventBus`: what a client has heard comes before what waits in its queue, and that
  before what is on the way to its process, each a rising sequence of positions
  (`OrderInv`). A publication is later than them all; with Redis it goes to the channel
  only. A call that is past a record has left it there (`CallRecordInv`).

Only model-checked: the liveness properties (`DrainsQueue`, `EveryRequestEnds`, `UploadsEnd`, `PollerCatchesUp`, `EveryReadEnds`, `QueueDrains`), which
are outside what is proved here, and `StoredOnce` for copies that share a text.

## 8. What the runs found

`poll_skips` shows a disagreement between the code and what it says of itself.
`created_at` is taken before the INSERT, and a row can be read from its commit on. A
message stamped earlier may therefore appear after a client has carried `since` past it,
and no later call returns it; the router and the API guide call storage time "monotonic
for a poller". `SkippedOnlyIfOvertaken` is what holds instead.

`resend_swallowed` shows another. A message is in the inbox, its broadcast was missed (the
app was stopped, or its process died before the write); the same text is sent again within
ten minutes and this time the broadcast stores it. The sweep comes to the first copy, finds
no row under its id, and takes the row of the second for it: it is near, it has the text,
and nobody has claimed it yet. The second copy then finds its own row. Two copies, one
row, although `TsunagiRepository.kt:171-175` and `Daos.kt:57-60` say that a message and its
resend are kept as two. Delayed copies, two chains, a scan limit and the watermark have
other ways to the same end (`BACKFILL_OVERLAP_MILLIS` and `BACKFILL_MATCH_WINDOW_MILLIS`
are both ten minutes, so an earlier copy may have left the overlap, its row unclaimed, while
it is still in the window of a later one).

Conditions of passing runs and theorems that come from the code:

* *Two chains.* A message that one chain has selected when the other holds it back is
  marked and uploaded all the same, although "it never leaves" (`Entities.kt:26-30`):
  `HeldBackStaysHeld` excepts it. A 401 for an old token drops a newer registration
  (`deviceDao.clear()` deletes whichever row is there, `TsunagiRepository.kt:509`), and
  since the code was cleared when it was spent, the phone waits for a new one:
  `DropsOnlyUnknownDevice` does not exclude it. A starting pass requeues the rows
  the other chain is uploading: harmless to the server, which answers a repeat as a
  duplicate.
* *Paused sessions.* A message sent before the pause and delivered during it is uploaded,
  because rows are dated by the service centre and the window by the phone
  (`SettingsStore.kt:196,213`), while the app promises it for messages "received while
  paused" (`HomeScreen.kt:278`, `CHANGELOG.md:67-74`): `PausedSessionIsHeld` is about those
  dated in the session. Pausing twice before a pass has run forgets the first window
  (`WindowAppliedFirst`); a pass under way when sync resumes clears the new window without
  having applied it (`ResumeBetweenPasses`); the window is cleared even when the sweep
  before it was cut short (`SweepsComplete`).
* *Phone.* A 404 from a host that is not Tsunagi counts as the
  message's fault and quarantines it. A spent code is deleted, so a phone whose server
  was reset has nothing to register with; and `clearEnrolmentCode` removes a newer code
  as well.
* *Sweep.* An undated copy swept before its broadcast is stored twice (`late`). If one
  overlap holds as many copies as the scan limit, the watermark stands still; without a
  watermark, a pause longer than the look-back skips what the broadcast missed
  (`LooksBackFarEnough`).
* *Enrolment.* A code is spent with its device even if the answer is lost; who loses the
  race with a cancellation or the expiry is told that the code "has already been used".
* *Ingest.* If an administrator clears the row that stood in the way of an INSERT before
  it is looked up, the IntegrityError fails the whole batch (`repositories.py:137` expects
  that "only on a FK violation"); the phone sends it again. A crash between commit and
  announcements loses them for good: the retry finds duplicates (`unheard`).
* *Queries.* Deletions pull rows to earlier pages, so a walk by OFFSET misses some
  (`shrunk`); a page's `total` and rows are two statements. The guide's reconciliation by
  `after` filters `received_at`, so a backlog that arrives late is older than what is asked for.
* *Webhooks.* A count read before the administrator switches a hook on is written back
  after it, so the reset is lost (`raced`), although "turning it back on resets the
  count". A full queue drops the newest event, the comment at its size says the
  oldest (`webhooks.py:46`). What is queued is still sent after a hook is disabled or deleted.
  A restart loses the queue, and the event that says a hook was switched off
  (`crashed`); so does an `emit` or a commit that raises, which the worker only logs
  (`notice`). With Redis, several processes each deliver every event.
* *Devices.* Overlapping check-ins merge their columns, and announce in any order
  (`muddled`). Enabling a device that was loaded as enabled does nothing, even if a
  disable has committed since.
* *Event bus.* The Redis client may repeat a call whose answer was lost: "exactly once"
  (`events.py:129`) holds for each publication, not for each frame. When Redis is down
  `emit` raises after the business commit, and no copy is tried. A subscriber that connects may get
  frames published before that, and one that reconnects to a process behind may hear
  frames again: the promise is for one connection. `recent` reads five times the limit
  (`events.py:204`) and may return less than a full page once filtered.

## 9. What is left out

Not modelled: the rate limiter (one counter per window and credential, incremented
without suspension or by an atomic INCR; that a fixed window lets through twice the limit
across its edge is documented); API keys and bootstrap (single statements; two processes
that start on an empty database would both create a key, and revoking all admin keys
while another is active leaves no bootstrap); statistics and wiring (read-only);
migrations (run while the server is down); the dashboard (planned, item 13); platform
checks, scripts and deployment (no state).

Within what is modelled: wording, formats, logging and layout; `attempt_count` and
`last_error`; `lastSyncAt`, `lastSyncError`, `lastSweptAt`, which are only shown or
reported; the durability of `SharedPreferences.apply()`; the reusable setup key of older
servers, whose registration never spends a code; back-off times; PDU assembly; signing
of webhooks and HTTP itself; reading the log; Redis losing its data.
