---------------------------- MODULE MessageFeed ----------------------------
(***************************************************************************)
(* From an upload to a client that polls for it (services.MessageService,  *)
(* MessageRepository, EventBus, routers/messages.py): every upload request *)
(* stores its batch in one transaction and announces what was new after    *)
(* the commit; a client loops over GET /messages/wait, woken by the bus,   *)
(* and carries `since` forward as the newest created_at it was given.      *)
(*                                                                         *)
(* PostgreSQL at READ COMMITTED: a row is seen from its commit on; an      *)
(* INSERT of an id that an open transaction has inserted waits for it, and *)
(* two transactions that wait for each other are found and one is aborted. *)
(* created_at is read from the clock before the INSERT, never equal twice. *)
(* Which messages are acceptable is SyncEngine's subject: a batch here     *)
(* holds what parse_batch let through.                                     *)
(***************************************************************************)
EXTENDS Naturals, FiniteSets, Sequences, SequencesExt

CONSTANTS
    Messages,   \* ids; a retry, or another phone that saw the text, uses the same
    Devices,
    Requests,   \* upload requests; a retry is a request of its own
    Batch,      \* what each request uploads, in order
    From,       \* the device each request comes from
    Limit,      \* rows of one list_since (100)
    QueueSize,  \* frames a subscriber's queue holds (256)
    Cleared     \* devices whose messages an administrator deletes, once

ASSUME FeedAssumption ==
    /\ IsFiniteSet(Messages)
    /\ Batch \in [Requests -> Seq(Messages)]
    /\ Devices # {} /\ From \in [Requests -> Devices] /\ Cleared \subseteq Devices
    /\ Limit \in Nat \ {0} /\ QueueSize \in Nat \ {0}

VARIABLES
    clock,      \* the last created_at given out
    stamp,      \* messages.created_at of the latest insertion of an id
    stored,     \* ids with a committed row
    owner,      \* messages.device_id of the latest insertion of an id
    wiped,      \* history: <<id, created_at>> of rows clear_messages deleted
    cleared,    \* devices whose messages an administrator has deleted
    telling,    \* those of them whose event is still to come
    pc,         \* where each upload request is
    left,       \* what the request has still to insert
    fresh,      \* <<id, created_at>> its transaction inserted; once committed, to announce
    told,       \* history: the message.new frames, as <<request, row>>
    poll,       \* where the polling client is: between calls, reading, waiting
    queue,      \* the frames in the call's queue: message.new, or any other type
    cursor,     \* the `since` of the client's calls
    received,   \* history: <<id, created_at>> of rows the client was given
    overtaken,  \* history: rows not yet committed when the cursor passed them
    unheard     \* history: rows whose frame a crash or a full queue swallowed

upload == <<pc, left, fresh, told>>
client == <<poll, cursor, received, overtaken>>
table == <<clock, stamp, stored, owner>>
admin == <<wiped, cleared, telling>>
vars == <<table, admin, upload, client, queue, unheard>>

Stages == {"new", "insert", "lookup", "announce", "answered", "failed"}
Open(r) == pc[r] \in {"insert", "lookup"}
Uncommitted == UNION {ToSet(fresh[r]) : r \in {s \in Requests : Open(s)}}
Row(m) == <<m, stamp[m]>>
Present(row) == row[1] \in stored /\ stamp[row[1]] = row[2]

Init ==
    /\ clock = 0 /\ stored = {} /\ wiped = {} /\ cleared = {} /\ telling = {} /\ told = {}
    /\ stamp = [m \in Messages |-> 0]
    /\ owner = [m \in Messages |-> CHOOSE d \in Devices : TRUE]  \* until it is inserted
    /\ pc = [r \in Requests |-> "new"]
    /\ left = Batch
    /\ fresh = [r \in Requests |-> <<>>]
    /\ poll = "idle" /\ queue = <<>> /\ cursor = 0
    /\ received = {} /\ overtaken = {} /\ unheard = {}

Goto(r, stage) == pc' = [pc EXCEPT ![r] = stage]

\* Faulty: a queue without a bound.
PutAlways(q, frames) == q \o frames

\* The queue once the frames are put into it; a full queue drops what comes.
Put(q, frames) ==
    LET room == QueueSize - Len(q) IN
    q \o IF Len(frames) <= room THEN frames ELSE SubSeq(frames, 1, room)

Publish(frames) == queue' = IF poll = "idle" THEN <<>> ELSE Put(queue, frames)
Overflows == poll # "idle" /\ Len(queue) = QueueSize
-----------------------------------------------------------------------------
(* POST /messages and /messages/batch. *)

HeldBy(s, m) == Open(s) /\ \E row \in ToSet(fresh[s]) : row[1] = m

\* Faulty: an id that another transaction has inserted counts as stored.
InsertWithoutWaiting(r) ==
    /\ pc[r] \in {"new", "insert"} /\ left[r] # <<>>
    /\ LET m == Head(left[r]) IN
        IF m \in stored \/ \E s \in Requests : HeldBy(s, m)
        THEN /\ left' = [left EXCEPT ![r] = Tail(@)]
             /\ Goto(r, "insert") /\ UNCHANGED <<table, fresh>>
        ELSE /\ clock' = clock + 1
             /\ stamp' = [stamp EXCEPT ![m] = clock + 1]
             /\ owner' = [owner EXCEPT ![m] = From[r]]
             /\ fresh' = [fresh EXCEPT ![r] = Append(@, <<m, clock + 1>>)]
             /\ left' = [left EXCEPT ![r] = Tail(@)]
             /\ Goto(r, "insert") /\ UNCHANGED stored
    /\ UNCHANGED <<admin, told, client, queue, unheard>>

\* insert_if_absent: a new row, or an IntegrityError and a look at the row that is
\* there; the INSERT waits while another transaction holds the id.
Insert(r) ==
    /\ pc[r] \in {"new", "insert"} /\ left[r] # <<>>
    /\ LET m == Head(left[r]) IN
        /\ ~ \E s \in Requests \ {r} : HeldBy(s, m)
        /\ IF m \in stored \/ HeldBy(r, m)
           THEN Goto(r, "lookup") /\ UNCHANGED <<table, left, fresh>>
           ELSE /\ clock' = clock + 1
                /\ stamp' = [stamp EXCEPT ![m] = clock + 1]
                /\ owner' = [owner EXCEPT ![m] = From[r]]
                /\ fresh' = [fresh EXCEPT ![r] = Append(@, <<m, clock + 1>>)]
                /\ left' = [left EXCEPT ![r] = Tail(@)]
                /\ Goto(r, "insert") /\ UNCHANGED stored
    /\ UNCHANGED <<admin, told, client, queue, unheard>>

\* Faulty: an id that was already there is announced again.
LookupAsNew(r) ==
    /\ pc[r] = "lookup"
    /\ LET m == Head(left[r]) IN
        IF m \in stored \/ HeldBy(r, m)
        THEN Goto(r, "insert") /\ left' = [left EXCEPT ![r] = Tail(@)]
             /\ fresh' = [fresh EXCEPT ![r] = Append(@, Row(m))]
        ELSE Goto(r, "failed") /\ left' = left /\ fresh' = [fresh EXCEPT ![r] = <<>>]
    /\ UNCHANGED <<table, admin, told, client, queue, unheard>>

\* Faulty: the INSERT is tried again for as long as the row is there.
LookupRetries(r) ==
    /\ pc[r] = "lookup"
    /\ Goto(r, "insert")
    /\ UNCHANGED <<table, admin, left, fresh, told, client, queue, unheard>>

\* The row that was in the way is a duplicate; if it has been deleted meanwhile
\* the error stands and takes the whole batch with it.
Lookup(r) ==
    /\ pc[r] = "lookup"
    /\ LET m == Head(left[r]) IN
        IF m \in stored \/ HeldBy(r, m)
        THEN Goto(r, "insert") /\ left' = [left EXCEPT ![r] = Tail(@)] /\ UNCHANGED fresh
        ELSE Goto(r, "failed") /\ left' = left /\ fresh' = [fresh EXCEPT ![r] = <<>>]
    /\ UNCHANGED <<table, admin, told, client, queue, unheard>>

Commit(r) ==
    /\ pc[r] = "insert" /\ left[r] = <<>>
    /\ stored' = stored \cup {row[1] : row \in ToSet(fresh[r])}
    /\ Goto(r, "announce")
    /\ UNCHANGED <<clock, stamp, owner, admin, left, fresh, told, client, queue, unheard>>

\* _announce: the live frame, then MSG_RECV.
Announce(r) ==
    /\ pc[r] = "announce" /\ fresh[r] # <<>>
    /\ told' = told \cup {<<r, Head(fresh[r])>>}
    /\ unheard' = IF Overflows THEN unheard \cup {Head(fresh[r])} ELSE unheard
    /\ Publish(<<"message.new", "other">>)
    /\ fresh' = [fresh EXCEPT ![r] = Tail(@)]
    /\ UNCHANGED <<table, admin, pc, left, client>>

\* A batch of one may have come through ingest, which ends with its announcement.
Single(r) == Len(Batch[r]) = 1

\* sync.event if anything was new and SYNC_OK, from the batch endpoint only.
Summarise(r) ==
    /\ pc[r] = "announce" /\ fresh[r] = <<>>
    /\ \/ Single(r) /\ UNCHANGED queue
       \/ Publish(IF \E frame \in told : frame[1] = r
                  THEN <<"other", "other">> ELSE <<"other">>)
    /\ Goto(r, "answered")
    /\ UNCHANGED <<table, admin, left, fresh, told, client, unheard>>

\* The process dies, the connection breaks, or PostgreSQL aborts the transaction.
Fail(r) ==
    /\ pc[r] \notin {"new", "answered", "failed"}
    /\ Goto(r, "failed")
    /\ fresh' = [fresh EXCEPT ![r] = <<>>]
    /\ unheard' = IF pc[r] = "announce" THEN unheard \cup ToSet(fresh[r]) ELSE unheard
    /\ UNCHANGED <<table, admin, left, told, client, queue>>

WaitsFor(r, s) ==
    r # s /\ pc[r] = "insert" /\ left[r] # <<>> /\ HeldBy(s, Head(left[r]))

\* PostgreSQL aborts one of two transactions that wait for each other.
BreakDeadlock(r) == (\E s \in Requests : WaitsFor(r, s) /\ WaitsFor(s, r)) /\ Fail(r)

\* DELETE /devices/{id}/messages: what is committed by then goes, a revoked device's too.
Clear(d) ==
    /\ d \in Cleared \ cleared
    /\ LET gone == {m \in stored : owner[m] = d} IN
        /\ stored' = stored \ gone
        /\ wiped' = wiped \cup {Row(m) : m \in gone}
    /\ cleared' = cleared \cup {d} /\ telling' = telling \cup {d}
    /\ UNCHANGED <<clock, stamp, owner, upload, client, queue, unheard>>

\* DEVICE_MESSAGES_CLEARED, unless the process died in between.
AnnounceClear(d) ==
    /\ d \in telling
    /\ telling' = telling \ {d}
    /\ UNCHANGED queue \/ Publish(<<"other">>)
    /\ UNCHANGED <<table, wiped, cleared, upload, client, unheard>>

ClearMessages(d) == Clear(d) \/ AnnounceClear(d)
-----------------------------------------------------------------------------
(* GET /messages/wait, in a loop. *)

\* Subscribed before the first read.
StartPoll ==
    /\ poll = "idle"
    /\ poll' = "read" /\ queue' = <<>>
    /\ UNCHANGED <<table, admin, upload, cursor, received, overtaken, unheard>>

NewRows == {m \in stored : stamp[m] > cursor}

\* Faulty: the newest rows first.
NewestPage ==
    {m \in NewRows : Cardinality({n \in NewRows : stamp[n] > stamp[m]}) < Limit}

\* list_since: the oldest Limit rows after the cursor.
Page == {m \in NewRows : Cardinality({n \in NewRows : stamp[n] < stamp[m]}) < Limit}

\* The call answers if there is anything, and the client moves its cursor to the
\* newest created_at of the answer.
ReadSince ==
    /\ poll = "read"
    /\ IF Page = {} THEN poll' = "wait" /\ UNCHANGED <<queue, cursor, received, overtaken>>
       ELSE /\ poll' = "idle" /\ queue' = <<>>
            /\ cursor' = CHOOSE t \in {stamp[m] : m \in Page} : \A m \in Page : stamp[m] <= t
            /\ received' = received \cup {Row(m) : m \in Page}
            /\ overtaken' = overtaken \cup {row \in Uncommitted : row[2] <= cursor'}
    /\ UNCHANGED <<table, admin, upload, unheard>>

\* Faulty: the transaction is not ended, the follow-up read sees the old rows.
WakeInOldSnapshot ==
    /\ poll = "wait" /\ queue # <<>>
    /\ queue' = Tail(queue)
    /\ UNCHANGED <<table, admin, upload, client, unheard>>

\* A frame wakes the call; only message.new makes it end its transaction and read.
Wake ==
    /\ poll = "wait" /\ queue # <<>>
    /\ queue' = Tail(queue)
    /\ poll' = IF Head(queue) = "message.new" THEN "read" ELSE "wait"
    /\ UNCHANGED <<table, admin, upload, cursor, received, overtaken, unheard>>

\* Faulty: the deadline is looked at only when a frame arrives.
TimeOutOnFrame ==
    /\ poll = "wait" /\ queue # <<>>
    /\ poll' = "idle" /\ queue' = <<>>
    /\ UNCHANGED <<table, admin, upload, cursor, received, overtaken, unheard>>

\* An empty answer.
TimeOut ==
    /\ poll = "wait"
    /\ poll' = "idle" /\ queue' = <<>>
    /\ UNCHANGED <<table, admin, upload, cursor, received, overtaken, unheard>>

LoseCall ==
    /\ poll # "idle"
    /\ poll' = "idle" /\ queue' = <<>>
    /\ UNCHANGED <<table, admin, upload, cursor, received, overtaken, unheard>>

Upload(r) == Insert(r) \/ Lookup(r) \/ Commit(r) \/ Announce(r) \/ Summarise(r)
                \/ BreakDeadlock(r)

Next ==
    \/ \E r \in Requests : Upload(r) \/ Fail(r)
    \/ \E d \in Devices : ClearMessages(d)
    \/ StartPoll \/ ReadSince \/ Wake \/ TimeOut \/ LoseCall

Spec == Init /\ [][Next]_vars

\* The server works on what it has begun, the client loops, and not every call of
\* the client is lost.
Fairness ==
    /\ \A r \in Requests : WF_vars(pc[r] # "new" /\ Upload(r))
    /\ WF_vars(StartPoll) /\ SF_vars(ReadSince) /\ WF_vars(TimeOut)

FairSpec == Spec /\ Fairness
-----------------------------------------------------------------------------
(* Properties. *)

Rows == Messages \X Nat

\* Every variable has its type, and the queue never outgrows its bound.
TypeOK ==
    /\ clock \in Nat /\ cursor \in Nat /\ stamp \in [Messages -> Nat]
    /\ stored \subseteq Messages /\ owner \in [Messages -> Devices] /\ cleared \cup telling \subseteq Devices
    /\ pc \in [Requests -> Stages]
    /\ left \in [Requests -> Seq(Messages)] /\ fresh \in [Requests -> Seq(Rows)]
    /\ told \subseteq Requests \X Rows
    /\ wiped \cup received \cup overtaken \cup unheard \subseteq Rows
    /\ poll \in {"idle", "read", "wait"}
    /\ queue \in Seq({"message.new", "other"}) /\ Len(queue) <= QueueSize

\* An upload answered with 200 or 201 has every message of its batch in the table,
\* created or duplicate alike, unless an administrator deleted it: no duplicate is
\* reported of a row that is then rolled back (repositories.py, insert_if_absent).
AnsweredIsStored ==
    \A r \in Requests : pc[r] = "answered" =>
        \A m \in ToSet(Batch[r]) : m \in stored \/ \E row \in wiped : row[1] = m

\* What the phone sees of an upload, and of the table.
Outcome == [r \in Requests |->
               CASE pc[r] \in {"new", "insert", "lookup"} -> "open"
                 [] pc[r] = "announce" -> "taken"
                 [] OTHER -> pc[r]]

Ingest == INSTANCE AtomicIngest WITH
    Ids     <- [r \in Requests |-> ToSet(Batch[r])],
    taken   <- stored \cup {row[1] : row \in wiped},
    outcome <- Outcome

\* Insert by insert, with duplicates, waiting, deadlocks, failures and deletions, an
\* upload is what SyncEngine makes of it: its whole batch at the commit or nothing,
\* and an answer that says so only after that (services.py, ingest_batch).
UploadsAreAtomic == Ingest!Spec

\* A message.new frame tells of a row that was committed, and no row is announced
\* twice, however many requests upload the same id (services.py, ingest_batch).
AnnouncedOnce ==
    /\ \A f \in told : Present(f[2]) \/ f[2] \in wiped
    /\ \A f, g \in told : f[2] = g[2] => f = g

\* "Subscription happens before the first read so a message arriving in between is
\* not missed" (services.py, wait_for_new): a call never sleeps on a row without a
\* frame in its queue or on its way, but for frames that a crash or a full queue
\* has swallowed.
NoLostWakeUp ==
    poll = "wait" => \A m \in NewRows :
        \/ \E i \in 1..Len(queue) : queue[i] = "message.new"
        \/ \E r \in Requests : pc[r] = "announce" /\ Row(m) \in ToSet(fresh[r])
        \/ Row(m) \in unheard

\* A row behind the cursor was given to the client, unless its transaction was still
\* open when the cursor passed it: paging by created_at loses nothing else.
SkippedOnlyIfOvertaken ==
    \A m \in stored : stamp[m] <= cursor => Row(m) \in received \cup overtaken

\* "server storage time, which is monotonic for a poller" (routers/messages.py): a
\* client that carries `since` forward is given every row.
PollSkipsNothing == \A m \in stored : stamp[m] <= cursor => Row(m) \in received

\* Uploads end: two batches that hold each other's ids do not wait for ever.  (There
\* are finitely many requests, so from some time on none is under way.)
UploadsEnd == <>[](\A r \in Requests : pc[r] \in {"new", "answered", "failed"})

\* The polling client catches up: once the uploads are over, no row stays ahead of
\* the cursor, whatever frames were lost and however often it slept.
PollerCatchesUp == <>[](NewRows = {})
=============================================================================
