------------------------- MODULE WebhookDispatcher -------------------------
(***************************************************************************)
(* Outbound webhooks (webhooks.WebhookDispatcher, WebhookRepository,       *)
(* routers/webhooks.py): the pump turns events into deliveries, workers    *)
(* take them off a bounded queue, send each a few times and record how it  *)
(* went; operators switch webhooks on and off, delete them and send tests. *)
(*                                                                         *)
(* Recording reads the row, computes in Python and writes back the columns *)
(* that changed, and so does every request of an operator: between the read*)
(* and the commit others commit too.  An event here is one that some       *)
(* webhook may subscribe to; one that is still `coming` may wait on the bus.*)
(***************************************************************************)
EXTENDS Naturals, Sequences, FiniteSets, Functions

CONSTANTS
    Hooks,
    Events,
    Wants,         \* the events each webhook subscribes to
    Workers,       \* (4)
    Tests,         \* POST /webhooks/{id}/test, one each
    Operators,     \* POST /webhooks/{id}/enabled and DELETE /webhooks/{id}, one each
    QueueSize,     \* (1000)
    FailureLimit,  \* (20)
    Attempts,      \* (3)
    Nothing        \* no delivery

ASSUME WebhookAssumption ==
    /\ IsFiniteSet(Hooks) /\ Wants \in [Hooks -> SUBSET Events]
    /\ QueueSize \in Nat \ {0} /\ FailureLimit \in Nat \ {0} /\ Attempts \in Nat \ {0}
    /\ Nothing \notin Hooks \X Events
    /\ Workers \cap (Tests \cup Operators) = {} /\ Tests \cap Operators = {}

VARIABLES
    hooked,    \* the webhooks that have been created
    row,       \* webhooks, committed: failure_count, disabled_at, deleted_at
    coming,    \* events the pump has yet to see
    queue,     \* the deliveries that wait, as <<webhook, event>>
    pc,        \* where each worker, test and operator is
    job,       \* the delivery of each worker, the webhook of each test and operator
    mem,       \* requests sent, how the last one ended, the row as it was read
    crashed,   \* the process has been restarted
    notice,    \* the WEBHOOK_DISABLED of each webhook's last switching off, if any
    settled,   \* history: deliveries whose endpoint accepted or refused
    nagged,    \* history: deliveries sent again after that
    failed,    \* history: failures recorded, in all
    run,       \* history: failures recorded since the last success or switching on
    raced,     \* history: webhooks with a write based on a row that had changed
    offBy      \* history: who switched each webhook off last

sending == <<settled, nagged>>
health == <<failed, run, raced, offBy>>
vars == <<hooked, row, coming, queue, pc, job, mem, crashed, notice, sending, health>>

Actors == Workers \cup Tests \cup Operators
Deliveries == Hooks \X Events
Fresh == [count |-> 0, off |-> FALSE, deleted |-> FALSE]
Blank == [tries |-> 0, ok |-> FALSE, seen |-> Fresh]
Hook(a) == job[a][1]

Init ==
    /\ hooked = {} /\ row = [h \in Hooks |-> Fresh]
    /\ coming = Events /\ queue = <<>> /\ crashed = FALSE
    /\ notice = [h \in Hooks |-> "none"]
    /\ pc = [a \in Actors |-> IF a \in Workers THEN "idle" ELSE "new"]
    /\ job = [a \in Actors |-> Nothing] /\ mem = [a \in Actors |-> Blank]
    /\ settled = {} /\ nagged = {}
    /\ failed = [h \in Hooks |-> 0] /\ run = [h \in Hooks |-> 0]
    /\ raced = {} /\ offBy = [h \in Hooks |-> "nobody"]

Goto(a, stage) == pc' = [pc EXCEPT ![a] = stage]

Finish(a) ==
    /\ Goto(a, IF a \in Workers THEN "idle" ELSE "done")
    /\ job' = [job EXCEPT ![a] = Nothing] /\ mem' = [mem EXCEPT ![a] = Blank]
-----------------------------------------------------------------------------
(* The pump. *)

\* subscribed_to: the active webhooks that want the event.
Subscribed(e) == {h \in hooked : e \in Wants[h] /\ ~ row[h].off /\ ~ row[h].deleted}

\* Faulty: a queue without a bound.
FanOutAlways(e) ==
    /\ e \in coming
    /\ coming' = coming \ {e}
    /\ \E puts \in Injection(1..Cardinality(Subscribed(e)), {<<h, e>> : h \in Subscribed(e)}) :
        queue' = queue \o puts
    /\ UNCHANGED <<hooked, row, pc, job, mem, crashed, notice, sending, health>>

\* One put for every active subscriber, in any order; what does not fit is dropped.
FanOut(e) ==
    LET room == QueueSize - Len(queue)
        kept == IF Cardinality(Subscribed(e)) < room THEN Cardinality(Subscribed(e)) ELSE room
    IN
    /\ e \in coming
    /\ coming' = coming \ {e}
    /\ \E puts \in Injection(1..kept, {<<h, e>> : h \in Subscribed(e)}) : queue' = queue \o puts
    /\ UNCHANGED <<hooked, row, pc, job, mem, crashed, notice, sending, health>>

\* The pump's own queue was full, the process was down or the query failed.
Miss(e) ==
    /\ e \in coming
    /\ coming' = coming \ {e}
    /\ UNCHANGED <<hooked, row, queue, pc, job, mem, crashed, notice, sending, health>>
-----------------------------------------------------------------------------
(* The workers. *)

Take(w) ==
    /\ pc[w] = "idle" /\ queue # <<>>
    /\ job' = [job EXCEPT ![w] = Head(queue)] /\ queue' = Tail(queue)
    /\ Goto(w, "send")
    /\ UNCHANGED <<hooked, row, coming, mem, crashed, notice, sending, health>>

\* Faulty: whatever failed is tried again.
EveryFailure(answer) == answer # "accepted"

\* No answer, a 5xx and a 429 may be tried again.
Retryable(answer) == answer = "none"

\* One turn of deliver's loop.
Send(w) ==
    /\ pc[w] = "send"
    /\ \E answer \in {"accepted", "refused", "none"} :
        /\ mem' = [mem EXCEPT ![w].tries = @ + 1, ![w].ok = answer = "accepted"]
        /\ Goto(w, IF Retryable(answer) /\ mem[w].tries + 1 < Attempts THEN "send" ELSE "read")
        /\ settled' = IF answer = "none" THEN settled ELSE settled \cup {job[w]}
    /\ nagged' = IF job[w] \in settled THEN nagged \cup {job[w]} ELSE nagged
    /\ UNCHANGED <<hooked, row, coming, queue, job, crashed, notice, health>>

\* Faulty: a deleted webhook is waited for.
ReadUndeleted(w) ==
    /\ pc[w] = "read" /\ ~ row[Hook(w)].deleted
    /\ mem' = [mem EXCEPT ![w].seen = row[Hook(w)]] /\ Goto(w, "record")
    /\ UNCHANGED <<hooked, row, coming, queue, job, crashed, notice, sending, health>>

\* _record: nothing is recorded of a webhook that has been deleted.
Read(w) ==
    /\ pc[w] = "read"
    /\ IF row[Hook(w)].deleted THEN Finish(w)
       ELSE /\ mem' = [mem EXCEPT ![w].seen = row[Hook(w)]] /\ Goto(w, "record")
            /\ UNCHANGED job
    /\ UNCHANGED <<hooked, row, coming, queue, crashed, notice, sending, health>>

\* Faulty: a success leaves the count.
RecordAttemptKeepsCount(a, limit) ==
    LET count == IF mem[a].ok THEN mem[a].seen.count ELSE mem[a].seen.count + 1 IN
    [mem[a].seen EXCEPT !.count = count, !.off = @ \/ (~ mem[a].ok /\ count >= limit)]

\* Faulty: the limit is reached one failure early.
RecordAttemptEarly(a, limit) ==
    LET count == IF mem[a].ok THEN 0 ELSE mem[a].seen.count + 1 IN
    [mem[a].seen EXCEPT !.count = count, !.off = @ \/ (~ mem[a].ok /\ count + 1 >= limit)]

\* record_attempt, in Python, on the row as it was read.
RecordAttempt(a, limit) ==
    LET count == IF mem[a].ok THEN 0 ELSE mem[a].seen.count + 1 IN
    [mem[a].seen EXCEPT !.count = count, !.off = @ \/ (~ mem[a].ok /\ count >= limit)]

\* The UPDATE names the columns that differ from what was read.
Write(a, new) ==
    LET h == Hook(a) IN
    /\ row' = [row EXCEPT ![h] = [
           count   |-> IF new.count # mem[a].seen.count THEN new.count ELSE @.count,
           off     |-> IF new.off # mem[a].seen.off THEN new.off ELSE @.off,
           deleted |-> @.deleted \/ new.deleted]]
    /\ raced' = IF row[h] # mem[a].seen THEN raced \cup {h} ELSE raced

CountFailure(a) ==
    LET h == Hook(a) IN
    /\ failed' = [failed EXCEPT ![h] = IF mem[a].ok THEN @ ELSE @ + 1]
    /\ run' = [run EXCEPT ![h] = IF mem[a].ok THEN 0 ELSE @ + 1]

Notice(a, state) == notice' = [notice EXCEPT ![Hook(a)] = state]

\* The commit may take effect and still raise: then nobody is told.
Record(w) ==
    LET new == RecordAttempt(w, FailureLimit)
        disabled == new.off /\ ~ mem[w].seen.off IN
    /\ pc[w] = "record"
    /\ Write(w, new) /\ CountFailure(w)
    /\ offBy' = IF disabled THEN [offBy EXCEPT ![Hook(w)] = "dispatcher"] ELSE offBy
    /\ \/ /\ ~ disabled
          /\ Finish(w) /\ UNCHANGED notice
       \/ /\ disabled
          /\ Notice(w, "none") /\ Goto(w, "tell") /\ UNCHANGED <<job, mem>>
       \/ /\ disabled
          /\ Notice(w, "lost") /\ Finish(w)
    /\ UNCHANGED <<hooked, coming, queue, crashed, sending>>

\* WEBHOOK_DISABLED; the WEBHOOK_FAILED of any other failure changes nothing here.
\* emit may raise, and the worker logs that and goes on.
Tell(w) ==
    /\ pc[w] = "tell"
    /\ Notice(w, "given") \/ Notice(w, "lost")
    /\ Finish(w)
    /\ UNCHANGED <<hooked, row, coming, queue, crashed, sending, health>>

\* The database fails: the worker logs it and goes on without a record.
RecordFails(w) ==
    /\ pc[w] \in {"read", "record"}
    /\ Finish(w)
    /\ UNCHANGED <<hooked, row, coming, queue, crashed, notice, sending, health>>
-----------------------------------------------------------------------------
(* Operators. *)

\* From here on the webhook wants its events.
Create(h) ==
    /\ h \notin hooked
    /\ hooked' = hooked \cup {h}
    /\ UNCHANGED <<row, coming, queue, pc, job, mem, crashed, notice, sending, health>>

\* 404 for a webhook that is deleted.
Open(a, h) ==
    /\ pc[a] = "new" /\ h \in hooked
    /\ IF row[h].deleted THEN Finish(a)
       ELSE /\ job' = [job EXCEPT ![a] = <<h>>] /\ mem' = [mem EXCEPT ![a].seen = row[h]]
            /\ Goto(a, IF a \in Tests THEN "send" ELSE "apply")
    /\ UNCHANGED <<hooked, row, coming, queue, crashed, notice, sending, health>>

\* test_webhook sends once, while its session still holds the row it read.
SendTest(t) ==
    /\ pc[t] = "send"
    /\ \E accepted \in BOOLEAN : mem' = [mem EXCEPT ![t].ok = accepted]
    /\ Goto(t, "record")
    /\ UNCHANGED <<hooked, row, coming, queue, job, crashed, notice, sending, health>>

NoLimit == 1000000000

\* "A test must never be the thing that switches a webhook off."
RecordTest(t) ==
    /\ pc[t] = "record"
    /\ Write(t, RecordAttempt(t, NoLimit)) /\ CountFailure(t)
    /\ Finish(t)
    /\ UNCHANGED <<hooked, coming, queue, crashed, notice, sending, offBy>>

\* set_enabled(True): the failures are forgotten.
SwitchOn(o) ==
    LET h == Hook(o) IN
    /\ pc[o] = "apply"
    /\ Write(o, [mem[o].seen EXCEPT !.off = FALSE, !.count = 0])
    /\ run' = [run EXCEPT ![h] = 0]
    /\ offBy' = IF row'[h].off THEN offBy ELSE [offBy EXCEPT ![h] = "nobody"]
    /\ Finish(o)
    /\ UNCHANGED <<hooked, coming, queue, crashed, notice, sending, failed>>

\* set_enabled(False) writes a new disabled_at, whatever was there.
SwitchOff(o) ==
    /\ pc[o] = "apply"
    /\ row' = [row EXCEPT ![Hook(o)].off = TRUE]
    /\ offBy' = [offBy EXCEPT ![Hook(o)] = "operator"]
    /\ Finish(o)
    /\ UNCHANGED <<hooked, coming, queue, crashed, notice, sending, failed, run, raced>>

Delete(o) ==
    /\ pc[o] = "apply"
    /\ row' = [row EXCEPT ![Hook(o)].deleted = TRUE]
    /\ Finish(o)
    /\ UNCHANGED <<hooked, coming, queue, crashed, notice, sending, health>>

\* The process stops, in good order or not: what waits or flies is gone.
Crash ==
    /\ ~ crashed
    /\ crashed' = TRUE
    /\ queue' = <<>>
    /\ job' = [a \in Actors |-> Nothing] /\ mem' = [a \in Actors |-> Blank]
    /\ pc' = [a \in Actors |-> IF a \in Workers THEN "idle"
                               ELSE IF pc[a] = "new" THEN "new" ELSE "done"]
    /\ UNCHANGED <<hooked, row, coming, notice, sending, health>>

Work(w) == Take(w) \/ Send(w) \/ Read(w) \/ Record(w) \/ Tell(w)
Operate(o) == SwitchOn(o) \/ SwitchOff(o) \/ Delete(o)

Next ==
    \/ \E e \in Events : FanOut(e) \/ Miss(e)
    \/ \E w \in Workers : Work(w) \/ RecordFails(w)
    \/ \E h \in Hooks : Create(h) \/ \E a \in Tests \cup Operators : Open(a, h)
    \/ \E t \in Tests : SendTest(t) \/ RecordTest(t)
    \/ \E o \in Operators : Operate(o)
    \/ Crash

Spec == Init /\ [][Next]_vars

\* Workers keep working, and every request they send ends (TIMEOUT_SECONDS).
FairSpec == Spec /\ \A w \in Workers : WF_vars(Work(w))
-----------------------------------------------------------------------------
(* Properties. *)

Stages == {"idle", "send", "read", "record", "tell", "new", "apply", "done"}
Notices == {"none", "given", "lost"}
RowType == [count : Nat, off : BOOLEAN, deleted : BOOLEAN]

\* Every variable has its type, and the queue never outgrows its bound.
TypeOK ==
    /\ hooked \subseteq Hooks /\ row \in [Hooks -> RowType]
    /\ coming \subseteq Events
    /\ queue \in Seq(Deliveries) /\ Len(queue) <= QueueSize
    /\ pc \in [Actors -> Stages]
    /\ job \in [Actors -> Deliveries \cup {<<h>> : h \in Hooks} \cup {Nothing}]
    /\ mem \in [Actors -> [tries : Nat, ok : BOOLEAN, seen : RowType]]
    /\ crashed \in BOOLEAN /\ notice \in [Hooks -> Notices] /\ raced \subseteq Hooks
    /\ settled \cup nagged \subseteq Deliveries
    /\ failed \in [Hooks -> Nat] /\ run \in [Hooks -> Nat]
    /\ offBy \in [Hooks -> {"nobody", "operator", "dispatcher"}]

\* "One delivery, retried only where a retry could help" (webhooks.py, deliver): no
\* delivery costs an endpoint more than its attempts, however many workers there
\* are, and none is sent again once the endpoint has accepted or refused it.
NoNagging == nagged = {} /\ \A w \in Workers : mem[w].tries <= Attempts

\* "Consecutive failures. Reset by any success" (models.py, Webhook), and by
\* switching it on: failure_count is the length of the run of failures, unless a
\* write was based on a row that had changed since it was read.
CountIsTheRun == \A h \in Hooks : h \notin raced => row[h].count = run[h]

\* The dispatcher, whatever it races with, switches a webhook off only after as many
\* recorded failures as the limit says; a test never does it (routers/webhooks.py,
\* test_webhook).  Then it sends an event that tells of it: none is left out except
\* where the process stopped or the commit or the event itself failed.
SwitchedOffForCause ==
    \A h \in Hooks : offBy[h] = "dispatcher" =>
        /\ failed[h] >= FailureLimit
        /\ \/ notice[h] # "none"
           \/ crashed
           \/ \E w \in Workers : pc[w] = "tell" /\ Hook(w) = h

\* "One bad delivery must not kill the worker" (webhooks.py, _worker): the queue
\* drains and every worker comes to rest.  (There are finitely many events.)
QueueDrains == <>[](queue = <<>> /\ \A w \in Workers : pc[w] = "idle")
=============================================================================
