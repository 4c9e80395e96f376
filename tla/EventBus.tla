------------------------------ MODULE EventBus ------------------------------
(***************************************************************************)
(* The event bus (events.py), its two sinks and the live socket            *)
(* (routers/ws.py).  An event is written to the capped log, copied to the  *)
(* audit trail (audit.py) and published as a frame; a frame of another kind*)
(* is published directly.  Without Redis a process hands frames to its own *)
(* subscribers; with Redis every process reads them all from one channel,  *)
(* its own included.                                                       *)
(*                                                                         *)
(* What the model takes from Redis: it orders the publications, a          *)
(* connection brings them in that order and loses what is published while  *)
(* it is down; an answer may be lost, and the client library may repeat    *)
(* the call or raise.                                                      *)
(***************************************************************************)
EXTENDS Naturals, Sequences, Functions

CONSTANTS
    Workers,     \* API processes
    Clients,     \* subscribers: live sockets, the webhook pump, long polls
    Events,      \* calls of emit, one each
    Plain,       \* frames published without an event, one each
    Skipped,     \* AUDIT_SKIP: the events not copied to the trail
    QueueSize,   \* (256)
    MaxLog,      \* event_log_max (1000)
    MaxRepeats,  \* bound: calls the Redis client repeats
    Stream,      \* the log all processes share
    Nowhere      \* not connected

ASSUME EventBusAssumption ==
    /\ QueueSize \in Nat \ {0} /\ MaxLog \in Nat \ {0} /\ MaxRepeats \in Nat
    /\ Skipped \subseteq Events /\ Events \cap Plain = {}
    /\ Stream \notin Workers /\ Nowhere \notin Workers

VARIABLES
    redis,      \* TSUNAGI_REDIS_URL is set
    up,         \* the processes that run
    listening,  \* the processes whose reader is connected
    wire,       \* publications on the way to each reader, by position
    at,         \* the process each client is connected to
    queue,      \* the queue of each subscriber, publications by position
    log,        \* the capped log: of each process, or the stream
    trail,      \* audit_events, committed
    unsaved,    \* history: events whose copy failed, as the server's log says
    stage,      \* how far each emit or publish has come
    by,         \* the process that runs it, while it does
    published,  \* history: every publication, in order
    heard,      \* history: what each open connection has brought, by position
    repeats     \* calls repeated so far

transport == <<listening, wire>>
records == <<log, trail, unsaved>>
calls == <<stage, by, repeats>>
vars == <<redis, up, transport, at, queue, records, calls, published, heard>>

Frames == Events \cup Plain

Home(w) == IF redis THEN Stream ELSE w

Init ==
    /\ redis \in BOOLEAN
    /\ up = {} /\ listening = {} /\ wire = [w \in Workers |-> <<>>]
    /\ at = [c \in Clients |-> Nowhere] /\ queue = [c \in Clients |-> <<>>]
    /\ log = [s \in Workers \cup {Stream} |-> <<>>] /\ trail = {} /\ unsaved = {}
    /\ stage = [f \in Frames |-> "new"] /\ by = [f \in Frames |-> Nowhere]
    /\ published = <<>> /\ heard = [c \in Clients |-> <<>>] /\ repeats = 0
-----------------------------------------------------------------------------
(* Processes and connections. *)

\* The bus is connected before the first request is served.
Start(w) ==
    /\ w \notin up
    /\ up' = up \cup {w}
    /\ listening' = IF redis THEN listening \cup {w} ELSE listening
    /\ UNCHANGED <<redis, wire, at, queue, records, calls, published, heard>>

\* The process ends: its calls, sockets and queues with it, and its own log.
Stop(w) ==
    /\ w \in up
    /\ up' = up \ {w}
    /\ listening' = listening \ {w}
    /\ wire' = [wire EXCEPT ![w] = <<>>]
    /\ at' = [c \in Clients |-> IF at[c] = w THEN Nowhere ELSE at[c]]
    /\ queue' = [c \in Clients |-> IF at[c] = w THEN <<>> ELSE queue[c]]
    /\ heard' = [c \in Clients |-> IF at[c] = w THEN <<>> ELSE heard[c]]
    /\ log' = [log EXCEPT ![w] = <<>>]
    /\ stage' = [f \in Frames |-> IF by[f] = w THEN "over" ELSE stage[f]]
    /\ by' = [f \in Frames |-> IF by[f] = w THEN Nowhere ELSE by[f]]
    /\ UNCHANGED <<redis, trail, unsaved, repeats, published>>

\* Reading fails; what is published until the reader has subscribed again
\* passes it by.
LoseConnection(w) ==
    /\ w \in listening
    /\ listening' = listening \ {w}
    /\ wire' = [wire EXCEPT ![w] = <<>>]
    /\ UNCHANGED <<redis, up, at, queue, records, calls, published, heard>>

Resubscribe(w) ==
    /\ redis /\ w \in up \ listening
    /\ listening' = listening \cup {w}
    /\ UNCHANGED <<redis, up, wire, at, queue, records, calls, published, heard>>

Subscribe(c, w) ==
    /\ at[c] = Nowhere /\ w \in up
    /\ at' = [at EXCEPT ![c] = w]
    /\ UNCHANGED <<redis, up, transport, queue, records, calls, published, heard>>

\* Either side closes; the frames that wait go with the queue.
Unsubscribe(c) ==
    /\ at[c] # Nowhere
    /\ at' = [at EXCEPT ![c] = Nowhere]
    /\ queue' = [queue EXCEPT ![c] = <<>>]
    /\ heard' = [heard EXCEPT ![c] = <<>>]
    /\ UNCHANGED <<redis, up, transport, records, calls, published>>
-----------------------------------------------------------------------------
(* Frames. *)

\* To every subscriber in the process whose queue is not full.
DeliverLocal(w, i) ==
    [c \in Clients |-> IF at[c] = w /\ Len(queue[c]) < QueueSize
                         THEN Append(queue[c], i) ELSE queue[c]]

ToChannel(i) ==
    [w \in Workers |-> IF w \in listening THEN Append(wire[w], i) ELSE wire[w]]

\* Faulty: its own subscribers need not wait for Redis.
DeliverTwice(w, f) ==
    LET i == Len(published) + 1
    IN  /\ published' = Append(published, f)
        /\ wire' = IF redis THEN ToChannel(i) ELSE wire
        /\ queue' = DeliverLocal(w, i)

\* EventBus.publish and RedisEventBus.publish, called in process w.
Deliver(w, f) ==
    LET i == Len(published) + 1
    IN  /\ published' = Append(published, f)
        /\ wire' = IF redis THEN ToChannel(i) ELSE wire
        /\ queue' = IF redis THEN queue ELSE DeliverLocal(w, i)

ReadLoop(w) ==
    /\ wire[w] # <<>>
    /\ queue' = DeliverLocal(w, Head(wire[w]))
    /\ wire' = [wire EXCEPT ![w] = Tail(@)]
    /\ UNCHANGED <<redis, up, listening, at, records, calls, published, heard>>

\* pump_events of the socket; a frame whose sending fails is lost like one that
\* waits.
Forward(c) ==
    /\ queue[c] # <<>>
    /\ heard' = [heard EXCEPT ![c] = Append(@, Head(queue[c]))]
    /\ queue' = [queue EXCEPT ![c] = Tail(@)]
    /\ UNCHANGED <<redis, up, transport, at, records, calls, published>>
-----------------------------------------------------------------------------
(* emit: record, copy, publish. *)

\* The last MaxLog entries; Redis trims approximately and may keep more.
Capped(l, kept) ==
    IF Len(l) <= MaxLog THEN {l}
    ELSE {SubSeq(l, k, Len(l)) : k \in IF kept THEN 1..(Len(l) - MaxLog + 1)
                                              ELSE {Len(l) - MaxLog + 1}}

Move(f, w, next) == stage' = [stage EXCEPT ![f] = next] /\ by' = [by EXCEPT ![f] = w]

\* A call of Redis by process w succeeds; or its answer is lost, and it is
\* repeated or raises.  A first call that never arrives is one not made.
Outcome(f, w, next) ==
    \/ Move(f, IF next = "over" THEN Nowhere ELSE w, next) /\ UNCHANGED repeats
    \/ redis /\ repeats < MaxRepeats /\ repeats' = repeats + 1 /\ Move(f, w, stage[f])
    \/ redis /\ Move(f, Nowhere, "over") /\ UNCHANGED repeats

\* Faulty: the copy is left to a task nobody waits for.
RecordOnly(w, e) ==
    /\ w \in up
    /\ stage[e] = "new" /\ by[e] \in {Nowhere, w}
    /\ \E l \in Capped(Append(log[Home(w)], e), redis) : log' = [log EXCEPT ![Home(w)] = l]
    /\ Outcome(e, w, "publish")
    /\ UNCHANGED <<redis, up, transport, at, queue, trail, unsaved, published, heard>>

Record(w, e) ==
    /\ w \in up
    /\ stage[e] = "new" /\ by[e] \in {Nowhere, w}
    /\ \E l \in Capped(Append(log[Home(w)], e), redis) : log' = [log EXCEPT ![Home(w)] = l]
    /\ Outcome(e, w, "audit")
    /\ UNCHANGED <<redis, up, transport, at, queue, trail, unsaved, published, heard>>

\* A copy that fails is logged, and the event goes on.
PersistEvent(e) ==
    /\ stage[e] = "audit"
    /\ \/ e \in Skipped /\ UNCHANGED <<trail, unsaved>>
       \/ e \notin Skipped /\ trail' = trail \cup {e} /\ UNCHANGED unsaved
       \/ e \notin Skipped /\ unsaved' = unsaved \cup {e} /\ UNCHANGED trail
    /\ Move(e, by[e], "publish")
    /\ UNCHANGED <<redis, up, transport, at, queue, log, repeats, published, heard>>

Publish(e) ==
    /\ stage[e] = "publish"
    /\ Deliver(by[e], e)
    /\ Outcome(e, by[e], "over")
    /\ UNCHANGED <<redis, up, listening, at, records, heard>>

\* A request announces a message or a device: it calls publish itself.
Announce(w, f) ==
    /\ w \in up
    /\ stage[f] = "new" /\ by[f] \in {Nowhere, w}
    /\ Deliver(w, f)
    /\ Outcome(f, w, "over")
    /\ UNCHANGED <<redis, up, listening, at, records, heard>>

\* Redis cannot be reached: emit raises, and the frame is never sent.
PublishFails(e) ==
    /\ redis /\ stage[e] = "publish"
    /\ Move(e, Nowhere, "over")
    /\ UNCHANGED <<redis, up, transport, at, queue, records, repeats, published, heard>>
-----------------------------------------------------------------------------
Next ==
    \/ \E w \in Workers :
          \/ Start(w) \/ Stop(w) \/ LoseConnection(w) \/ Resubscribe(w) \/ ReadLoop(w)
          \/ \E e \in Events : Record(w, e)
          \/ \E f \in Plain : Announce(w, f)
    \/ \E c \in Clients :
          \/ Unsubscribe(c) \/ Forward(c)
          \/ \E w \in Workers : Subscribe(c, w)
    \/ \E e \in Events : PersistEvent(e) \/ Publish(e) \/ PublishFails(e)

Spec == Init /\ [][Next]_vars
-----------------------------------------------------------------------------
Stages == {"new", "audit", "publish", "over"}

TypeOK ==
    /\ redis \in BOOLEAN /\ up \subseteq Workers /\ listening \subseteq up
    /\ wire \in [Workers -> Seq(Nat)]
    /\ at \in [Clients -> up \cup {Nowhere}] /\ queue \in [Clients -> Seq(Nat)]
    /\ log \in [Workers \cup {Stream} -> Seq(Events)]
    /\ trail \subseteq Events \ Skipped /\ unsaved \subseteq Events \ Skipped
    /\ stage \in [Frames -> Stages] /\ by \in [Frames -> Workers \cup {Nowhere}]
    /\ published \in Seq(Frames) /\ heard \in [Clients -> Seq(Nat)]
    /\ repeats \in 0..MaxRepeats

\* Through Redis or without it, over lost connections, full queues, repeated
\* calls and restarts: one connection brings the publications in their order,
\* each at most once (RedisEventBus: "exactly once regardless of which worker
\* produced it", best-effort).
Promise == INSTANCE Broadcast
BestEffortBroadcast == Promise!Spec

\* An event is on record before anyone hears of it: whoever hears it finds it in
\* the log of the process it listens to, unless MaxLog later ones are there, and
\* on the audit trail, unless it is not copied or the server's log says that its
\* copy failed.
FramesAreOnRecord ==
    \A c \in Clients : at[c] # Nowhere =>
        \A i \in Range(heard[c]) : published[i] \in Events =>
            /\ \/ published[i] \in Range(log[Home(at[c])])
               \/ Len(log[Home(at[c])]) >= MaxLog
            /\ published[i] \in Skipped \cup trail \cup unsaved
=============================================================================
