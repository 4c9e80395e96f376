-------------------------- MODULE EventBus_proofs --------------------------
(***************************************************************************)
(* Proofs about EventBus for any number of processes, subscribers, frames  *)
(* and repeated calls.  The order one subscriber hears is carried by three *)
(* sequences in a row: what it has heard, what waits in its queue and what *)
(* is on the way to its process; each rises and each comes before the next.*)
(* That events are on record before they are heard follows their calls:    *)
(* past the log once recorded, past the trail once copied.                 *)
(***************************************************************************)
EXTENDS EventBus, TLAPS

Within(s, n) == \A k \in DOMAIN s : s[k] \in 1..n
Rising(s) == \A k, l \in DOMAIN s : k < l => s[k] < s[l]
Before(s, t) == \A k \in DOMAIN s, l \in DOMAIN t : s[k] < t[l]

\* A process that is down, or whose reader is, has nothing on the way; a client
\* that is nowhere has nothing at all.
PlaceInv ==
    /\ ~ redis => listening = {}
    /\ \A w \in Workers : w \notin listening => wire[w] = <<>>
    /\ \A c \in Clients : at[c] = Nowhere => queue[c] = <<>> /\ heard[c] = <<>>

OrderInv ==
    /\ \A w \in Workers : Within(wire[w], Len(published)) /\ Rising(wire[w])
    /\ \A c \in Clients :
          /\ Within(queue[c], Len(published)) /\ Rising(queue[c])
          /\ Within(heard[c], Len(published)) /\ Before(heard[c], queue[c])
          /\ at[c] # Nowhere => /\ Before(queue[c], wire[at[c]])
                                /\ Before(heard[c], wire[at[c]])

\* A call that has begun and is not over runs in a process that is up.
CallInv ==
    \A f \in Frames :
        /\ by[f] \in up \cup {Nowhere}
        /\ stage[f] \in {"audit", "publish"} => f \in Events /\ by[f] \in up

Logged(e, s) == e \in Range(log[s]) \/ Len(log[s]) >= MaxLog
Copied(e) == e \in Skipped \cup trail \cup unsaved

\* A call that is past a record has left it there,
CallRecordInv ==
    /\ \A e \in Events : stage[e] \in {"audit", "publish"} => Logged(e, Home(by[e]))
    /\ \A e \in Events : stage[e] = "publish" => Copied(e)

\* and so has every call whose frame has been published; without Redis in the log
\* of the process whose subscribers get the frame.
FrameRecordInv ==
    /\ \A i \in DOMAIN published : published[i] \in Events =>
          Copied(published[i]) /\ (redis => Logged(published[i], Stream))
    /\ ~ redis => \A c \in Clients : at[c] # Nowhere =>
          /\ \A k \in DOMAIN queue[c] :
                published[queue[c][k]] \in Events => Logged(published[queue[c][k]], at[c])
          /\ \A k \in DOMAIN heard[c] :
                published[heard[c][k]] \in Events => Logged(published[heard[c][k]], at[c])

IInv == TypeOK /\ PlaceInv /\ OrderInv /\ CallInv /\ CallRecordInv /\ FrameRecordInv

USE EventBusAssumption DEF Frames
-----------------------------------------------------------------------------
(* Sequences of positions. *)

\* A number behind all of a rising sequence can be appended to it.
LEMMA AppendRises ==
    ASSUME NEW s \in Seq(Nat), NEW n \in Nat, Within(s, n), Rising(s)
    PROVE  /\ Append(s, n + 1) \in Seq(Nat)
           /\ Within(Append(s, n + 1), n + 1) /\ Rising(Append(s, n + 1))
  BY DEF Within, Rising

\* More publications take nothing from what is within the old ones.
LEMMA WithinMore ==
    ASSUME NEW s \in Seq(Nat), NEW n \in Nat, Within(s, n) PROVE Within(s, n + 1)
  BY DEF Within

\* All that is within the publications comes before the next one.
LEMMA BeforeNext ==
    ASSUME NEW r \in Seq(Nat), NEW s \in Seq(Nat), NEW n \in Nat, Within(r, n), Before(r, s)
    PROVE  Before(r, Append(s, n + 1))
<1> SUFFICES ASSUME NEW k \in DOMAIN r, NEW l \in DOMAIN Append(s, n + 1)
             PROVE  r[k] < Append(s, n + 1)[l]
  BY DEF Before
<1>1. r[k] \in 1..n
  BY DEF Within
<1>2. CASE l \in DOMAIN s
  BY <1>2 DEF Before
<1>3. CASE l = Len(s) + 1
  BY <1>1, <1>3
<1> QED
  BY <1>2, <1>3

\* Without its head a rising sequence rises, and all of it comes after the head.
LEMMA TailRises ==
    ASSUME NEW s \in Seq(Nat), NEW n \in Nat, s # <<>>, Within(s, n), Rising(s)
    PROVE  /\ Head(s) \in 1..n /\ Head(s) \in Nat
           /\ Tail(s) \in Seq(Nat) /\ Within(Tail(s), n) /\ Rising(Tail(s))
           /\ \A l \in DOMAIN Tail(s) : Head(s) < Tail(s)[l]
<1>1. Len(s) \in Nat \ {0} /\ Head(s) = s[1] /\ Tail(s) \in Seq(Nat)
  OBVIOUS
<1>2. DOMAIN Tail(s) = 1..(Len(s) - 1) /\ \A l \in DOMAIN Tail(s) : Tail(s)[l] = s[l + 1]
  OBVIOUS
<1>3. Head(s) \in 1..n /\ Head(s) \in Nat
  BY <1>1 DEF Within
<1>4. Within(Tail(s), n)
  BY <1>1, <1>2 DEF Within
<1>5. Rising(Tail(s))
  <2> SUFFICES ASSUME NEW k \in DOMAIN Tail(s), NEW l \in DOMAIN Tail(s), k < l
               PROVE  Tail(s)[k] < Tail(s)[l]
    BY DEF Rising
  <2>1. k + 1 \in DOMAIN s /\ l + 1 \in DOMAIN s /\ k + 1 < l + 1
    BY <1>1, <1>2
  <2>2. s[k + 1] < s[l + 1]
    BY <2>1 DEF Rising
  <2> QED
    BY <1>2, <2>2
<1>6. \A l \in DOMAIN Tail(s) : Head(s) < Tail(s)[l]
  BY <1>1, <1>2 DEF Rising
<1> QED
  BY <1>1, <1>3, <1>4, <1>5, <1>6

\* What comes before a sequence comes before its head and its tail.
LEMMA BeforeTail ==
    ASSUME NEW r \in Seq(Nat), NEW s \in Seq(Nat), s # <<>>, Before(r, s)
    PROVE  /\ Before(r, Tail(s)) /\ \A k \in DOMAIN r : r[k] < Head(s)
  BY DEF Before

\* The tail is the sequence without its first place.
LEMMA TailPlaces ==
    ASSUME NEW s \in Seq(Nat), s # <<>>, NEW k \in DOMAIN Tail(s)
    PROVE  k \in Nat /\ k + 1 \in DOMAIN s /\ Tail(s)[k] = s[k + 1]
<1>1. Len(s) \in Nat \ {0} /\ DOMAIN Tail(s) = 1..(Len(s) - 1)
  OBVIOUS
<1> QED
  BY <1>1

\* What a sequence comes before, its tail comes before.
LEMMA TailBefore ==
    ASSUME NEW s \in Seq(Nat), NEW t \in Seq(Nat), s # <<>>, Before(s, t)
    PROVE  Before(Tail(s), t)
  BY TailPlaces DEF Before

\* What comes before a sequence and a number comes before both together.
LEMMA BeforeBoth ==
    ASSUME NEW r \in Seq(Nat), NEW s \in Seq(Nat), NEW i \in Nat,
           Before(r, s), \A k \in DOMAIN r : r[k] < i
    PROVE  Before(r, Append(s, i))
  BY DEF Before

\* A number that comes after all of r and before all of t can be appended to r.
LEMMA BeforeAppend ==
    ASSUME NEW r \in Seq(Nat), NEW t \in Seq(Nat), NEW i \in Nat,
           Before(r, t), \A l \in DOMAIN t : i < t[l]
    PROVE  Before(Append(r, i), t)
  BY DEF Before

\* Such a number appended to a rising sequence leaves it rising, within, and after
\* what the number is after.
LEMMA AppendNumber ==
    ASSUME NEW s \in Seq(Nat), NEW n \in Nat, NEW i \in 1..n, Within(s, n), Rising(s),
           \A k \in DOMAIN s : s[k] < i
    PROVE  /\ Append(s, i) \in Seq(Nat) /\ Within(Append(s, i), n) /\ Rising(Append(s, i))
  BY DEF Within, Rising

\* Trimming leaves the log as it is, or MaxLog of its last entries at least.
LEMMA CappedKeeps ==
    ASSUME NEW l \in Seq(Events), NEW kept \in BOOLEAN, NEW r \in Capped(l, kept)
    PROVE  r \in Seq(Events) /\ (r = l \/ Len(r) >= MaxLog)
<1>1. CASE Len(l) <= MaxLog
  BY <1>1 DEF Capped
<1>2. CASE Len(l) > MaxLog
  <2>1. PICK k \in 1..(Len(l) - MaxLog + 1) : r = SubSeq(l, k, Len(l))
    BY <1>2 DEF Capped
  <2> QED
    BY <1>2, <2>1
<1> QED
  BY <1>1, <1>2
-----------------------------------------------------------------------------
(* The steps. *)

\* Nothing has happened yet.
LEMMA InitStep == Init => IInv
<1> SUFFICES ASSUME Init PROVE IInv
  OBVIOUS
<1>1. TypeOK
  BY DEF Init, TypeOK, Stages
<1>2. PlaceInv /\ OrderInv
  BY DEF Init, PlaceInv, OrderInv, Within, Rising, Before
<1>3. CallInv /\ CallRecordInv /\ FrameRecordInv
  BY DEF Init, CallInv, CallRecordInv, FrameRecordInv
<1> QED
  BY <1>1, <1>2, <1>3 DEF IInv

\* Starting a process, or its reader, disturbs nothing.
LEMMA StartStep ==
    ASSUME IInv, NEW w \in Workers, Start(w) \/ Resubscribe(w) PROVE IInv'
<1>1. /\ up' = up \cup {w} /\ listening \subseteq listening' /\ listening' \subseteq listening \cup {w}
      /\ ~ redis => listening' = listening
      /\ UNCHANGED <<redis, wire, at, queue, records, calls, published, heard>>
  BY DEF Start, Resubscribe
<1>2. TypeOK'
  BY <1>1 DEF IInv, TypeOK, records, calls
<1>3. PlaceInv' /\ OrderInv'
  BY <1>1 DEF IInv, PlaceInv, OrderInv
<1>4. CallInv' /\ CallRecordInv' /\ FrameRecordInv'
  BY <1>1 DEF IInv, CallInv, CallRecordInv, FrameRecordInv, Logged, Copied, Home, records, calls
<1> QED
  BY <1>2, <1>3, <1>4 DEF IInv

\* A process takes with it all that it held, and nothing another one relies on.
LEMMA StopStep == ASSUME IInv, NEW w \in Workers, Stop(w) PROVE IInv'
<1>1. TypeOK'
  <2>1. at' \in [Clients -> up' \cup {Nowhere}]
    BY DEF Stop, IInv, TypeOK
  <2>2. queue' \in [Clients -> Seq(Nat)] /\ heard' \in [Clients -> Seq(Nat)]
    BY DEF Stop, IInv, TypeOK
  <2>3. wire' \in [Workers -> Seq(Nat)] /\ log' \in [Workers \cup {Stream} -> Seq(Events)]
    BY DEF Stop, IInv, TypeOK
  <2>4. stage' \in [Frames -> Stages] /\ by' \in [Frames -> Workers \cup {Nowhere}]
    BY DEF Stop, IInv, TypeOK, Stages
  <2> QED
    BY <2>1, <2>2, <2>3, <2>4 DEF Stop, IInv, TypeOK
<1>2. PlaceInv'
  BY DEF Stop, IInv, TypeOK, PlaceInv
<1>3. OrderInv'
  <2>1. ASSUME NEW v \in Workers
        PROVE  Within(wire'[v], Len(published')) /\ Rising(wire'[v])
    BY DEF Stop, IInv, TypeOK, OrderInv, Within, Rising
  <2>2. ASSUME NEW c \in Clients
        PROVE  /\ Within(queue'[c], Len(published')) /\ Rising(queue'[c])
               /\ Within(heard'[c], Len(published')) /\ Before(heard'[c], queue'[c])
               /\ at'[c] # Nowhere => /\ Before(queue'[c], wire'[at'[c]])
                                      /\ Before(heard'[c], wire'[at'[c]])
    <3>1. CASE at[c] = w
      <4>1. queue'[c] = <<>> /\ heard'[c] = <<>> /\ at'[c] = Nowhere
        BY <3>1 DEF Stop
      <4> QED
        BY <4>1 DEF Within, Rising, Before
    <3>2. CASE at[c] # w
      <4>1. queue'[c] = queue[c] /\ heard'[c] = heard[c] /\ at'[c] = at[c]
        BY <3>2 DEF Stop
      <4>2. at[c] # Nowhere => wire'[at[c]] = wire[at[c]]
        BY <3>2 DEF Stop, IInv, TypeOK
      <4> QED
        BY <4>1, <4>2 DEF Stop, IInv, OrderInv
    <3> QED
      BY <3>1, <3>2
  <2> QED
    BY <2>1, <2>2 DEF OrderInv
<1>4. CallInv'
  BY DEF Stop, IInv, TypeOK, CallInv
<1>5. CallRecordInv'
  BY DEF Stop, IInv, TypeOK, CallInv, CallRecordInv, Logged, Copied, Home
<1>6. FrameRecordInv'
  BY DEF Stop, IInv, TypeOK, FrameRecordInv, Logged, Copied
<1> QED
  BY <1>1, <1>2, <1>3, <1>4, <1>5, <1>6 DEF IInv

\* What is on the way is lost; the rest stays in order.
LEMMA LoseConnectionStep == ASSUME IInv, NEW w \in Workers, LoseConnection(w) PROVE IInv'
<1>1. TypeOK'
  BY DEF LoseConnection, IInv, TypeOK, records, calls
<1>2. PlaceInv'
  BY DEF LoseConnection, IInv, TypeOK, PlaceInv
<1>3. OrderInv'
  <2>1. \A v \in Workers : wire'[v] = wire[v] \/ wire'[v] = <<>>
    BY DEF LoseConnection, IInv, TypeOK
  <2>2. \A c \in Clients : at[c] # Nowhere => at[c] \in Workers
    BY DEF IInv, TypeOK
  <2>3. UNCHANGED <<at, queue, heard, published>>
    BY DEF LoseConnection
  <2>4. \A v \in Workers : Within(wire'[v], Len(published)) /\ Rising(wire'[v])
    BY <2>1 DEF IInv, OrderInv, Within, Rising
  <2>5. ASSUME NEW c \in Clients, at[c] # Nowhere
        PROVE  Before(queue[c], wire'[at[c]]) /\ Before(heard[c], wire'[at[c]])
    <3>1. CASE wire'[at[c]] = wire[at[c]]
      BY <2>5, <3>1 DEF IInv, OrderInv
    <3>2. CASE wire'[at[c]] = <<>>
      BY <3>2 DEF Before
    <3> QED
      BY <2>1, <2>2, <2>5, <3>1, <3>2
  <2> QED
    BY <2>3, <2>4, <2>5 DEF IInv, OrderInv
<1>4. CallInv' /\ CallRecordInv' /\ FrameRecordInv'
  BY DEF LoseConnection, IInv, CallInv, CallRecordInv, FrameRecordInv, Logged, Copied, Home,
         records, calls
<1> QED
  BY <1>1, <1>2, <1>3, <1>4 DEF IInv

\* A new connection begins with nothing heard and nothing queued.
LEMMA SubscribeStep ==
    ASSUME IInv, NEW c \in Clients, NEW w \in Workers, Subscribe(c, w) PROVE IInv'
<1>1. /\ at[c] = Nowhere /\ queue[c] = <<>> /\ heard[c] = <<>> /\ w \in up
      /\ at' = [at EXCEPT ![c] = w]
      /\ UNCHANGED <<redis, up, transport, queue, records, calls, published, heard>>
  BY DEF Subscribe, IInv, PlaceInv
<1>2. TypeOK'
  BY <1>1 DEF IInv, TypeOK, transport, records, calls
<1>3. \A d \in Clients : d # c => at'[d] = at[d]
  BY <1>1 DEF IInv, TypeOK
<1>4. PlaceInv'
  BY <1>1, <1>3 DEF IInv, PlaceInv, transport
<1>5. OrderInv'
  <2>1. ASSUME NEW d \in Clients, at'[d] # Nowhere
        PROVE  Before(queue[d], wire[at'[d]]) /\ Before(heard[d], wire[at'[d]])
    <3>1. CASE d = c
      BY <1>1, <3>1 DEF Before
    <3>2. CASE d # c
      BY <1>3, <2>1, <3>2 DEF IInv, OrderInv
    <3> QED
      BY <3>1, <3>2
  <2> QED
    BY <1>1, <2>1 DEF IInv, OrderInv, transport
<1>6. CallInv' /\ CallRecordInv'
  BY <1>1 DEF IInv, CallInv, CallRecordInv, Logged, Copied, Home, records, calls
<1>7. FrameRecordInv'
  <2>1. \A d \in Clients : at'[d] # Nowhere =>
           (at'[d] = at[d] /\ at[d] # Nowhere) \/ (queue'[d] = <<>> /\ heard'[d] = <<>>)
    BY <1>1 DEF IInv, TypeOK
  <2> QED
    BY <1>1, <2>1 DEF IInv, FrameRecordInv, Logged, Copied, records
<1> QED
  BY <1>2, <1>4, <1>5, <1>6, <1>7 DEF IInv

\* A connection ends with its queue.
LEMMA UnsubscribeStep == ASSUME IInv, NEW c \in Clients, Unsubscribe(c) PROVE IInv'
<1>1. TypeOK'
  BY DEF Unsubscribe, IInv, TypeOK, transport, records, calls
<1>2. PlaceInv' /\ OrderInv'
  BY DEF Unsubscribe, IInv, TypeOK, PlaceInv, OrderInv, Within, Rising, Before, transport
<1>3. CallInv' /\ CallRecordInv' /\ FrameRecordInv'
  BY DEF Unsubscribe, IInv, TypeOK, CallInv, CallRecordInv, FrameRecordInv, Logged, Copied, Home,
         records, calls
<1> QED
  BY <1>1, <1>2, <1>3 DEF IInv

\* A process offers a frame to its own subscribers only, at the end of their queues.
LEMMA LocalQueues ==
    ASSUME TypeOK, NEW w \in Workers, NEW i \in Nat
    PROVE  /\ DeliverLocal(w, i) \in [Clients -> Seq(Nat)]
           /\ \A c \in Clients : \/ DeliverLocal(w, i)[c] = queue[c]
                                 \/ /\ at[c] = w
                                    /\ DeliverLocal(w, i)[c] = Append(queue[c], i)
  BY DEF DeliverLocal, TypeOK

\* The frame at the head of the channel comes after all its readers have.
LEMMA ReadLoopStep == ASSUME IInv, NEW w \in Workers, ReadLoop(w) PROVE IInv'
<1> DEFINE i == Head(wire[w])
           n == Len(published)
<1>1. /\ wire[w] # <<>> /\ queue' = DeliverLocal(w, i)
      /\ wire' = [wire EXCEPT ![w] = Tail(wire[w])]
      /\ UNCHANGED <<redis, up, listening, at, records, calls, published, heard>>
  BY DEF ReadLoop
<1>2. n \in Nat /\ wire[w] \in Seq(Nat)
  BY DEF IInv, TypeOK
<1>3. /\ i \in 1..n /\ i \in Nat /\ Tail(wire[w]) \in Seq(Nat)
      /\ Within(Tail(wire[w]), n) /\ Rising(Tail(wire[w]))
      /\ \A l \in DOMAIN Tail(wire[w]) : i < Tail(wire[w])[l]
  BY <1>1, <1>2, TailRises DEF IInv, OrderInv
<1>4. /\ queue' \in [Clients -> Seq(Nat)]
      /\ \A c \in Clients : \/ queue'[c] = queue[c]
                            \/ at[c] = w /\ queue'[c] = Append(queue[c], i)
  <2>1. /\ DeliverLocal(w, i) \in [Clients -> Seq(Nat)]
        /\ \A c \in Clients : \/ DeliverLocal(w, i)[c] = queue[c]
                              \/ at[c] = w /\ DeliverLocal(w, i)[c] = Append(queue[c], i)
    BY <1>3, LocalQueues DEF IInv
  <2> QED
    BY <1>1, <2>1
<1>5. wire'[w] = Tail(wire[w]) /\ \A v \in Workers : v # w => wire'[v] = wire[v]
  BY <1>1 DEF IInv, TypeOK
<1>6. TypeOK'
  BY <1>1, <1>3, <1>4 DEF IInv, TypeOK, records, calls
<1>7. PlaceInv'
  BY <1>1, <1>4, <1>5 DEF IInv, PlaceInv
<1>8. OrderInv'
  <2>1. \A v \in Workers : Within(wire'[v], n) /\ Rising(wire'[v])
    BY <1>3, <1>5 DEF IInv, OrderInv
  <2>2. ASSUME NEW c \in Clients
        PROVE  /\ Within(queue'[c], n) /\ Rising(queue'[c])
               /\ Within(heard[c], n) /\ Before(heard[c], queue'[c])
               /\ at[c] # Nowhere => Before(queue'[c], wire'[at[c]]) /\ Before(heard[c], wire'[at[c]])
    <3>1. /\ queue[c] \in Seq(Nat) /\ heard[c] \in Seq(Nat)
          /\ Within(queue[c], n) /\ Rising(queue[c]) /\ Within(heard[c], n)
          /\ Before(heard[c], queue[c])
          /\ at[c] # Nowhere => Before(queue[c], wire[at[c]]) /\ Before(heard[c], wire[at[c]])
          /\ at[c] # Nowhere => at[c] \in Workers
      BY DEF IInv, TypeOK, OrderInv
    <3>2. CASE at[c] # w
      BY <1>4, <1>5, <3>1, <3>2
    <3>3. CASE at[c] = w
      <4>1. w # Nowhere
        OBVIOUS
      <4>2. /\ Before(queue[c], Tail(wire[w])) /\ Before(heard[c], Tail(wire[w]))
            /\ \A k \in DOMAIN queue[c] : queue[c][k] < i
            /\ \A k \in DOMAIN heard[c] : heard[c][k] < i
        BY <1>1, <1>2, <3>1, <3>3, <4>1, BeforeTail
      <4>3. CASE queue'[c] = queue[c]
        BY <1>5, <3>1, <3>3, <4>2, <4>3
      <4>4. CASE queue'[c] = Append(queue[c], i)
        <5>1. Within(queue'[c], n) /\ Rising(queue'[c])
          BY <1>2, <1>3, <3>1, <4>2, <4>4, AppendNumber
        <5>2. Before(queue'[c], Tail(wire[w]))
          BY <1>3, <3>1, <4>2, <4>4, BeforeAppend
        <5>3. Before(heard[c], queue'[c])
          BY <1>3, <3>1, <4>2, <4>4, BeforeBoth
        <5> QED
          BY <1>5, <3>1, <3>3, <4>2, <5>1, <5>2, <5>3
      <4> QED
        BY <1>4, <4>3, <4>4
    <3> QED
      BY <3>2, <3>3
  <2> QED
    BY <1>1, <2>1, <2>2 DEF OrderInv
<1>9. CallInv' /\ CallRecordInv'
  BY <1>1 DEF IInv, CallInv, CallRecordInv, Logged, Copied, Home, records, calls
<1>10. FrameRecordInv'
  <2>1. redis
    BY <1>1 DEF IInv, PlaceInv
  <2> QED
    BY <1>1, <2>1 DEF IInv, FrameRecordInv, Logged, Copied, records
<1> QED
  BY <1>6, <1>7, <1>8, <1>9, <1>10 DEF IInv

\* What a client hears next comes after all it has heard, and before all that waits.
LEMMA ForwardStep == ASSUME IInv, NEW c \in Clients, Forward(c) PROVE IInv'
<1> DEFINE i == Head(queue[c])
           n == Len(published)
<1>1. /\ queue[c] # <<>>
      /\ queue' = [queue EXCEPT ![c] = Tail(queue[c])]
      /\ heard' = [heard EXCEPT ![c] = Append(heard[c], i)]
      /\ UNCHANGED <<redis, up, transport, at, records, calls, published>>
  BY DEF Forward, IInv, TypeOK
<1>2. /\ n \in Nat /\ queue[c] \in Seq(Nat) /\ heard[c] \in Seq(Nat)
      /\ Within(queue[c], n) /\ Rising(queue[c]) /\ Within(heard[c], n)
      /\ Before(heard[c], queue[c])
      /\ at[c] \in Workers /\ wire[at[c]] \in Seq(Nat)
      /\ Before(queue[c], wire[at[c]]) /\ Before(heard[c], wire[at[c]])
  BY <1>1 DEF IInv, TypeOK, OrderInv, PlaceInv
<1>3. /\ i \in 1..n /\ i \in Nat /\ Tail(queue[c]) \in Seq(Nat)
      /\ Within(Tail(queue[c]), n) /\ Rising(Tail(queue[c]))
      /\ \A l \in DOMAIN Tail(queue[c]) : i < Tail(queue[c])[l]
  BY <1>1, <1>2, TailRises
<1>4. i = queue[c][1] /\ 1 \in DOMAIN queue[c]
  BY <1>1, <1>2
<1>5. /\ queue'[c] = Tail(queue[c]) /\ heard'[c] = Append(heard[c], i)
      /\ \A d \in Clients : d # c => queue'[d] = queue[d] /\ heard'[d] = heard[d]
  BY <1>1 DEF IInv, TypeOK
<1>6. TypeOK'
  BY <1>1, <1>2, <1>3 DEF IInv, TypeOK, transport, records, calls
<1>7. PlaceInv'
  BY <1>1, <1>2, <1>5 DEF IInv, PlaceInv, transport
<1>8. OrderInv'
  <2>1. Within(heard'[c], n)
    BY <1>2, <1>3, <1>5 DEF Within
  <2>2. Before(heard[c], Tail(queue[c]))
    BY <1>1, <1>2, BeforeTail
  <2>3. Before(heard'[c], queue'[c])
    BY <1>2, <1>3, <1>5, <2>2, BeforeAppend
  <2>4. Before(queue'[c], wire[at[c]])
    BY <1>1, <1>2, <1>5, TailBefore
  <2>5. Before(heard'[c], wire[at[c]])
    <3>1. \A l \in DOMAIN wire[at[c]] : i < wire[at[c]][l]
      BY <1>2, <1>4 DEF Before
    <3> QED
      BY <1>2, <1>3, <1>5, <3>1, BeforeAppend
  <2> QED
    BY <1>1, <1>3, <1>5, <2>1, <2>3, <2>4, <2>5 DEF IInv, OrderInv, transport
<1>9. CallInv' /\ CallRecordInv'
  BY <1>1 DEF IInv, CallInv, CallRecordInv, Logged, Copied, Home, records, calls
<1>10. FrameRecordInv'
  <2>1. ASSUME ~ redis, published[i] \in Events PROVE Logged(published[i], at[c])
    BY <1>2, <1>4, <2>1 DEF IInv, FrameRecordInv
  <2>2. ASSUME ~ redis, NEW k \in DOMAIN heard'[c], published[heard'[c][k]] \in Events
        PROVE  Logged(published[heard'[c][k]], at[c])
    <3>1. heard'[c][k] = i \/ (k \in DOMAIN heard[c] /\ heard'[c][k] = heard[c][k])
      BY <1>2, <1>3, <1>5, <2>2
    <3> QED
      BY <1>2, <2>1, <2>2, <3>1 DEF IInv, FrameRecordInv
  <2>3. ASSUME ~ redis, NEW k \in DOMAIN queue'[c], published[queue'[c][k]] \in Events
        PROVE  Logged(published[queue'[c][k]], at[c])
    <3>1. k \in DOMAIN Tail(queue[c]) /\ queue'[c][k] = Tail(queue[c])[k]
      BY <1>5
    <3>2. k + 1 \in DOMAIN queue[c] /\ Tail(queue[c])[k] = queue[c][k + 1]
      BY <1>1, <1>2, <3>1, TailPlaces
    <3> QED
      BY <1>2, <2>3, <3>1, <3>2 DEF IInv, FrameRecordInv
  <2> QED
    BY <1>1, <1>5, <2>2, <2>3 DEF IInv, FrameRecordInv, Logged, Copied, records
<1> QED
  BY <1>6, <1>7, <1>8, <1>9, <1>10 DEF IInv

\* A publication comes after all that anyone has heard or has still to hear.
LEMMA DeliverOrder ==
    ASSUME IInv, NEW w \in up, NEW f \in Frames, Deliver(w, f),
           UNCHANGED <<redis, up, listening, at, heard>>
    PROVE  /\ published' \in Seq(Frames) /\ wire' \in [Workers -> Seq(Nat)]
           /\ queue' \in [Clients -> Seq(Nat)]
           /\ PlaceInv' /\ OrderInv'
<1> DEFINE n == Len(published)
<1>1. /\ n \in Nat /\ w \in Workers
      /\ published' = Append(published, f)
      /\ wire' = IF redis THEN ToChannel(n + 1) ELSE wire
      /\ queue' = IF redis THEN queue ELSE DeliverLocal(w, n + 1)
  BY DEF Deliver, IInv, TypeOK
<1>2. published' \in Seq(Frames) /\ Len(published') = n + 1
  BY <1>1 DEF IInv, TypeOK
<1>3. /\ wire' \in [Workers -> Seq(Nat)]
      /\ \A v \in Workers : \/ wire'[v] = wire[v]
                            \/ redis /\ v \in listening /\ wire'[v] = Append(wire[v], n + 1)
  BY <1>1 DEF ToChannel, IInv, TypeOK
<1>4. /\ DeliverLocal(w, n + 1) \in [Clients -> Seq(Nat)]
      /\ \A c \in Clients : \/ DeliverLocal(w, n + 1)[c] = queue[c]
                            \/ /\ at[c] = w
                               /\ DeliverLocal(w, n + 1)[c] = Append(queue[c], n + 1)
  <2>1. TypeOK /\ n + 1 \in Nat
    BY <1>1 DEF IInv
  <2> QED
    BY <1>1, <2>1, LocalQueues
<1>5. /\ queue' \in [Clients -> Seq(Nat)]
      /\ \A c \in Clients : \/ queue'[c] = queue[c]
                            \/ /\ ~ redis /\ at[c] = w
                               /\ queue'[c] = Append(queue[c], n + 1)
  BY <1>1, <1>4 DEF IInv, TypeOK
<1>6. PlaceInv'
  BY <1>1, <1>3, <1>5 DEF IInv, PlaceInv
<1>7. ASSUME NEW v \in Workers PROVE Within(wire'[v], n + 1) /\ Rising(wire'[v])
  <2>1. wire[v] \in Seq(Nat) /\ Within(wire[v], n) /\ Rising(wire[v])
    BY DEF IInv, TypeOK, OrderInv
  <2> QED
    BY <1>1, <1>3, <2>1, AppendRises, WithinMore
<1>8. ASSUME NEW c \in Clients
      PROVE  /\ Within(queue'[c], n + 1) /\ Rising(queue'[c])
             /\ Within(heard[c], n + 1) /\ Before(heard[c], queue'[c])
             /\ at[c] # Nowhere => Before(queue'[c], wire'[at[c]]) /\ Before(heard[c], wire'[at[c]])
  <2>1. /\ queue[c] \in Seq(Nat) /\ heard[c] \in Seq(Nat)
        /\ Within(queue[c], n) /\ Rising(queue[c]) /\ Within(heard[c], n)
        /\ Before(heard[c], queue[c])
        /\ at[c] # Nowhere => at[c] \in Workers /\ wire[at[c]] \in Seq(Nat)
        /\ at[c] # Nowhere => Before(queue[c], wire[at[c]]) /\ Before(heard[c], wire[at[c]])
    BY DEF IInv, TypeOK, OrderInv
  <2>2. Within(queue'[c], n + 1) /\ Rising(queue'[c])
    BY <1>1, <1>5, <2>1, AppendRises, WithinMore
  <2>3. Within(heard[c], n + 1) /\ Before(heard[c], queue'[c])
    <3>1. Within(heard[c], n + 1) /\ Before(heard[c], Append(queue[c], n + 1))
      BY <1>1, <2>1, WithinMore, BeforeNext
    <3> QED
      BY <1>5, <2>1, <3>1
  <2>4. ASSUME at[c] # Nowhere, redis
        PROVE  Before(queue'[c], wire'[at[c]]) /\ Before(heard[c], wire'[at[c]])
    <3> DEFINE t == wire[at[c]]
    <3>1. /\ t \in Seq(Nat) /\ Before(queue[c], t) /\ Before(heard[c], t)
          /\ wire'[at[c]] = t \/ wire'[at[c]] = Append(t, n + 1)
      BY <1>3, <2>1, <2>4
    <3>2. Before(queue[c], Append(t, n + 1)) /\ Before(heard[c], Append(t, n + 1))
      BY <1>1, <2>1, <3>1, BeforeNext
    <3>3. queue'[c] = queue[c]
      BY <1>5, <2>4
    <3> QED
      BY <3>1, <3>2, <3>3
  <2>5. ASSUME at[c] # Nowhere, ~ redis
        PROVE  Before(queue'[c], wire'[at[c]]) /\ Before(heard[c], wire'[at[c]])
    <3>1. wire'[at[c]] = <<>>
      BY <1>1, <2>1, <2>5 DEF IInv, PlaceInv
    <3> QED
      BY <3>1 DEF Before
  <2> QED
    BY <2>2, <2>3, <2>4, <2>5
<1>9. OrderInv'
  BY <1>2, <1>7, <1>8 DEF OrderInv
<1> QED
  BY <1>2, <1>3, <1>5, <1>6, <1>9

\* If its event is on record, so is what everyone will have heard.
LEMMA DeliverRecords ==
    ASSUME IInv, NEW w \in up, NEW f \in Frames, Deliver(w, f),
           UNCHANGED <<redis, up, listening, at, heard, records>>,
           f \in Events => Copied(f) /\ Logged(f, Home(w))
    PROVE  FrameRecordInv'
<1> DEFINE n == Len(published)
<1>1. /\ n \in Nat /\ w \in Workers /\ published \in Seq(Frames)
      /\ published' = Append(published, f)
      /\ queue' = IF redis THEN queue ELSE DeliverLocal(w, n + 1)
  BY DEF Deliver, IInv, TypeOK
<1>2. /\ DOMAIN published' = 1..(n + 1) /\ published'[n + 1] = f
      /\ \A i \in 1..n : i \in DOMAIN published /\ published'[i] = published[i]
  BY <1>1
<1>3. ASSUME NEW i \in DOMAIN published', published'[i] \in Events
      PROVE  Copied(published'[i]) /\ (redis => Logged(published'[i], Stream))
  <2>1. i \in 1..(n + 1)
    BY <1>2
  <2>2. CASE i = n + 1
    BY <1>2, <1>3, <2>2 DEF Home
  <2>3. CASE i \in 1..n
    BY <1>2, <1>3, <2>3 DEF IInv, FrameRecordInv
  <2> QED
    BY <1>1, <2>1, <2>2, <2>3
<1>4. ASSUME ~ redis, NEW c \in Clients, at[c] # Nowhere
      PROVE  /\ \A k \in DOMAIN queue'[c] :
                    published'[queue'[c][k]] \in Events => Logged(published'[queue'[c][k]], at[c])
             /\ \A k \in DOMAIN heard[c] :
                    published'[heard[c][k]] \in Events => Logged(published'[heard[c][k]], at[c])
  <2>1. /\ queue[c] \in Seq(Nat) /\ heard[c] \in Seq(Nat)
        /\ Within(queue[c], n) /\ Within(heard[c], n)
    BY DEF IInv, TypeOK, OrderInv
  <2>2. \/ queue'[c] = queue[c]
        \/ at[c] = w /\ queue'[c] = Append(queue[c], n + 1)
    <3>1. \/ DeliverLocal(w, n + 1)[c] = queue[c]
          \/ at[c] = w /\ DeliverLocal(w, n + 1)[c] = Append(queue[c], n + 1)
      BY <1>1, LocalQueues DEF IInv
    <3> QED
      BY <1>1, <1>4, <3>1
  <2>3. ASSUME NEW k \in DOMAIN queue'[c], published'[queue'[c][k]] \in Events
        PROVE  Logged(published'[queue'[c][k]], at[c])
    <3>1. \/ k \in DOMAIN queue[c] /\ queue'[c][k] = queue[c][k]
          \/ at[c] = w /\ queue'[c][k] = n + 1
      <4>1. CASE queue'[c] = queue[c]
        BY <2>3, <4>1
      <4>2. CASE at[c] = w /\ queue'[c] = Append(queue[c], n + 1)
        <5>1. k \in 1..(Len(queue[c]) + 1)
          BY <1>1, <2>1, <2>3, <4>2
        <5> QED
          BY <1>1, <2>1, <4>2, <5>1
      <4> QED
        BY <2>2, <4>1, <4>2
    <3>2. CASE k \in DOMAIN queue[c] /\ queue'[c][k] = queue[c][k]
      <4>1. published'[queue'[c][k]] = published[queue[c][k]]
        BY <1>2, <2>1, <3>2 DEF Within
      <4> QED
        BY <1>4, <2>3, <3>2, <4>1 DEF IInv, FrameRecordInv
    <3>3. CASE at[c] = w /\ queue'[c][k] = n + 1
      BY <1>2, <1>4, <2>3, <3>3 DEF Home
    <3> QED
      BY <3>1, <3>2, <3>3
  <2>4. ASSUME NEW k \in DOMAIN heard[c], published'[heard[c][k]] \in Events
        PROVE  Logged(published'[heard[c][k]], at[c])
    <3>1. published'[heard[c][k]] = published[heard[c][k]]
      BY <1>2, <2>1 DEF Within
    <3> QED
      BY <1>4, <2>4, <3>1 DEF IInv, FrameRecordInv
  <2> QED
    BY <2>3, <2>4
<1>5. UNCHANGED <<redis, at, heard, log, trail, unsaved>>
  BY DEF records
<1> QED
  BY <1>3, <1>4, <1>5 DEF FrameRecordInv, Logged, Copied

\* How a call of Redis ends moves the call and nothing else.
LEMMA OutcomeMoves ==
    ASSUME TypeOK, NEW f \in Frames, NEW w \in Workers, NEW next \in Stages, Outcome(f, w, next)
    PROVE  /\ stage' \in [Frames -> Stages] /\ by' \in [Frames -> Workers \cup {Nowhere}]
           /\ repeats' \in 0..MaxRepeats
           /\ \A g \in Frames : g # f => stage'[g] = stage[g] /\ by'[g] = by[g]
           /\ \/ stage'[f] = next /\ by'[f] = (IF next = "over" THEN Nowhere ELSE w)
              \/ stage'[f] = stage[f] /\ by'[f] = w
              \/ stage'[f] = "over" /\ by'[f] = Nowhere
<1>1. ASSUME NEW s \in Stages, NEW v \in Workers \cup {Nowhere}, Move(f, v, s)
      PROVE  /\ stage' \in [Frames -> Stages] /\ by' \in [Frames -> Workers \cup {Nowhere}]
             /\ \A g \in Frames : g # f => stage'[g] = stage[g] /\ by'[g] = by[g]
             /\ stage'[f] = s /\ by'[f] = v
  BY <1>1 DEF TypeOK, Move
<1>2. repeats' \in 0..MaxRepeats
  BY DEF TypeOK, Outcome
<1>3. stage[f] \in Stages /\ "over" \in Stages
  BY DEF TypeOK, Stages
<1>4. CASE Move(f, IF next = "over" THEN Nowhere ELSE w, next)
  BY <1>1, <1>2, <1>4
<1>5. CASE Move(f, w, stage[f])
  BY <1>1, <1>2, <1>3, <1>5
<1>6. CASE Move(f, Nowhere, "over")
  BY <1>1, <1>2, <1>3, <1>6
<1> QED
  BY <1>4, <1>5, <1>6 DEF Outcome

\* An entry of the log stays there until MaxLog later ones are.
LEMMA LogGrows ==
    ASSUME TypeOK, NEW w \in Workers, NEW e \in Events,
           NEW l \in Capped(Append(log[Home(w)], e), redis),
           log' = [log EXCEPT ![Home(w)] = l], UNCHANGED redis
    PROVE  /\ log' \in [Workers \cup {Stream} -> Seq(Events)]
           /\ \A d \in Events, s \in Workers \cup {Stream} : Logged(d, s) => Logged(d, s)'
           /\ Logged(e, Home(w))'
<1> DEFINE h == Home(w)
           old == log[h]
<1>1. h \in Workers \cup {Stream} /\ old \in Seq(Events) /\ redis \in BOOLEAN
  BY DEF Home, TypeOK
<1>2. l \in Seq(Events) /\ (l = Append(old, e) \/ Len(l) >= MaxLog)
  <2>1. Append(old, e) \in Seq(Events)
    BY <1>1
  <2> QED
    BY <1>1, <2>1, CappedKeeps
<1>3. /\ log' \in [Workers \cup {Stream} -> Seq(Events)] /\ log'[h] = l
      /\ \A s \in Workers \cup {Stream} : s # h => log'[s] = log[s]
  BY <1>1, <1>2 DEF TypeOK
<1>4. ASSUME l = Append(old, e)
      PROVE  /\ Len(l) = Len(old) + 1 /\ e \in Range(l) /\ Range(old) \subseteq Range(l)
  <2>1. /\ Len(l) = Len(old) + 1 /\ Len(old) \in Nat /\ DOMAIN l = 1..(Len(old) + 1)
        /\ l[Len(old) + 1] = e /\ \A k \in DOMAIN old : k \in DOMAIN l /\ l[k] = old[k]
    BY <1>1, <1>4
  <2> QED
    BY <2>1 DEF Range
<1>5. Logged(e, h)'
  BY <1>2, <1>3, <1>4 DEF Logged, Home
<1>6. ASSUME NEW d \in Events, Logged(d, h) PROVE Logged(d, h)'
  <2>1. CASE l = Append(old, e)
    <3>1. Len(l) \in Nat /\ Len(old) \in Nat /\ h' = h
      BY <1>1, <1>2 DEF Home
    <3>2. d \in Range(l) \/ Len(l) >= MaxLog
      BY <1>4, <1>6, <2>1, <3>1 DEF Logged
    <3> QED
      BY <1>3, <3>1, <3>2 DEF Logged
  <2>2. CASE Len(l) >= MaxLog
    BY <1>3, <2>2 DEF Logged, Home
  <2> QED
    BY <1>2, <2>1, <2>2
<1>7. ASSUME NEW d \in Events, NEW s \in Workers \cup {Stream}, Logged(d, s) PROVE Logged(d, s)'
  <2>1. CASE s = h
    <3>1. Logged(d, h)'
      BY <1>6, <1>7, <2>1
    <3> QED
      BY <2>1, <3>1 DEF Logged, Home
  <2>2. CASE s # h
    BY <1>3, <1>7, <2>2 DEF Logged
  <2> QED
    BY <2>1, <2>2
<1> QED
  BY <1>3, <1>5, <1>7

\* Recording puts the event in the log and takes none out that counts.
LEMMA RecordStep ==
    ASSUME IInv, NEW w \in Workers, NEW e \in Events, Record(w, e) PROVE IInv'
<1>1. /\ w \in up /\ stage[e] = "new" /\ by[e] \in {Nowhere, w}
      /\ Outcome(e, w, "audit")
      /\ UNCHANGED <<redis, up, transport, at, queue, trail, unsaved, published, heard>>
  BY DEF Record
<1>2. PICK l \in Capped(Append(log[Home(w)], e), redis) : log' = [log EXCEPT ![Home(w)] = l]
  BY DEF Record
<1>3. /\ log' \in [Workers \cup {Stream} -> Seq(Events)]
      /\ \A d \in Events, s \in Workers \cup {Stream} : Logged(d, s) => Logged(d, s)'
      /\ Logged(e, Home(w))'
  BY <1>1, <1>2, LogGrows DEF IInv
<1>4. /\ stage' \in [Frames -> Stages] /\ by' \in [Frames -> Workers \cup {Nowhere}]
      /\ repeats' \in 0..MaxRepeats
      /\ \A g \in Frames : g # e => stage'[g] = stage[g] /\ by'[g] = by[g]
      /\ \/ stage'[e] = "audit" /\ by'[e] = w
         \/ stage'[e] = "new" /\ by'[e] = w
         \/ stage'[e] = "over" /\ by'[e] = Nowhere
  <2>1. "audit" \in Stages /\ e \in Frames
    BY DEF Stages
  <2> QED
    BY <1>1, <2>1, OutcomeMoves DEF IInv
<1>5. TypeOK'
  BY <1>1, <1>3, <1>4 DEF IInv, TypeOK, transport
<1>6. PlaceInv' /\ OrderInv'
  BY <1>1 DEF IInv, PlaceInv, OrderInv, transport
<1>7. CallInv'
  BY <1>1, <1>4 DEF IInv, CallInv
<1>8. CallRecordInv'
  <2>1. ASSUME NEW d \in Events, stage'[d] \in {"audit", "publish"}
        PROVE  Logged(d, Home(by[d]))'
    <3>1. CASE d = e
      <4>1. by'[d] = w /\ Home(w)' = Home(w)
        BY <1>1, <1>4, <2>1, <3>1 DEF Home
      <4> QED
        BY <1>3, <3>1, <4>1 DEF Logged, Home
    <3>2. CASE d # e
      <4>1. /\ by'[d] = by[d] /\ stage'[d] = stage[d] /\ redis' = redis
            /\ by[d] \in Workers
        BY <1>1, <1>4, <2>1, <3>2 DEF IInv, TypeOK, CallInv
      <4>2. Logged(d, Home(by[d])) /\ Home(by[d]) \in Workers \cup {Stream}
        BY <2>1, <4>1 DEF IInv, CallRecordInv, Home
      <4>3. \A s \in Workers \cup {Stream} : Logged(d, s) => d \in Range(log'[s]) \/ Len(log'[s]) >= MaxLog
        BY <1>3 DEF Logged
      <4> QED
        BY <4>1, <4>2, <4>3 DEF Logged, Home
    <3> QED
      BY <3>1, <3>2
  <2>2. \A d \in Events : stage'[d] = "publish" => Copied(d)'
    BY <1>1, <1>4 DEF IInv, CallRecordInv, Copied
  <2> QED
    BY <2>1, <2>2 DEF CallRecordInv
<1>9. FrameRecordInv'
  <2>1. \A d \in Events, s \in Workers \cup {Stream} :
           Logged(d, s) => d \in Range(log'[s]) \/ Len(log'[s]) >= MaxLog
    BY <1>3 DEF Logged
  <2>2. UNCHANGED <<redis, at, queue, heard, published, trail, unsaved>>
    BY <1>1
  <2>3. \A c \in Clients : at[c] # Nowhere => at[c] \in Workers
    BY DEF IInv, TypeOK
  <2>4. \A i \in DOMAIN published : published[i] \in Events =>
           Copied(published[i])' /\ (redis => Logged(published[i], Stream)')
    BY <2>1, <2>2 DEF IInv, FrameRecordInv, Copied, Logged
  <2>5. ASSUME ~ redis, NEW c \in Clients, at[c] # Nowhere
        PROVE  /\ \A k \in DOMAIN queue[c] : published[queue[c][k]] \in Events =>
                      Logged(published[queue[c][k]], at[c])'
               /\ \A k \in DOMAIN heard[c] : published[heard[c][k]] \in Events =>
                      Logged(published[heard[c][k]], at[c])'
    BY <2>1, <2>2, <2>3, <2>5 DEF IInv, FrameRecordInv, Logged
  <2> QED
    BY <2>2, <2>4, <2>5 DEF FrameRecordInv, Logged, Copied
<1> QED
  BY <1>5, <1>6, <1>7, <1>8, <1>9 DEF IInv

\* A copy that is made, fails or is not wanted: in each case the record says so.
LEMMA PersistEventStep == ASSUME IInv, NEW e \in Events, PersistEvent(e) PROVE IInv'
<1>1. /\ stage[e] = "audit" /\ stage' = [stage EXCEPT ![e] = "publish"]
      /\ by' = [by EXCEPT ![e] = by[e]]
      /\ trail \subseteq trail' /\ unsaved \subseteq unsaved' /\ Copied(e)'
      /\ trail' \subseteq Events \ Skipped /\ unsaved' \subseteq Events \ Skipped
      /\ UNCHANGED <<redis, up, transport, at, queue, log, repeats, published, heard>>
  BY DEF PersistEvent, Move, Copied, IInv, TypeOK
<1>2. by' = by /\ \A d \in Frames : stage'[d] = IF d = e THEN "publish" ELSE stage[d]
  BY <1>1 DEF IInv, TypeOK
<1>3. TypeOK'
  BY <1>1, <1>2 DEF IInv, TypeOK, transport, Stages
<1>4. PlaceInv' /\ OrderInv'
  BY <1>1 DEF IInv, PlaceInv, OrderInv, transport
<1>5. CallInv'
  BY <1>1, <1>2 DEF IInv, CallInv
<1>6. CallRecordInv'
  BY <1>1, <1>2 DEF IInv, CallRecordInv, Logged, Copied, Home
<1>7. FrameRecordInv'
  BY <1>1 DEF IInv, FrameRecordInv, Logged, Copied
<1> QED
  BY <1>3, <1>4, <1>5, <1>6, <1>7 DEF IInv

\* A call that publishes leaves every other call alone, and its own is not past a
\* record it was not past before.
LEMMA CallPublishes ==
    ASSUME IInv, NEW w \in up, NEW f \in Frames, Deliver(w, f), Outcome(f, w, "over"),
           UNCHANGED <<redis, up, listening, at, heard, records>>,
           stage[f] = "new" \/ (f \in Events /\ by[f] = w),
           f \in Events => Copied(f) /\ Logged(f, Home(w))
    PROVE  IInv'
<1>1. /\ published' \in Seq(Frames) /\ wire' \in [Workers -> Seq(Nat)]
      /\ queue' \in [Clients -> Seq(Nat)] /\ PlaceInv' /\ OrderInv'
  BY DeliverOrder
<1>2. /\ stage' \in [Frames -> Stages] /\ by' \in [Frames -> Workers \cup {Nowhere}]
      /\ repeats' \in 0..MaxRepeats
      /\ \A g \in Frames : g # f => stage'[g] = stage[g] /\ by'[g] = by[g]
      /\ \/ stage'[f] = "over" /\ by'[f] = Nowhere
         \/ stage'[f] = stage[f] /\ by'[f] = w
  <2>1. "over" \in Stages /\ w \in Workers
    BY DEF Stages, IInv, TypeOK
  <2> QED
    BY <2>1, OutcomeMoves DEF IInv
<1>3. TypeOK'
  BY <1>1, <1>2 DEF IInv, TypeOK, records
<1>4. CallInv'
  BY <1>2 DEF IInv, CallInv
<1>5. CallRecordInv'
  BY <1>2 DEF IInv, CallInv, CallRecordInv, Logged, Copied, Home, records
<1>6. FrameRecordInv'
  BY DeliverRecords
<1> QED
  BY <1>1, <1>3, <1>4, <1>5, <1>6 DEF IInv

\* An event is published once it is past both records.
LEMMA PublishStep == ASSUME IInv, NEW e \in Events, Publish(e) PROVE IInv'
<1>1. /\ by[e] \in up /\ Copied(e) /\ Logged(e, Home(by[e]))
      /\ Deliver(by[e], e) /\ Outcome(e, by[e], "over")
      /\ UNCHANGED <<redis, up, listening, at, heard, records>>
  BY DEF Publish, IInv, CallInv, CallRecordInv
<1> QED
  BY <1>1, CallPublishes

\* A plain frame has no record to be on.
LEMMA AnnounceStep ==
    ASSUME IInv, NEW w \in Workers, NEW f \in Plain, Announce(w, f) PROVE IInv'
<1>1. /\ w \in up /\ stage[f] = "new" /\ Deliver(w, f) /\ Outcome(f, w, "over")
      /\ UNCHANGED <<redis, up, listening, at, heard, records>>
  BY DEF Announce
<1>2. f \in Frames /\ (f \in Events => Copied(f) /\ Logged(f, Home(w)))
  OBVIOUS
<1>3. \/ stage[f] = "new"
      \/ f \in Events /\ by[f] = w
  BY <1>1
<1> HIDE DEF Frames
<1> QED
  BY <1>1, <1>2, <1>3, CallPublishes

\* A call that gives up is past nothing.
LEMMA PublishFailsStep == ASSUME IInv, NEW e \in Events, PublishFails(e) PROVE IInv'
<1>1. /\ stage' = [stage EXCEPT ![e] = "over"] /\ by' = [by EXCEPT ![e] = Nowhere]
      /\ UNCHANGED <<redis, up, transport, at, queue, records, repeats, published, heard>>
  BY DEF PublishFails, Move
<1>2. TypeOK'
  BY <1>1 DEF IInv, TypeOK, transport, records, Stages
<1>3. PlaceInv' /\ OrderInv'
  BY <1>1 DEF IInv, PlaceInv, OrderInv, transport
<1>4. CallInv' /\ CallRecordInv' /\ FrameRecordInv'
  BY <1>1 DEF IInv, TypeOK, CallInv, CallRecordInv, FrameRecordInv, Logged, Copied, Home, records
<1> QED
  BY <1>2, <1>3, <1>4 DEF IInv

\* Nothing changes.
LEMMA StutterStep == ASSUME IInv, UNCHANGED vars PROVE IInv'
<1> USE DEF vars, transport, records, calls
<1>1. TypeOK' /\ PlaceInv' /\ OrderInv'
  BY DEF IInv, TypeOK, PlaceInv, OrderInv
<1>2. CallInv' /\ CallRecordInv' /\ FrameRecordInv'
  BY DEF IInv, CallInv, CallRecordInv, FrameRecordInv, Logged, Copied, Home
<1> QED
  BY <1>1, <1>2 DEF IInv
-----------------------------------------------------------------------------
\* The invariant holds in every reachable state.
THEOREM Invariant == Spec => []IInv
<1>1. IInv /\ [Next]_vars => IInv'
  <2> SUFFICES ASSUME IInv, [Next]_vars PROVE IInv'
    OBVIOUS
  <2>1. ASSUME NEW w \in Workers,
               Start(w) \/ Stop(w) \/ LoseConnection(w) \/ Resubscribe(w) \/ ReadLoop(w)
        PROVE  IInv'
    BY <2>1, StartStep, StopStep, LoseConnectionStep, ReadLoopStep
  <2>2. ASSUME NEW w \in Workers, NEW e \in Events, Record(w, e) PROVE IInv'
    BY <2>2, RecordStep
  <2>3. ASSUME NEW w \in Workers, NEW f \in Plain, Announce(w, f) PROVE IInv'
    BY <2>3, AnnounceStep
  <2>4. ASSUME NEW c \in Clients, Unsubscribe(c) \/ Forward(c) PROVE IInv'
    BY <2>4, UnsubscribeStep, ForwardStep
  <2>5. ASSUME NEW c \in Clients, NEW w \in Workers, Subscribe(c, w) PROVE IInv'
    BY <2>5, SubscribeStep
  <2>6. ASSUME NEW e \in Events, PersistEvent(e) \/ Publish(e) \/ PublishFails(e) PROVE IInv'
    BY <2>6, PersistEventStep, PublishStep, PublishFailsStep
  <2>7. CASE UNCHANGED vars
    BY <2>7, StutterStep
  <2> QED
    BY <2>1, <2>2, <2>3, <2>4, <2>5, <2>6, <2>7 DEF Next
<1> QED
  BY <1>1, InitStep, PTL DEF Spec

\* Every variable of the event bus keeps its type.
THEOREM TypeCorrect == Spec => []TypeOK
<1>1. IInv => TypeOK
  BY DEF IInv
<1> QED
  BY <1>1, Invariant, PTL

\* Nobody hears of an event that is not on record.
THEOREM HeardIsOnRecord == Spec => []FramesAreOnRecord
<1>1. IInv => FramesAreOnRecord
  <2> SUFFICES ASSUME IInv, NEW c \in Clients, at[c] # Nowhere,
                      NEW i \in Range(heard[c]), published[i] \in Events
               PROVE  /\ Logged(published[i], Home(at[c])) /\ Copied(published[i])
    BY DEF FramesAreOnRecord, Logged, Copied
  <2>1. PICK k \in DOMAIN heard[c] : i = heard[c][k]
    BY DEF Range
  <2>2. i \in DOMAIN published
    BY <2>1 DEF IInv, TypeOK, OrderInv, Within
  <2>3. CASE redis
    BY <2>2, <2>3 DEF IInv, FrameRecordInv, Home
  <2>4. CASE ~ redis
    BY <2>1, <2>2, <2>4 DEF IInv, FrameRecordInv, Home
  <2> QED
    BY <2>3, <2>4 DEF IInv, TypeOK
<1> QED
  BY <1>1, Invariant, PTL

\* The bus, with Redis or without, implements the promise to its subscribers: every
\* step publishes one frame, brings one client one frame, ends connections, or is
\* none of their business.
THEOREM ImplementsBroadcast == Spec => BestEffortBroadcast
<1>1. Init => Promise!Init
  BY DEF Init, Promise!Init
<1>2. IInv /\ [Next]_vars => [Promise!Next]_<<published, heard>>
  <2> SUFFICES ASSUME IInv, [Next]_vars PROVE Promise!Next \/ UNCHANGED <<published, heard>>
    OBVIOUS
  <2>1. ASSUME NEW w \in Workers, NEW f \in Frames, Deliver(w, f), UNCHANGED heard
        PROVE  Promise!Next
    BY <2>1 DEF Deliver, Promise!Next, Promise!Publish
  <2>2. ASSUME NEW c \in Clients, Forward(c) PROVE Promise!Next
    <3> DEFINE i == Head(queue[c])
    <3>1. /\ queue[c] # <<>> /\ queue[c] \in Seq(Nat)
          /\ Within(queue[c], Len(published)) /\ Before(heard[c], queue[c])
          /\ heard' = [heard EXCEPT ![c] = Append(heard[c], i)] /\ UNCHANGED published
      BY <2>2 DEF Forward, IInv, TypeOK, OrderInv
    <3>2. 1 \in DOMAIN queue[c] /\ i = queue[c][1]
      BY <3>1
    <3>3. i \in DOMAIN published /\ \A k \in DOMAIN heard[c] : heard[c][k] < i
      BY <3>1, <3>2 DEF Within, Before, IInv, TypeOK
    <3> QED
      BY <3>1, <3>3 DEF Promise!Next, Promise!Hear
  <2>3. ASSUME NEW w \in Workers, Stop(w) PROVE Promise!Next
    <3> DEFINE closed == {c \in Clients : at[c] = w}
    <3>1. heard' = [c \in Clients |-> IF c \in closed THEN <<>> ELSE heard[c]]
      BY <2>3 DEF Stop
    <3> QED
      BY <2>3, <3>1 DEF Stop, Promise!Next, Promise!Close
  <2>4. ASSUME NEW c \in Clients, Unsubscribe(c) PROVE Promise!Next
    <3>1. heard' = [d \in Clients |-> IF d \in {c} THEN <<>> ELSE heard[d]]
      BY <2>4 DEF Unsubscribe, IInv, TypeOK
    <3> QED
      BY <2>4, <3>1 DEF Unsubscribe, Promise!Next, Promise!Close
  <2>5. ASSUME NEW e \in Events, Publish(e) PROVE Promise!Next
    BY <2>1, <2>5 DEF Publish, IInv, TypeOK, CallInv
  <2>6. ASSUME NEW w \in Workers, NEW f \in Plain, Announce(w, f) PROVE Promise!Next
    BY <2>1, <2>6 DEF Announce
  <2>7. CASE UNCHANGED <<published, heard>>
    BY <2>7
  <2> QED
    BY <2>2, <2>3, <2>4, <2>5, <2>6, <2>7
       DEF Next, vars, Start, LoseConnection, Resubscribe, ReadLoop, Record, Subscribe,
           PersistEvent, PublishFails
<1> QED
  BY <1>1, <1>2, Invariant, PTL DEF Spec, BestEffortBroadcast, Promise!Spec
=============================================================================
