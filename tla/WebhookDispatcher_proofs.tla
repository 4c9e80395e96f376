---------------------- MODULE WebhookDispatcher_proofs ----------------------
(***************************************************************************)
(* Proofs about WebhookDispatcher for any number of webhooks, events,      *)
(* workers, tests and operators.  Two arguments: a delivery is in one place*)
(* only, so no two workers ever send it; and no count, in a row or in a    *)
(* request's copy of one, exceeds the failures there have been.            *)
(***************************************************************************)
EXTENDS WebhookDispatcher, FiniteSetTheorems, SequenceTheorems, TLAPS

Jobs == Deliveries \cup {<<h>> : h \in Hooks} \cup {Nothing}
Memory == [tries : Nat, ok : BOOLEAN, seen : RowType]
Busy(a) == pc[a] \notin {"idle", "new", "done"}

\* Everyone goes through stages of its own, with a job while it is busy.
StageInv ==
    /\ \A w \in Workers :
        /\ pc[w] \in {"idle", "send", "read", "record", "tell"}
        /\ IF pc[w] = "idle" THEN mem[w] = Blank /\ job[w] = Nothing ELSE job[w] \in Deliveries
    /\ \A t \in Tests : pc[t] \in {"new", "send", "record", "done"}
    /\ \A o \in Operators : pc[o] \in {"new", "apply", "done"}
    /\ \A a \in Tests \cup Operators : Busy(a) => job[a] \in {<<h>> : h \in Hooks}

\* A delivery is in one place: in one slot of the queue or with one worker, and on
\* its event's way it has passed the pump.
PlaceInv ==
    /\ \A i, j \in 1..Len(queue) : queue[i] = queue[j] => i = j
    /\ \A i \in 1..Len(queue) :
        /\ queue[i][2] \notin coming /\ queue[i] \notin settled
        /\ \A w \in Workers : job[w] # queue[i]
    /\ \A w \in Workers : Busy(w) => job[w][2] \notin coming
    /\ \A v, w \in Workers : Busy(v) /\ Busy(w) /\ job[v] = job[w] => v = w
    /\ \A d \in settled : d[2] \notin coming

\* What a worker is about to send has not been settled, and it has attempts left.
SendInv ==
    /\ NoNagging
    /\ \A w \in Workers : pc[w] = "send" => job[w] \notin settled /\ mem[w].tries < Attempts

\* No count runs ahead of the failures.
CountInv ==
    /\ CountIsTheRun
    /\ \A h \in Hooks : row[h].count <= failed[h]
    /\ \A a \in Actors : Busy(a) => mem[a].seen.count <= failed[Hook(a)]

IInv == TypeOK /\ StageInv /\ PlaceInv /\ SendInv /\ CountInv /\ SwitchedOffForCause

USE WebhookAssumption DEF Actors

\* The webhook of whoever is busy is a webhook.
LEMMA HookType ==
    ASSUME StageInv, NEW a \in Actors, Busy(a) PROVE Hook(a) \in Hooks
  BY DEF StageInv, Busy, Hook, Deliveries

\* The blank records: a new row, and the copy of one with no request sent.
LEMMA Records ==
    /\ Fresh \in RowType /\ Fresh.count = 0
    /\ Blank \in Memory /\ Blank.seen = Fresh /\ Blank.tries = 0
  BY DEF Fresh, Blank, RowType, Memory

\* What the steps make of the memory of a request.
LEMMA MemoryUpdates ==
    ASSUME NEW m \in Memory, NEW r \in RowType, NEW n \in Nat, NEW b \in BOOLEAN
    PROVE  /\ m.tries \in Nat /\ m.ok \in BOOLEAN /\ m.seen \in RowType /\ m.seen.count \in Nat
           /\ [m EXCEPT !.seen = r] \in Memory
           /\ [m EXCEPT !.seen = r].seen = r /\ [m EXCEPT !.seen = r].tries = m.tries
           /\ [m EXCEPT !.tries = n, !.ok = b] \in Memory
           /\ [m EXCEPT !.tries = n, !.ok = b].tries = n
           /\ [m EXCEPT !.tries = n, !.ok = b].seen = m.seen
           /\ [m EXCEPT !.ok = b] \in Memory
           /\ [m EXCEPT !.ok = b].tries = m.tries /\ [m EXCEPT !.ok = b].seen = m.seen
  BY DEF Memory, RowType

\* TypeOK, for its two longest types by name.
LEMMA Typed == TypeOK => job \in [Actors -> Jobs] /\ mem \in [Actors -> Memory]
  BY DEF TypeOK, Jobs, Memory

\* Moving one actor on leaves the others where they are.
LEMMA GotoMoves ==
    ASSUME TypeOK, NEW a \in Actors, NEW stage \in Stages, Goto(a, stage)
    PROVE  /\ pc' \in [Actors -> Stages] /\ pc'[a] = stage
           /\ \A b \in Actors : b # a => pc'[b] = pc[b]
  BY DEF TypeOK, Goto

\* Whoever finishes has no job and no memory of one.
LEMMA FinishMoves ==
    ASSUME TypeOK, NEW a \in Actors, Finish(a)
    PROVE  /\ pc' \in [Actors -> Stages] /\ job' \in [Actors -> Jobs] /\ mem' \in [Actors -> Memory]
           /\ pc'[a] = IF a \in Workers THEN "idle" ELSE "done"
           /\ job'[a] = Nothing /\ mem'[a] = Blank
           /\ \A b \in Actors : b # a =>
                  pc'[b] = pc[b] /\ job'[b] = job[b] /\ mem'[b] = mem[b]
<1>1. pc \in [Actors -> Stages] /\ job \in [Actors -> Jobs] /\ mem \in [Actors -> Memory]
  BY Typed DEF TypeOK
<1>2. Nothing \in Jobs /\ Blank \in Memory /\ {"idle", "done"} \subseteq Stages
  BY Records DEF Jobs, Stages
<1> QED
  BY <1>1, <1>2 DEF Finish, Goto

\* Finishing breaks none of the invariants about deliveries.
LEMMA FinishKeeps ==
    ASSUME IInv, NEW a \in Actors, Finish(a), UNCHANGED <<coming, queue, settled, nagged>>
    PROVE  StageInv' /\ PlaceInv' /\ SendInv'
<1>1. TypeOK /\ StageInv /\ PlaceInv /\ SendInv
  BY DEF IInv
<1>2. /\ pc'[a] = (IF a \in Workers THEN "idle" ELSE "done")
      /\ job'[a] = Nothing /\ mem'[a] = Blank
      /\ \A b \in Actors : b # a => pc'[b] = pc[b] /\ job'[b] = job[b] /\ mem'[b] = mem[b]
  BY <1>1, FinishMoves
<1>3. StageInv'
  BY <1>1, <1>2 DEF StageInv, Busy
<1>4. PlaceInv'
  <2>1. \A i \in 1..Len(queue) : queue[i] \in Deliveries
    BY <1>1 DEF TypeOK
  <2>2. \A w \in Workers : Busy(w)' => Busy(w) /\ job'[w] = job[w]
    BY <1>1, <1>2 DEF Busy
  <2>3. \A w \in Workers, i \in 1..Len(queue) : job'[w] # queue[i]
    BY <1>1, <1>2, <2>1 DEF PlaceInv, Deliveries
  <2> QED
    BY <1>1, <2>2, <2>3 DEF PlaceInv
<1>5. SendInv'
  BY <1>1, <1>2, Records DEF SendInv, NoNagging
<1> QED
  BY <1>3, <1>4, <1>5

\* So does moving on with the same delivery, but to send it.
LEMMA MoveKeeps ==
    ASSUME IInv, NEW a \in Actors, NEW stage \in {"read", "record", "tell"}, Goto(a, stage),
           UNCHANGED <<job, coming, queue, settled, nagged>>, Busy(a),
           a \notin Workers => stage = "record" /\ a \in Tests,
           mem'[a].tries = mem[a].tries, \A b \in Actors : b # a => mem'[b] = mem[b]
    PROVE  StageInv' /\ PlaceInv' /\ SendInv'
<1>1. TypeOK /\ StageInv /\ PlaceInv /\ SendInv
  BY DEF IInv
<1>2. pc'[a] = stage /\ \A b \in Actors : b # a => pc'[b] = pc[b]
  BY <1>1, GotoMoves DEF Stages
<1>3. StageInv'
  BY <1>1, <1>2 DEF StageInv, Busy
<1>4. PlaceInv'
  BY <1>1, <1>2 DEF PlaceInv, Busy
<1>5. SendInv'
  BY <1>1, <1>2 DEF SendInv, NoNagging
<1> QED
  BY <1>3, <1>4, <1>5

\* So does every step of an actor that neither had nor gets anything to send.
LEMMA WaitKeeps ==
    ASSUME IInv, UNCHANGED <<pc, job, mem, queue, settled, nagged>>, coming' \subseteq coming
    PROVE  StageInv' /\ PlaceInv' /\ SendInv'
  BY DEF IInv, StageInv, PlaceInv, SendInv, NoNagging, Busy

\* A request that has finished, or has moved on with a copy no larger than before,
\* leaves every count in its place.
LEMMA CountsKept ==
    ASSUME IInv, NEW a \in Actors, UNCHANGED <<failed>>,
           \A h \in Hooks : row'[h].count = row[h].count /\ run'[h] = run[h],
           raced \subseteq raced',
           \A b \in Actors : b # a => pc'[b] = pc[b] /\ job'[b] = job[b] /\ mem'[b] = mem[b],
           Busy(a)' => mem'[a].seen.count <= failed[Hook(a)']
    PROVE  CountInv'
<1>1. \A b \in Actors : Busy(b)' => mem'[b].seen.count <= failed[Hook(b)']
  BY DEF IInv, CountInv, Busy, Hook
<1> QED
  BY <1>1 DEF IInv, CountInv, CountIsTheRun

\* A step that leaves the rows and the telling worker alone leaves the cause alone.
LEMMA CauseKept ==
    ASSUME IInv, NEW a \in Actors, UNCHANGED <<failed, offBy, notice, crashed>>,
           pc[a] # "tell",
           \A b \in Actors : b # a => pc'[b] = pc[b] /\ job'[b] = job[b]
    PROVE  SwitchedOffForCause'
<1>1. \A w \in Workers : pc[w] = "tell" => pc'[w] = "tell" /\ Hook(w)' = Hook(w)
  BY DEF Hook
<1> QED
  BY <1>1 DEF IInv, SwitchedOffForCause

\* A request that ends with nothing written changes nothing that counts.
LEMMA FinishedStep ==
    ASSUME IInv, NEW a \in Actors, Finish(a), pc[a] # "tell",
           UNCHANGED <<hooked, row, coming, queue, crashed, notice, sending, health>>
    PROVE  IInv'
<1>1. /\ ~ Busy(a)' /\ TypeOK
      /\ \A b \in Actors : b # a => pc'[b] = pc[b] /\ job'[b] = job[b] /\ mem'[b] = mem[b]
  BY FinishMoves DEF Busy, IInv
<1>2. TypeOK'
  BY <1>1, FinishMoves DEF TypeOK, Jobs, Memory, sending, health
<1>3. StageInv' /\ PlaceInv' /\ SendInv'
  BY FinishKeeps DEF sending
<1>4. CountInv' /\ SwitchedOffForCause'
  BY <1>1, CountsKept, CauseKept DEF health
<1> QED
  BY <1>2, <1>3, <1>4 DEF IInv

\* A missed event touches no delivery.
LEMMA MissStep ==
    ASSUME IInv, NEW e \in Events, Miss(e) PROVE IInv'
<1> USE DEF Miss, sending, health
<1>1. TypeOK'
  BY DEF IInv, TypeOK
<1>2. StageInv' /\ PlaceInv' /\ SendInv'
  BY WaitKeeps
<1>3. CountInv' /\ SwitchedOffForCause'
  BY DEF IInv, CountInv, CountIsTheRun, SwitchedOffForCause, Busy, Hook
<1> QED
  BY <1>1, <1>2, <1>3 DEF IInv

\* A delivery that is taken leaves the queue.
LEMMA TakeStep ==
    ASSUME IInv, NEW w \in Workers, Take(w) PROVE IInv'
<1> DEFINE d == Head(queue)
<1>1. /\ pc[w] = "idle" /\ queue # <<>> /\ job' = [job EXCEPT ![w] = d]
      /\ queue' = Tail(queue) /\ Goto(w, "send")
      /\ UNCHANGED <<hooked, row, coming, mem, crashed, notice, sending, health>>
  BY DEF Take
<1>2. TypeOK /\ StageInv /\ PlaceInv /\ SendInv /\ CountInv
  BY DEF IInv
<1>3. /\ d = queue[1] /\ d \in Deliveries /\ Len(queue) \in Nat \ {0}
      /\ queue' \in Seq(Deliveries) /\ Len(queue') = Len(queue) - 1
      /\ \A i \in 1..Len(queue') : queue'[i] = queue[i + 1]
  BY <1>1, <1>2 DEF TypeOK
<1>4. /\ pc' \in [Actors -> Stages] /\ pc'[w] = "send" /\ \A b \in Actors : b # w => pc'[b] = pc[b]
  BY <1>1, <1>2, GotoMoves DEF Stages
<1>5. /\ job' \in [Actors -> Jobs] /\ job'[w] = d /\ \A b \in Actors : b # w => job'[b] = job[b]
  BY <1>1, <1>2, <1>3, Typed DEF Jobs
<1>6. TypeOK'
  BY <1>1, <1>2, <1>3, <1>4, <1>5 DEF TypeOK, Jobs, sending, health
<1>7. StageInv'
  BY <1>1, <1>2, <1>3, <1>4, <1>5 DEF StageInv, Busy
<1>8. PlaceInv'
  <2>1. d[2] \notin coming /\ d \notin settled /\ \A v \in Workers : job[v] # d
    BY <1>2, <1>3 DEF PlaceInv
  <2>2. \A i \in 1..Len(queue') : i + 1 \in 1..Len(queue) /\ queue[i + 1] # d
    BY <1>2, <1>3 DEF PlaceInv
  <2>3. \A i, j \in 1..Len(queue') : queue'[i] = queue'[j] => i = j
    BY <1>2, <1>3, <2>2 DEF PlaceInv
  <2>4. \A i \in 1..Len(queue') :
            /\ queue'[i][2] \notin coming' /\ queue'[i] \notin settled'
            /\ \A v \in Workers : job'[v] # queue'[i]
    BY <1>1, <1>2, <1>3, <1>5, <2>2 DEF PlaceInv, sending
  <2>5. \A v \in Workers : Busy(v)' => job'[v][2] \notin coming'
    BY <1>1, <1>2, <1>4, <1>5, <2>1 DEF PlaceInv, Busy
  <2>6. \A u, v \in Workers : Busy(u)' /\ Busy(v)' /\ job'[u] = job'[v] => u = v
    BY <1>2, <1>4, <1>5, <2>1 DEF PlaceInv, Busy
  <2> QED
    BY <1>1, <1>2, <2>3, <2>4, <2>5, <2>6 DEF PlaceInv, sending
<1>9. SendInv'
  <2>1. job'[w] \notin settled /\ mem[w].tries = 0
    BY <1>1, <1>2, <1>3, <1>5, Records DEF PlaceInv, StageInv
  <2> QED
    BY <1>1, <1>2, <1>4, <1>5, <2>1 DEF SendInv, NoNagging, sending
<1>10. CountInv'
  <2>1. mem'[w].seen.count = 0 /\ Hook(w)' \in Hooks
    BY <1>1, <1>2, <1>3, <1>5, Records DEF StageInv, Hook, Deliveries
  <2>2. mem'[w].seen.count <= failed[Hook(w)']
    BY <1>2, <2>1 DEF TypeOK
  <2> QED
    BY <1>1, <1>4, <1>5, <2>2, CountsKept DEF health
<1>11. SwitchedOffForCause'
  BY <1>1, <1>4, <1>5, CauseKept DEF health
<1> QED
  BY <1>6, <1>7, <1>8, <1>9, <1>10, <1>11 DEF IInv

\* A send is of a delivery nobody has settled.
LEMMA SendStep ==
    ASSUME IInv, NEW w \in Workers, Send(w) PROVE IInv'
<1>1. TypeOK /\ StageInv /\ PlaceInv /\ SendInv /\ CountInv
  BY DEF IInv
<1>2. pc[w] = "send" /\ job[w] \in Deliveries /\ job[w] \notin settled /\ mem[w].tries < Attempts
  BY <1>1 DEF Send, SendInv, StageInv
<1>3. PICK answer \in {"accepted", "refused", "none"} :
        /\ mem' = [mem EXCEPT ![w].tries = @ + 1, ![w].ok = answer = "accepted"]
        /\ Goto(w, IF Retryable(answer) /\ mem[w].tries + 1 < Attempts THEN "send" ELSE "read")
        /\ settled' = IF answer = "none" THEN settled ELSE settled \cup {job[w]}
  BY DEF Send
<1> DEFINE more == answer = "none" /\ mem[w].tries + 1 < Attempts
           stage == IF more THEN "send" ELSE "read"
           ok == answer = "accepted"
           tries == mem[w].tries + 1
           memory == [mem[w] EXCEPT !.tries = tries, !.ok = ok]
<1>4. nagged' = {} /\ UNCHANGED <<hooked, row, coming, queue, job, crashed, notice, health>>
  BY <1>1, <1>2 DEF Send, SendInv, NoNagging
<1>5. Goto(w, stage) /\ stage \in Stages
  BY <1>3 DEF Retryable, Stages
<1>6. /\ mem[w] \in Memory /\ ok \in BOOLEAN
      /\ mem[w].tries \in Nat /\ tries \in Nat /\ mem[w].seen \in RowType
  <2>1. mem[w] \in Memory /\ ok \in BOOLEAN
    BY <1>1, Typed
  <2> QED
    BY <2>1 DEF Memory
<1>7. mem' = [mem EXCEPT ![w] = memory]
  BY <1>1, <1>3, <1>6 DEF TypeOK
<1> HIDE DEF ok, tries
<1>8. memory \in Memory /\ memory.tries = tries /\ memory.seen = mem[w].seen
  BY <1>6 DEF Memory
<1> HIDE DEF memory, stage, more
<1>9. /\ pc' \in [Actors -> Stages] /\ pc'[w] = stage /\ \A b \in Actors : b # w => pc'[b] = pc[b]
      /\ mem' \in [Actors -> Memory] /\ mem'[w] = memory
      /\ \A b \in Actors : b # w => mem'[b] = mem[b]
  BY <1>1, <1>5, <1>7, <1>8, GotoMoves, Typed
<1>10. settled' \subseteq settled \cup {job[w]}
  BY <1>3
<1>11. TypeOK'
  BY <1>1, <1>2, <1>4, <1>9, <1>10 DEF TypeOK, Memory, health
<1>12. StageInv'
  BY <1>1, <1>2, <1>4, <1>9 DEF StageInv, Busy, stage
<1>13. PlaceInv'
  <2>1. \A v \in Workers : Busy(v)' => Busy(v)
    BY <1>2, <1>9 DEF Busy
  <2>2. Busy(w)
    BY <1>2 DEF Busy
  <2> QED
    BY <1>1, <1>4, <1>10, <2>1, <2>2 DEF PlaceInv
<1>14. SendInv'
  <2>1. \A v \in Workers : v # w /\ pc[v] = "send" => job[v] # job[w]
    BY <1>1, <1>2 DEF PlaceInv, Busy
  <2>2. pc'[w] = "send" => settled' = settled /\ mem[w].tries + 1 < Attempts
    BY <1>3, <1>9 DEF stage, more
  <2>3. memory.tries <= Attempts
    BY <1>2, <1>6, <1>8 DEF tries
  <2>4. NoNagging'
    BY <1>1, <1>4, <1>9, <2>3 DEF SendInv, NoNagging
  <2>5. ASSUME NEW v \in Workers, pc'[v] = "send"
        PROVE  job'[v] \notin settled' /\ mem'[v].tries < Attempts
    <3>1. CASE v = w
      BY <1>2, <1>4, <1>8, <1>9, <2>2, <2>5, <3>1 DEF tries
    <3>2. CASE v # w
      BY <1>1, <1>4, <1>9, <1>10, <2>1, <2>5, <3>2 DEF SendInv
    <3> QED
      BY <3>1, <3>2
  <2> QED
    BY <2>4, <2>5 DEF SendInv
<1>15. CountInv'
  <2>1. mem'[w].seen.count <= failed[Hook(w)'] /\ Hook(w)' = Hook(w)
    BY <1>1, <1>2, <1>4, <1>8, <1>9 DEF CountInv, Busy, Hook
  <2> QED
    BY <1>4, <1>9, <2>1, CountsKept DEF health
<1>16. SwitchedOffForCause'
  BY <1>2, <1>4, <1>9, CauseKept DEF health
<1> QED
  BY <1>11, <1>12, <1>13, <1>14, <1>15, <1>16 DEF IInv

\* The copy of a row has its count.
LEMMA ReadStep ==
    ASSUME IInv, NEW w \in Workers, Read(w) PROVE IInv'
<1>1. TypeOK /\ StageInv /\ CountInv
  BY DEF IInv
<1> DEFINE h == Hook(w)
<1>2. /\ pc[w] = "read" /\ Busy(w) /\ h \in Hooks
      /\ UNCHANGED <<hooked, row, coming, queue, crashed, notice, sending, health>>
  BY <1>1, HookType DEF Read, Busy
<1>3. CASE Finish(w)
  BY <1>2, <1>3, FinishedStep DEF sending, health
<1>4. CASE mem' = [mem EXCEPT ![w].seen = row[h]] /\ Goto(w, "record") /\ UNCHANGED job
  <2>1. mem[w] \in Memory /\ row[h] \in RowType
    BY <1>1, <1>2, Typed DEF TypeOK
  <2> DEFINE memory == [mem[w] EXCEPT !.seen = row[h]]
  <2>2. memory \in Memory /\ memory.seen = row[h] /\ memory.tries = mem[w].tries
    BY <2>1, MemoryUpdates DEF Memory
  <2>3. mem' = [mem EXCEPT ![w] = memory]
    BY <1>4
  <2> HIDE DEF memory, h
  <2>4. /\ pc' \in [Actors -> Stages] /\ pc'[w] = "record" /\ \A b \in Actors : b # w => pc'[b] = pc[b]
        /\ mem' \in [Actors -> Memory] /\ mem'[w] = memory
        /\ \A b \in Actors : b # w => mem'[b] = mem[b]
    BY <1>1, <1>4, <2>2, <2>3, GotoMoves, Typed DEF Stages
  <2>5. TypeOK'
    BY <1>1, <1>2, <1>4, <2>4 DEF TypeOK, Memory, sending, health
  <2>6. StageInv' /\ PlaceInv' /\ SendInv'
    BY <1>2, <1>4, <2>2, <2>4, MoveKeeps DEF sending
  <2>7. mem'[w].seen.count <= failed[Hook(w)']
    BY <1>1, <1>2, <1>4, <2>2, <2>4 DEF CountInv, Hook, h
  <2>8. CountInv' /\ SwitchedOffForCause'
    BY <1>2, <1>4, <2>4, <2>7, CountsKept, CauseKept DEF health
  <2> QED
    BY <2>5, <2>6, <2>8 DEF IInv
<1> QED
  BY <1>3, <1>4 DEF Read

\* The event tells of the webhook that was switched off.
LEMMA TellStep ==
    ASSUME IInv, NEW w \in Workers, Tell(w) PROVE IInv'
<1>1. TypeOK /\ StageInv
  BY DEF IInv
<1>2. /\ pc[w] = "tell" /\ Busy(w) /\ Hook(w) \in Hooks /\ Finish(w)
      /\ \E state \in {"given", "lost"} : notice' = [notice EXCEPT ![Hook(w)] = state]
      /\ UNCHANGED <<hooked, row, coming, queue, crashed, sending, health>>
  BY <1>1, HookType DEF Tell, Notice, Busy
<1>3. TypeOK'
  BY <1>1, <1>2, FinishMoves DEF TypeOK, Notices, Jobs, Memory, sending, health
<1>4. StageInv' /\ PlaceInv' /\ SendInv'
  BY <1>2, FinishKeeps DEF sending
<1>5. /\ pc'[w] = "idle" /\ ~ Busy(w)'
      /\ \A b \in Actors : b # w => pc'[b] = pc[b] /\ job'[b] = job[b] /\ mem'[b] = mem[b]
  BY <1>1, <1>2, FinishMoves DEF Busy
<1>6. CountInv'
  BY <1>2, <1>5, CountsKept DEF health
<1>7. SwitchedOffForCause'
  <2>1. \A h \in Hooks : h # Hook(w) => notice'[h] = notice[h]
    <3>1. PICK state \in {"given", "lost"} : notice' = [notice EXCEPT ![Hook(w)] = state]
      BY <1>2
    <3>2. notice \in [Hooks -> Notices] /\ state # "none"
      BY <1>1 DEF TypeOK
    <3> QED
      BY <1>2, <3>1, <3>2
  <2>2. notice'[Hook(w)] # "none"
    BY <1>1, <1>2 DEF TypeOK
  <2> QED
    BY <1>2, <1>5, <2>1, <2>2 DEF IInv, SwitchedOffForCause, Hook, health
<1> QED
  BY <1>3, <1>4, <1>6, <1>7 DEF IInv

\* An unrecorded delivery is over.
LEMMA RecordFailsStep ==
    ASSUME IInv, NEW w \in Workers, RecordFails(w) PROVE IInv'
  BY FinishedStep DEF RecordFails, sending, health

\* A new webhook has no deliveries.
LEMMA CreateStep ==
    ASSUME IInv, NEW h \in Hooks, Create(h) PROVE IInv'
<1> USE DEF Create, sending, health
<1>1. TypeOK'
  BY DEF IInv, TypeOK
<1>2. StageInv' /\ PlaceInv' /\ SendInv'
  BY WaitKeeps
<1>3. CountInv' /\ SwitchedOffForCause'
  BY DEF IInv, CountInv, CountIsTheRun, SwitchedOffForCause, Busy, Hook
<1> QED
  BY <1>1, <1>2, <1>3 DEF IInv

\* A request that finds its webhook copies the row.
LEMMA OpenStep ==
    ASSUME IInv, NEW a \in Tests \cup Operators, NEW h \in Hooks, Open(a, h) PROVE IInv'
<1>1. TypeOK /\ StageInv /\ PlaceInv /\ SendInv /\ CountInv
  BY DEF IInv
<1>2. /\ pc[a] = "new" /\ a \in Actors /\ a \notin Workers
      /\ UNCHANGED <<hooked, row, coming, queue, crashed, notice, sending, health>>
  BY DEF Open
<1>3. CASE Finish(a)
  BY <1>2, <1>3, FinishedStep DEF sending, health
<1>4. CASE /\ job' = [job EXCEPT ![a] = <<h>>] /\ mem' = [mem EXCEPT ![a].seen = row[h]]
           /\ Goto(a, IF a \in Tests THEN "send" ELSE "apply")
  <2> DEFINE memory == [mem[a] EXCEPT !.seen = row[h]]
             stage == IF a \in Tests THEN "send" ELSE "apply"
  <2>1. mem[a] \in Memory /\ row[h] \in RowType /\ stage \in Stages
    BY <1>1, <1>2, Typed DEF TypeOK, Stages
  <2>2. memory \in Memory /\ memory.seen = row[h] /\ memory.tries = mem[a].tries
    BY <2>1, MemoryUpdates DEF Memory
  <2>3. mem' = [mem EXCEPT ![a] = memory] /\ Goto(a, stage)
    BY <1>4
  <2> HIDE DEF memory
  <2>4. /\ pc' \in [Actors -> Stages] /\ pc'[a] = stage /\ \A b \in Actors : b # a => pc'[b] = pc[b]
        /\ mem' \in [Actors -> Memory] /\ mem'[a] = memory
        /\ \A b \in Actors : b # a => mem'[b] = mem[b]
        /\ job' \in [Actors -> Jobs] /\ job'[a] = <<h>>
        /\ \A b \in Actors : b # a => job'[b] = job[b]
    BY <1>1, <1>2, <1>4, <2>1, <2>2, <2>3, GotoMoves, Typed DEF Jobs
  <2> HIDE DEF stage
  <2>5. TypeOK'
    BY <1>1, <1>2, <2>4 DEF TypeOK, Memory, Jobs, sending, health
  <2>6. \A w \in Workers : w # a
    BY <1>2
  <2>7. StageInv'
    <3>1. \A b \in Tests \cup Operators : Busy(b)' => job'[b] \in {<<k>> : k \in Hooks}
      <4>1. \A b \in Tests \cup Operators : b # a /\ Busy(b)' => Busy(b) /\ job'[b] = job[b]
        BY <2>4 DEF Busy
      <4> QED
        BY <1>1, <2>4, <4>1 DEF StageInv
    <3>2. (a \in Tests /\ pc'[a] = "send") \/ (a \in Operators \ Tests /\ pc'[a] = "apply")
      BY <1>2, <2>4 DEF stage
    <3>3. \A t \in Tests : pc'[t] \in {"new", "send", "record", "done"}
      BY <1>1, <2>4, <3>2 DEF StageInv
    <3>4. \A o \in Operators : pc'[o] \in {"new", "apply", "done"}
      BY <1>1, <2>4, <3>2 DEF StageInv
    <3>5. \A w \in Workers : pc'[w] = pc[w] /\ job'[w] = job[w] /\ mem'[w] = mem[w]
      BY <2>4, <2>6
    <3> QED
      BY <1>1, <3>1, <3>3, <3>4, <3>5 DEF StageInv
  <2>8. PlaceInv' /\ SendInv'
    BY <1>1, <1>2, <2>4, <2>6 DEF PlaceInv, SendInv, NoNagging, Busy, sending
  <2>9. mem'[a].seen.count <= failed[Hook(a)']
    BY <1>1, <1>2, <2>2, <2>4 DEF CountInv, Hook
  <2>10. CountInv' /\ SwitchedOffForCause'
    BY <1>2, <2>4, <2>9, CountsKept, CauseKept DEF health
  <2> QED
    BY <2>5, <2>7, <2>8, <2>10 DEF IInv
<1> QED
  BY <1>3, <1>4 DEF Open

\* A test is not a delivery.
LEMMA SendTestStep ==
    ASSUME IInv, NEW t \in Tests, SendTest(t) PROVE IInv'
<1>1. TypeOK /\ StageInv /\ CountInv
  BY DEF IInv
<1>2. /\ pc[t] = "send" /\ Busy(t) /\ t \notin Workers /\ Goto(t, "record")
      /\ UNCHANGED <<hooked, row, coming, queue, job, crashed, notice, sending, health>>
  BY DEF SendTest, Busy
<1>3. PICK accepted \in BOOLEAN : mem' = [mem EXCEPT ![t].ok = accepted]
  BY DEF SendTest
<1> DEFINE memory == [mem[t] EXCEPT !.ok = accepted]
<1>4. mem[t] \in Memory
  BY <1>1, Typed
<1>5. memory \in Memory /\ memory.seen = mem[t].seen /\ memory.tries = mem[t].tries
  BY <1>4, MemoryUpdates DEF Memory
<1>6. mem' = [mem EXCEPT ![t] = memory]
  BY <1>3
<1> HIDE DEF memory
<1>7. /\ pc' \in [Actors -> Stages] /\ pc'[t] = "record" /\ \A b \in Actors : b # t => pc'[b] = pc[b]
      /\ mem' \in [Actors -> Memory] /\ mem'[t] = memory
      /\ \A b \in Actors : b # t => mem'[b] = mem[b]
  BY <1>1, <1>2, <1>5, <1>6, GotoMoves, Typed DEF Stages
<1>8. TypeOK'
  BY <1>1, <1>2, <1>7 DEF TypeOK, Memory, sending, health
<1>9. StageInv' /\ PlaceInv' /\ SendInv'
  BY <1>2, <1>5, <1>7, MoveKeeps DEF sending
<1>10. mem'[t].seen.count <= failed[Hook(t)']
  BY <1>1, <1>2, <1>5, <1>7 DEF CountInv, Hook
<1>11. CountInv' /\ SwitchedOffForCause'
  BY <1>2, <1>7, <1>10, CountsKept, CauseKept DEF health
<1> QED
  BY <1>8, <1>9, <1>11 DEF IInv

\* What record_attempt makes of the copy.
LEMMA AttemptResult ==
    ASSUME NEW a \in Actors, mem[a] \in Memory, NEW limit
    PROVE  /\ RecordAttempt(a, limit) \in RowType
           /\ RecordAttempt(a, limit).count = IF mem[a].ok THEN 0 ELSE mem[a].seen.count + 1
           /\ RecordAttempt(a, limit).off /\ ~ mem[a].seen.off =>
                  ~ mem[a].ok /\ mem[a].seen.count + 1 >= limit
<1> DEFINE count == IF mem[a].ok THEN 0 ELSE mem[a].seen.count + 1
           off == mem[a].seen.off \/ (~ mem[a].ok /\ count >= limit)
<1>1. mem[a].seen \in RowType /\ mem[a].ok \in BOOLEAN
  BY DEF Memory
<1>2. count \in Nat /\ off \in BOOLEAN
  BY <1>1 DEF RowType
<1>3. RecordAttempt(a, limit) = [mem[a].seen EXCEPT !.count = count, !.off = off]
  BY DEF RecordAttempt
<1>4. off /\ ~ mem[a].seen.off => ~ mem[a].ok /\ mem[a].seen.count + 1 >= limit
  OBVIOUS
<1> HIDE DEF off
<1> QED
  BY <1>1, <1>2, <1>3, <1>4 DEF RowType

\* A write on an up-to-date copy leaves the new count; any other write leaves the new
\* count or the one that was there.
LEMMA WriteEffect ==
    ASSUME TypeOK, NEW a \in Actors, Hook(a) \in Hooks, NEW new \in RowType, Write(a, new)
    PROVE  /\ row' \in [Hooks -> RowType] /\ raced' \subseteq Hooks /\ raced \subseteq raced'
           /\ Hook(a) \notin raced' => row'[Hook(a)].count = new.count
           /\ row'[Hook(a)].count \in {new.count, row[Hook(a)].count}
           /\ \A h \in Hooks : h # Hook(a) => row'[h] = row[h]
<1> DEFINE h == Hook(a)
           count == IF new.count # mem[a].seen.count THEN new.count ELSE row[h].count
           off == IF new.off # mem[a].seen.off THEN new.off ELSE row[h].off
           deleted == row[h].deleted \/ new.deleted
           written == [count |-> count, off |-> off, deleted |-> deleted]
<1>1. row \in [Hooks -> RowType] /\ row[h] \in RowType
  BY DEF TypeOK
<1>2. row' = [row EXCEPT ![h] = written]
  BY <1>1 DEF Write
<1>3. count \in Nat /\ off \in BOOLEAN /\ deleted \in BOOLEAN
  BY <1>1 DEF RowType
<1>4. raced' = IF row[h] # mem[a].seen THEN raced \cup {h} ELSE raced
  BY DEF Write
<1>5. raced' \subseteq Hooks /\ raced \subseteq raced'
  BY <1>4 DEF TypeOK
<1>6. h \notin raced' => count = new.count
  BY <1>4
<1>7. count \in {new.count, row[h].count}
  OBVIOUS
<1> HIDE DEF count, off, deleted, h
<1>8. written \in RowType /\ written.count = count
  BY <1>3 DEF RowType
<1> HIDE DEF written
<1>9. row' \in [Hooks -> RowType] /\ row'[h] = written /\ \A k \in Hooks : k # h => row'[k] = row[k]
  BY <1>1, <1>2, <1>8 DEF h
<1> QED
  BY <1>5, <1>6, <1>7, <1>8, <1>9 DEF h

\* Recording an outcome keeps the counts in step with the failures.
LEMMA RecordingKeeps ==
    ASSUME IInv, NEW a \in Actors, Busy(a), NEW limit, Write(a, RecordAttempt(a, limit)), CountFailure(a),
           \A b \in Actors : Busy(b)' => Busy(b) /\ job'[b] = job[b] /\ mem'[b] = mem[b]
    PROVE  /\ row' \in [Hooks -> RowType] /\ raced' \subseteq Hooks
           /\ failed' \in [Hooks -> Nat] /\ run' \in [Hooks -> Nat]
           /\ \A h \in Hooks : failed[h] <= failed'[h]
           /\ failed'[Hook(a)] = IF mem[a].ok THEN failed[Hook(a)] ELSE failed[Hook(a)] + 1
           /\ CountInv'
<1> DEFINE h == Hook(a)
           new == RecordAttempt(a, limit)
<1>1. /\ TypeOK /\ CountInv /\ CountIsTheRun /\ h \in Hooks /\ mem[a] \in Memory
      /\ failed \in [Hooks -> Nat] /\ run \in [Hooks -> Nat]
      /\ mem[a].seen.count \in Nat /\ mem[a].ok \in BOOLEAN
  <2>1. mem[a] \in Memory /\ TypeOK /\ CountInv /\ StageInv
    BY Typed DEF IInv
  <2> QED
    BY <2>1, HookType DEF TypeOK, CountInv, Memory, RowType
<1>2. new \in RowType /\ new.count = IF mem[a].ok THEN 0 ELSE mem[a].seen.count + 1
  BY <1>1, AttemptResult
<1> HIDE DEF h, new
<1>3. /\ row' \in [Hooks -> RowType] /\ raced' \subseteq Hooks /\ raced \subseteq raced'
      /\ h \notin raced' => row'[h].count = new.count
      /\ row'[h].count \in {new.count, row[h].count}
      /\ \A k \in Hooks : k # h => row'[k] = row[k]
  BY <1>1, <1>2, WriteEffect DEF h, new
<1>4. h \notin raced' => row[h] = mem[a].seen
  BY <1>1 DEF Write, h
<1>5. /\ failed' = [failed EXCEPT ![h] = IF mem[a].ok THEN failed[h] ELSE failed[h] + 1]
      /\ run' = [run EXCEPT ![h] = IF mem[a].ok THEN 0 ELSE run[h] + 1]
  BY <1>1 DEF CountFailure, h
<1>6. failed' \in [Hooks -> Nat] /\ run' \in [Hooks -> Nat] /\ \A k \in Hooks : failed[k] <= failed'[k]
  BY <1>1, <1>5
<1>7. CountIsTheRun'
  <2> SUFFICES ASSUME NEW k \in Hooks, k \notin raced' PROVE row'[k].count = run'[k]
    BY DEF CountIsTheRun
  <2>1. row[k].count = run[k]
    BY <1>1, <1>3 DEF CountIsTheRun
  <2> QED
    BY <1>1, <1>2, <1>3, <1>4, <1>5, <2>1
<1>8. ASSUME NEW k \in Hooks PROVE row'[k].count <= failed'[k]
  <2>1. row[k].count <= failed[k] /\ row[k].count \in Nat
    BY <1>1 DEF CountInv, TypeOK, RowType
  <2>2. mem[a].seen.count <= failed[h]
    BY <1>1 DEF CountInv, h
  <2> QED
    BY <1>1, <1>2, <1>3, <1>5, <2>1, <2>2
<1>9. ASSUME NEW b \in Actors, Busy(b)' PROVE mem'[b].seen.count <= failed'[Hook(b)']
  <2>1. /\ Busy(b) /\ Hook(b)' = Hook(b) /\ Hook(b) \in Hooks /\ mem'[b] = mem[b]
        /\ mem[b].seen.count \in Nat /\ mem[b].seen.count <= failed[Hook(b)]
    BY <1>1, <1>9, HookType, Typed DEF Hook, IInv, CountInv, Memory, RowType
  <2> QED
    BY <1>1, <1>6, <2>1
<1> QED
  BY <1>3, <1>5, <1>6, <1>7, <1>8, <1>9, <1>1 DEF CountInv, h

\* Recording a failure counts one more than the copy, which is no more than there
\* have been.
LEMMA RecordStep ==
    ASSUME IInv, NEW w \in Workers, Record(w) PROVE IInv'
<1> DEFINE h == Hook(w)
           new == RecordAttempt(w, FailureLimit)
           disabled == new.off /\ ~ mem[w].seen.off
<1>1. /\ TypeOK /\ StageInv /\ CountInv /\ SwitchedOffForCause
      /\ pc[w] = "record" /\ Busy(w) /\ w \in Actors /\ mem[w] \in Memory
  BY Typed DEF IInv, Record, Busy
<1>2. h \in Hooks
  BY <1>1, HookType
<1>3. /\ Write(w, new) /\ CountFailure(w)
      /\ UNCHANGED <<hooked, coming, queue, crashed, sending>>
      /\ offBy' = IF disabled THEN [offBy EXCEPT ![h] = "dispatcher"] ELSE offBy
      /\ \/ Finish(w) /\ ~ disabled /\ UNCHANGED notice
         \/ Finish(w) /\ disabled /\ notice' = [notice EXCEPT ![h] = "lost"]
         \/ /\ disabled /\ Goto(w, "tell") /\ UNCHANGED <<job, mem>>
            /\ notice' = [notice EXCEPT ![h] = "none"]
  BY DEF Record, Notice
<1> HIDE DEF h, new, disabled
<1>4. /\ pc' \in [Actors -> Stages] /\ job' \in [Actors -> Jobs] /\ mem' \in [Actors -> Memory]
      /\ \A b \in Actors : b # w => pc'[b] = pc[b] /\ job'[b] = job[b] /\ mem'[b] = mem[b]
      /\ \/ ~ Busy(w)'
         \/ pc'[w] = "tell" /\ job'[w] = job[w] /\ mem'[w] = mem[w] /\ Goto(w, "tell")
  BY <1>1, <1>3, FinishMoves, GotoMoves, Typed DEF Stages, Busy
<1>5. \A b \in Actors : Busy(b)' => Busy(b) /\ job'[b] = job[b] /\ mem'[b] = mem[b]
  BY <1>1, <1>4 DEF Busy
<1>6. /\ row' \in [Hooks -> RowType] /\ raced' \subseteq Hooks
      /\ failed' \in [Hooks -> Nat] /\ run' \in [Hooks -> Nat]
      /\ \A k \in Hooks : failed[k] <= failed'[k]
      /\ failed'[h] = IF mem[w].ok THEN failed[h] ELSE failed[h] + 1
      /\ CountInv'
  BY <1>1, <1>3, <1>5, RecordingKeeps DEF new, h
<1>7. TypeOK'
  <2>1. notice' \in [Hooks -> Notices] /\ offBy' \in [Hooks -> {"nobody", "operator", "dispatcher"}]
    BY <1>1, <1>3 DEF TypeOK, Notices
  <2> QED
    BY <1>1, <1>2, <1>3, <1>4, <1>6, <2>1 DEF TypeOK, Jobs, Memory, sending
<1>8. StageInv' /\ PlaceInv' /\ SendInv'
  <2>1. CASE Finish(w)
    BY <1>3, <2>1, FinishKeeps DEF sending
  <2>2. CASE Goto(w, "tell") /\ UNCHANGED <<job, mem>>
    BY <1>1, <1>3, <2>2, MoveKeeps DEF sending
  <2> QED
    BY <1>3, <2>1, <2>2
<1>9. disabled => failed'[h] >= FailureLimit
  <2>1. disabled => ~ mem[w].ok /\ mem[w].seen.count + 1 >= FailureLimit
    BY <1>1, AttemptResult DEF disabled, new
  <2>2. mem[w].seen.count <= failed[h] /\ mem[w].seen.count \in Nat /\ failed[h] \in Nat
    BY <1>1, <1>2 DEF CountInv, TypeOK, Memory, RowType, h
  <2> QED
    BY <1>6, <2>1, <2>2
<1>10. SwitchedOffForCause'
  <2> SUFFICES ASSUME NEW k \in Hooks, offBy'[k] = "dispatcher"
               PROVE  /\ failed'[k] >= FailureLimit
                      /\ \/ notice'[k] # "none"
                         \/ crashed'
                         \/ \E v \in Workers : pc'[v] = "tell" /\ Hook(v)' = k
    BY DEF SwitchedOffForCause
  <2>1. CASE disabled /\ k = h
    <3>1. CASE Goto(w, "tell") /\ UNCHANGED job
      BY <1>1, <1>9, <2>1, <3>1, GotoMoves DEF Hook, Stages, h
    <3>2. CASE notice' = [notice EXCEPT ![h] = "lost"]
      BY <1>1, <1>2, <1>9, <2>1, <3>2 DEF TypeOK
    <3> QED
      BY <1>3, <2>1, <3>1, <3>2
  <2>2. CASE ~ (disabled /\ k = h)
    <3>1. offBy[k] = "dispatcher" /\ notice'[k] = notice[k] /\ crashed' = crashed
      BY <1>1, <1>2, <1>3, <2>2 DEF TypeOK
    <3>2. failed'[k] >= FailureLimit
      BY <1>1, <1>6, <3>1 DEF SwitchedOffForCause, TypeOK
    <3>3. \A v \in Workers : pc[v] = "tell" => pc'[v] = "tell" /\ Hook(v)' = Hook(v)
      BY <1>1, <1>4 DEF Hook
    <3> QED
      BY <1>1, <3>1, <3>2, <3>3 DEF SwitchedOffForCause
  <2> QED
    BY <2>1, <2>2
<1> QED
  BY <1>6, <1>7, <1>8, <1>10 DEF IInv

\* A test counts like a delivery, but switches nothing off.
LEMMA RecordTestStep ==
    ASSUME IInv, NEW t \in Tests, RecordTest(t) PROVE IInv'
<1>1. /\ TypeOK /\ StageInv /\ SwitchedOffForCause
      /\ pc[t] = "record" /\ Busy(t) /\ t \in Actors /\ t \notin Workers
  BY DEF IInv, RecordTest, Busy
<1>2. /\ Write(t, RecordAttempt(t, NoLimit)) /\ CountFailure(t) /\ Finish(t)
      /\ UNCHANGED <<hooked, coming, queue, crashed, notice, sending, offBy>>
  BY DEF RecordTest
<1>3. /\ ~ Busy(t)'
      /\ \A b \in Actors : b # t => pc'[b] = pc[b] /\ job'[b] = job[b] /\ mem'[b] = mem[b]
  BY <1>1, <1>2, FinishMoves DEF Busy
<1>4. \A b \in Actors : Busy(b)' => Busy(b) /\ job'[b] = job[b] /\ mem'[b] = mem[b]
  BY <1>3 DEF Busy
<1>5. /\ row' \in [Hooks -> RowType] /\ raced' \subseteq Hooks
      /\ failed' \in [Hooks -> Nat] /\ run' \in [Hooks -> Nat]
      /\ \A k \in Hooks : failed[k] <= failed'[k]
      /\ CountInv'
  BY <1>1, <1>2, <1>4, RecordingKeeps
<1>6. TypeOK'
  BY <1>1, <1>2, <1>5, FinishMoves DEF TypeOK, Jobs, Memory, sending
<1>7. StageInv' /\ PlaceInv' /\ SendInv'
  BY <1>2, FinishKeeps DEF sending
<1>8. SwitchedOffForCause'
  <2>1. \A w \in Workers : pc'[w] = pc[w] /\ Hook(w)' = Hook(w)
    BY <1>1, <1>3 DEF Hook
  <2>2. \A k \in Hooks : failed[k] >= FailureLimit => failed'[k] >= FailureLimit
    BY <1>1, <1>5 DEF TypeOK
  <2> QED
    BY <1>1, <1>2, <2>1, <2>2 DEF SwitchedOffForCause
<1> QED
  BY <1>5, <1>6, <1>7, <1>8 DEF IInv

\* An operator's change leaves a count that is no larger, in step with the run.
LEMMA OperatorStep ==
    ASSUME IInv, NEW o \in Operators, pc[o] = "apply", Finish(o),
           row' \in [Hooks -> RowType], raced' \subseteq Hooks, raced \subseteq raced',
           run' \in [Hooks -> Nat], offBy' \in [Hooks -> {"nobody", "operator", "dispatcher"}],
           \A h \in Hooks : h \notin raced' /\ row[h].count = run[h] => row'[h].count = run'[h],
           \A h \in Hooks : row'[h].count \in {0, row[h].count},
           \A h \in Hooks : offBy'[h] \in {"nobody", "operator", offBy[h]},
           UNCHANGED <<hooked, coming, queue, crashed, notice, sending, failed>>
    PROVE  IInv'
<1>1. TypeOK /\ StageInv /\ CountInv /\ SwitchedOffForCause /\ o \in Actors /\ o \notin Workers
  BY DEF IInv
<1>2. \A b \in Actors : b # o => pc'[b] = pc[b] /\ job'[b] = job[b] /\ mem'[b] = mem[b]
  BY <1>1, FinishMoves
<1>3. TypeOK'
  BY <1>1, FinishMoves DEF TypeOK, Jobs, Memory, sending
<1>4. StageInv' /\ PlaceInv' /\ SendInv'
  BY FinishKeeps DEF sending
<1>5. CountInv'
  <2>1. CountIsTheRun'
    BY <1>1 DEF CountInv, CountIsTheRun
  <2>2. \A h \in Hooks : row'[h].count <= failed'[h]
    <3> SUFFICES ASSUME NEW h \in Hooks PROVE row'[h].count <= failed[h]
      OBVIOUS
    <3>1. row[h].count <= failed[h] /\ failed[h] \in Nat
      BY <1>1 DEF CountInv, TypeOK
    <3> QED
      BY <3>1
  <2>3. \A b \in Actors : Busy(b)' => mem'[b].seen.count <= failed'[Hook(b)']
    BY <1>1, <1>2, FinishMoves DEF CountInv, Busy, Hook
  <2> QED
    BY <2>1, <2>2, <2>3 DEF CountInv
<1>6. SwitchedOffForCause'
  <2>1. \A w \in Workers : pc'[w] = pc[w] /\ Hook(w)' = Hook(w)
    BY <1>1, <1>2 DEF Hook
  <2>2. \A h \in Hooks : offBy'[h] = "dispatcher" => offBy[h] = "dispatcher"
    OBVIOUS
  <2> QED
    BY <1>1, <2>1, <2>2 DEF SwitchedOffForCause
<1> QED
  BY <1>3, <1>4, <1>5, <1>6 DEF IInv

\* Switching on forgets the count and the run alike.
LEMMA SwitchOnStep ==
    ASSUME IInv, NEW o \in Operators, SwitchOn(o) PROVE IInv'
<1> DEFINE h == Hook(o)
           new == [mem[o].seen EXCEPT !.off = FALSE, !.count = 0]
<1>1. /\ TypeOK /\ StageInv /\ pc[o] = "apply" /\ Busy(o) /\ o \in Actors /\ Finish(o)
      /\ Write(o, new) /\ run' = [run EXCEPT ![h] = 0]
      /\ offBy' = (IF row'[h].off THEN offBy ELSE [offBy EXCEPT ![h] = "nobody"])
      /\ UNCHANGED <<hooked, coming, queue, crashed, notice, sending, failed>>
  BY DEF IInv, SwitchOn, Busy
<1>2. h \in Hooks /\ mem[o].seen \in RowType
  BY <1>1, HookType, Typed DEF Memory
<1>3. new \in RowType /\ new.count = 0
  BY <1>2 DEF RowType
<1> HIDE DEF h, new
<1>4. /\ row' \in [Hooks -> RowType] /\ raced' \subseteq Hooks /\ raced \subseteq raced'
      /\ h \notin raced' => row'[h].count = 0
      /\ row'[h].count \in {0, row[h].count}
      /\ \A k \in Hooks : k # h => row'[k] = row[k]
  BY <1>1, <1>2, <1>3, WriteEffect DEF h
<1>5. run' \in [Hooks -> Nat] /\ run'[h] = 0 /\ \A k \in Hooks : k # h => run'[k] = run[k]
  BY <1>1, <1>2 DEF TypeOK
<1>6. /\ offBy' \in [Hooks -> {"nobody", "operator", "dispatcher"}]
      /\ \A k \in Hooks : offBy'[k] \in {"nobody", "operator", offBy[k]}
  BY <1>1, <1>2 DEF TypeOK
<1>7. /\ \A k \in Hooks : k \notin raced' /\ row[k].count = run[k] => row'[k].count = run'[k]
      /\ \A k \in Hooks : row'[k].count \in {0, row[k].count}
  BY <1>4, <1>5
<1> QED
  BY <1>1, <1>4, <1>5, <1>6, <1>7, OperatorStep

\* Switching off leaves the counts.
LEMMA SwitchOffStep ==
    ASSUME IInv, NEW o \in Operators, SwitchOff(o) PROVE IInv'
<1> DEFINE h == Hook(o)
<1>1. /\ TypeOK /\ StageInv /\ pc[o] = "apply" /\ Busy(o) /\ o \in Actors /\ Finish(o)
      /\ row' = [row EXCEPT ![h].off = TRUE] /\ offBy' = [offBy EXCEPT ![h] = "operator"]
      /\ UNCHANGED <<hooked, coming, queue, crashed, notice, sending, failed, run, raced>>
  BY DEF IInv, SwitchOff, Busy
<1>2. h \in Hooks /\ row \in [Hooks -> RowType]
  BY <1>1, HookType DEF TypeOK
<1>3. row' \in [Hooks -> RowType] /\ \A k \in Hooks : row'[k].count = row[k].count
  BY <1>1, <1>2 DEF RowType
<1>4. /\ offBy' \in [Hooks -> {"nobody", "operator", "dispatcher"}]
      /\ \A k \in Hooks : offBy'[k] \in {"nobody", "operator", offBy[k]}
  BY <1>1, <1>2 DEF TypeOK
<1>5. run' \in [Hooks -> Nat] /\ raced' \subseteq Hooks /\ raced \subseteq raced'
  BY <1>1 DEF TypeOK
<1> QED
  BY <1>1, <1>3, <1>4, <1>5, OperatorStep

\* Deleting leaves the counts.
LEMMA DeleteStep ==
    ASSUME IInv, NEW o \in Operators, Delete(o) PROVE IInv'
<1> DEFINE h == Hook(o)
<1>1. /\ TypeOK /\ StageInv /\ pc[o] = "apply" /\ Busy(o) /\ o \in Actors /\ Finish(o)
      /\ row' = [row EXCEPT ![h].deleted = TRUE]
      /\ UNCHANGED <<hooked, coming, queue, crashed, notice, sending, failed, run, raced, offBy>>
  BY DEF IInv, Delete, Busy, health
<1>2. h \in Hooks /\ row \in [Hooks -> RowType]
  BY <1>1, HookType DEF TypeOK
<1>3. row' \in [Hooks -> RowType] /\ \A k \in Hooks : row'[k].count = row[k].count
  BY <1>1, <1>2 DEF RowType
<1>4. /\ run' \in [Hooks -> Nat] /\ raced' \subseteq Hooks /\ raced \subseteq raced'
      /\ offBy' \in [Hooks -> {"nobody", "operator", "dispatcher"}]
      /\ \A k \in Hooks : offBy'[k] = offBy[k]
  BY <1>1 DEF TypeOK
<1> QED
  BY <1>1, <1>3, <1>4, OperatorStep

\* After a crash no delivery is anywhere.
LEMMA CrashStep ==
    ASSUME IInv, Crash PROVE IInv'
<1>1. /\ TypeOK /\ StageInv /\ PlaceInv /\ SendInv /\ CountInv /\ SwitchedOffForCause
      /\ crashed' = TRUE /\ queue' = <<>>
      /\ job' = [a \in Actors |-> Nothing] /\ mem' = [a \in Actors |-> Blank]
      /\ pc' = [a \in Actors |-> IF a \in Workers THEN "idle"
                                 ELSE IF pc[a] = "new" THEN "new" ELSE "done"]
      /\ UNCHANGED <<hooked, row, coming, notice, sending, health>>
  BY DEF IInv, Crash
<1>2. \A a \in Actors : ~ Busy(a)'
  BY <1>1 DEF Busy
<1>3. TypeOK'
  <2>1. queue' \in Seq(Deliveries) /\ Len(queue') <= QueueSize
    BY <1>1
  <2>2. pc' \in [Actors -> Stages]
    BY <1>1 DEF Stages
  <2>3. job' \in [Actors -> Jobs] /\ mem' \in [Actors -> Memory]
    BY <1>1, Records DEF Jobs
  <2> QED
    BY <1>1, <2>1, <2>2, <2>3 DEF TypeOK, Jobs, Memory, sending, health
<1>4. StageInv'
  BY <1>1, <1>2 DEF StageInv
<1>5. PlaceInv'
  BY <1>1, <1>2 DEF PlaceInv, sending
<1>6. SendInv'
  BY <1>1, Records DEF SendInv, NoNagging, sending
<1>7. CountInv'
  BY <1>1, <1>2 DEF CountInv, CountIsTheRun, health
<1>8. SwitchedOffForCause'
  BY <1>1 DEF SwitchedOffForCause, health
<1> QED
  BY <1>3, <1>4, <1>5, <1>6, <1>7, <1>8 DEF IInv

\* What the pump puts into the queue was in no place before.
LEMMA FanOutStep ==
    ASSUME IInv, NEW e \in Events, FanOut(e) PROVE IInv'
<1> DEFINE subscribers == Subscribed(e)
           room == QueueSize - Len(queue)
           kept == IF Cardinality(subscribers) < room THEN Cardinality(subscribers) ELSE room
           wanted == {<<h, e>> : h \in subscribers}
<1>1. TypeOK /\ StageInv /\ PlaceInv /\ SendInv /\ CountInv /\ SwitchedOffForCause
  BY DEF IInv
<1>2. /\ e \in coming /\ coming' = coming \ {e}
      /\ UNCHANGED <<hooked, row, pc, job, mem, crashed, notice, sending, health>>
  BY DEF FanOut
<1>3. PICK puts \in Injection(1..kept, wanted) : queue' = queue \o puts
  <2>1. \E puts \in Injection(1..kept, wanted) : queue' = queue \o puts
    BY Zenon DEF FanOut
  <2> QED
    BY <2>1
<1>4. subscribers \subseteq Hooks /\ Cardinality(subscribers) \in Nat
  <2>1. subscribers \subseteq Hooks
    BY <1>1 DEF Subscribed, TypeOK
  <2> QED
    BY <2>1, FS_Subset, FS_CardinalityType
<1>5. Len(queue) \in Nat /\ Len(queue) <= QueueSize /\ queue \in Seq(Deliveries)
  BY <1>1 DEF TypeOK
<1>6. kept \in Nat /\ kept <= room
  BY <1>4, <1>5
<1>7. wanted \subseteq Deliveries /\ \A d \in wanted : d[2] = e
  BY <1>4 DEF Deliveries
<1> HIDE DEF subscribers, kept, wanted
<1>8. puts \in Seq(Deliveries) /\ Len(puts) = kept /\ \A i \in 1..kept : puts[i] \in wanted
  <2>1. puts \in [1..kept -> wanted]
    BY DEF Injection
  <2>2. puts \in [1..kept -> Deliveries]
    BY <1>7, <2>1
  <2> QED
    BY <1>6, <2>1, <2>2, SMT
<1>9. \A i, j \in 1..kept : puts[i] = puts[j] => i = j
  BY DEF Injection, IsInjective
<1>10. /\ queue' \in Seq(Deliveries) /\ Len(queue') = Len(queue) + kept
       /\ \A i \in 1..Len(queue') :
              queue'[i] = IF i <= Len(queue) THEN queue[i] ELSE puts[i - Len(queue)]
  <2>1. /\ queue \o puts \in Seq(Deliveries) /\ Len(queue \o puts) = Len(queue) + Len(puts)
        /\ \A i \in 1..Len(queue) + Len(puts) :
               (queue \o puts)[i] = IF i <= Len(queue) THEN queue[i] ELSE puts[i - Len(queue)]
    BY <1>5, <1>8, ConcatProperties
  <2> QED
    BY <1>3, <1>8, <2>1
<1>11. TypeOK'
  <2>1. Len(queue') <= QueueSize
    BY <1>5, <1>6, <1>10
  <2> QED
    BY <1>1, <1>2, <1>10, <2>1 DEF TypeOK, sending, health
<1>12. StageInv'
  BY <1>1, <1>2 DEF StageInv, Busy
<1>13. PlaceInv'
  <2>1. \A i \in 1..Len(queue) : queue[i][2] # e
    BY <1>1, <1>2 DEF PlaceInv
  <2>2. \A i \in 1..Len(queue') :
            \/ i \in 1..Len(queue) /\ queue'[i] = queue[i]
            \/ i - Len(queue) \in 1..kept /\ queue'[i] = puts[i - Len(queue)]
               /\ queue'[i] \in wanted /\ queue'[i][2] = e
    BY <1>5, <1>6, <1>7, <1>8, <1>10
  <2>3. ASSUME NEW i \in 1..Len(queue'), NEW j \in 1..Len(queue'), queue'[i] = queue'[j]
        PROVE  i = j
    <3>1. CASE queue'[i][2] = e
      BY <1>5, <1>9, <2>1, <2>2, <2>3, <3>1
    <3>2. CASE queue'[i][2] # e
      BY <1>1, <2>2, <2>3, <3>2 DEF PlaceInv
    <3> QED
      BY <3>1, <3>2
  <2>4. ASSUME NEW i \in 1..Len(queue')
        PROVE  /\ queue'[i][2] \notin coming' /\ queue'[i] \notin settled'
               /\ \A w \in Workers : job'[w] # queue'[i]
    <3>1. CASE i \in 1..Len(queue) /\ queue'[i] = queue[i]
      BY <1>1, <1>2, <3>1 DEF PlaceInv, sending
    <3>2. CASE queue'[i] \in wanted /\ queue'[i][2] = e
      <4>1. queue'[i] \notin settled
        BY <1>1, <1>2, <3>2 DEF PlaceInv
      <4>2. \A w \in Workers : job[w] # queue'[i]
        <5> SUFFICES ASSUME NEW w \in Workers, job[w] = queue'[i] PROVE FALSE
          OBVIOUS
        <5>1. Busy(w)
          BY <1>1, <1>7, <3>2 DEF StageInv, Busy, Deliveries
        <5> QED
          BY <1>1, <1>2, <3>2, <5>1 DEF PlaceInv
      <4> QED
        BY <1>2, <3>2, <4>1, <4>2 DEF sending
    <3> QED
      BY <2>2, <3>1, <3>2
  <2>5. \A w \in Workers : Busy(w)' => Busy(w) /\ job'[w] = job[w]
    BY <1>2 DEF Busy
  <2> QED
    BY <1>1, <1>2, <2>3, <2>4, <2>5 DEF PlaceInv, sending
<1>14. SendInv' /\ CountInv' /\ SwitchedOffForCause'
  BY <1>1, <1>2 DEF SendInv, NoNagging, CountInv, CountIsTheRun, SwitchedOffForCause,
                    Busy, Hook, sending, health
<1> QED
  BY <1>11, <1>12, <1>13, <1>14 DEF IInv

\* Every step preserves the invariant.
LEMMA InvariantStep == IInv /\ [Next]_vars => IInv'
<1> SUFFICES ASSUME IInv, [Next]_vars PROVE IInv'
  OBVIOUS
<1>1. CASE UNCHANGED vars
  BY <1>1 DEF vars, sending, health, IInv, TypeOK, StageInv, PlaceInv, SendInv, CountInv,
              SwitchedOffForCause, NoNagging, CountIsTheRun, Busy, Hook
<1>2. CASE Next
  BY <1>2, FanOutStep, MissStep, TakeStep, SendStep, ReadStep, RecordStep, TellStep,
     RecordFailsStep, CreateStep, OpenStep, SendTestStep, RecordTestStep, SwitchOnStep,
     SwitchOffStep, DeleteStep, CrashStep DEF Next, Work, Operate
<1> QED
  BY <1>1, <1>2

\* The invariant holds in every reachable state.
THEOREM Invariant == Spec => []IInv
<1>1. Init => IInv
  <2> SUFFICES ASSUME Init PROVE IInv
    OBVIOUS
  <2>1. TypeOK
    <3>1. pc \in [Actors -> Stages]
      BY DEF Init, Stages
    <3>2. job \in [Actors -> Jobs] /\ mem \in [Actors -> Memory]
      BY Records DEF Init, Jobs
    <3>3. queue \in Seq(Deliveries) /\ Len(queue) <= QueueSize
      BY DEF Init
    <3> QED
      BY <3>1, <3>2, <3>3, Records DEF Init, TypeOK, Notices, Jobs, Memory
  <2>2. \A a \in Actors : ~ Busy(a)
    BY DEF Init, Busy
  <2>3. StageInv /\ PlaceInv /\ SendInv
    BY <2>2, Records DEF Init, StageInv, PlaceInv, SendInv, NoNagging
  <2>4. CountInv /\ SwitchedOffForCause
    BY <2>2, Records DEF Init, CountInv, CountIsTheRun, SwitchedOffForCause
  <2> QED
    BY <2>1, <2>3, <2>4 DEF IInv
<1> QED
  BY <1>1, InvariantStep, PTL DEF Spec

\* Every variable of the dispatcher keeps its type, and the queue its bound.
THEOREM TypeCorrect == Spec => []TypeOK
<1>1. IInv => TypeOK
  BY DEF IInv
<1> QED
  BY <1>1, Invariant, PTL

\* However many workers there are, nothing settled is sent again, and nothing more
\* often than its attempts.
THEOREM EndpointsAreNotNagged == Spec => []NoNagging
<1>1. IInv => NoNagging
  BY DEF IInv, SendInv
<1> QED
  BY <1>1, Invariant, PTL

\* The failure count is the run of failures, whoever records, unless a write was
\* based on an old row.
THEOREM CountIsAlwaysTheRun == Spec => []CountIsTheRun
<1>1. IInv => CountIsTheRun
  BY DEF IInv, CountInv
<1> QED
  BY <1>1, Invariant, PTL

\* The dispatcher switches off for cause and tells of it, whatever it races with.
THEOREM AlwaysSwitchedOffForCause == Spec => []SwitchedOffForCause
<1>1. IInv => SwitchedOffForCause
  BY DEF IInv
<1> QED
  BY <1>1, Invariant, PTL
=============================================================================
