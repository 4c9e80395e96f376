------------------------- MODULE MessageFeed_proofs -------------------------
(***************************************************************************)
(* Proofs about MessageFeed for any number of messages, devices, upload    *)
(* requests and clears, any batches, and any sizes of a page and a queue.  *)
(* Everything rests on one fact: created_at is never given out twice, so a *)
(* row has one transaction that inserts it and one request that announces  *)
(* it.                                                                     *)
(***************************************************************************)
EXTENDS MessageFeed, FiniteSetTheorems, SequenceTheorems, TLAPS

Frames == {"message.new", "other"}
Distinct(s) == \A i, j \in 1..Len(s) : s[i] = s[j] => i = j
Gone(m) == \E row \in wiped : row[1] = m

\* A row is inserted by one transaction, and is told of once, from its commit on.
FreshInv ==
    \A r \in Requests :
        /\ Distinct(fresh[r])
        /\ pc[r] \in {"new", "answered", "failed"} => fresh[r] = <<>>
        /\ \A row \in ToSet(fresh[r]) :
            /\ row[2] <= clock
            /\ Open(r) => row = Row(row[1]) /\ row[1] \notin stored
            /\ pc[r] = "announce" => Present(row) \/ row \in wiped
            /\ \A s \in Requests : row \in ToSet(fresh[s]) => s = r
            /\ \A f \in told : f[2] # row

\* So is every row that has been told of.
ToldInv == AnnouncedOnce /\ \A f \in told : f[2][2] <= clock

\* A message of a batch is still to come, inserted, stored, or deleted.
BatchInv ==
    \A r \in Requests :
        /\ pc[r] # "failed" => \A m \in ToSet(Batch[r]) :
            m \in ToSet(left[r]) \/ HeldBy(r, m) \/ m \in stored \/ Gone(m)
        /\ pc[r] \in {"announce", "answered"} => left[r] = <<>>
        /\ pc[r] = "lookup" => left[r] # <<>>

\* No time is ahead of the clock, and the cursor has passed no open transaction unseen.
CursorInv ==
    /\ cursor <= clock /\ \A m \in Messages : stamp[m] <= clock
    /\ \A r \in Requests : Open(r) => \A row \in ToSet(fresh[r]) : row[2] <= cursor => row \in overtaken
    /\ SkippedOnlyIfOvertaken

IInv == TypeOK /\ FreshInv /\ ToldInv /\ BatchInv /\ CursorInv /\ NoLostWakeUp

-----------------------------------------------------------------------------
(* Sequences. *)

\* What the operations on sequences do to their elements.
LEMMA Elements ==
    ASSUME NEW S, NEW s \in Seq(S)
    PROVE  /\ ToSet(<<>>) = {} /\ ToSet(s) \subseteq S
           /\ ToSet(s) = {s[i] : i \in 1..Len(s)}
           /\ \A e \in S : Append(s, e) \in Seq(S) /\ ToSet(Append(s, e)) = ToSet(s) \cup {e}
           /\ s # <<>> => /\ Head(s) \in S /\ Tail(s) \in Seq(S)
                          /\ ToSet(s) = {Head(s)} \cup ToSet(Tail(s))
<1>1. ToSet(<<>>) = {} /\ ToSet(s) \subseteq S /\ ToSet(s) = {s[i] : i \in 1..Len(s)}
  BY DEF ToSet
<1>2. ASSUME NEW e \in S
      PROVE  Append(s, e) \in Seq(S) /\ ToSet(Append(s, e)) = ToSet(s) \cup {e}
  <2>1. /\ Append(s, e) \in Seq(S) /\ Len(Append(s, e)) = Len(s) + 1 /\ Len(s) \in Nat
        /\ \A i \in 1..Len(s) : Append(s, e)[i] = s[i]
        /\ Append(s, e)[Len(s) + 1] = e
        /\ DOMAIN Append(s, e) = 1..(Len(s) + 1) /\ DOMAIN s = 1..Len(s)
    BY AppendProperties, LenProperties
  <2> QED
    BY <2>1 DEF ToSet
<1>3. ASSUME s # <<>>
      PROVE  /\ Head(s) \in S /\ Tail(s) \in Seq(S)
             /\ ToSet(s) = {Head(s)} \cup ToSet(Tail(s))
  <2>1. /\ Head(s) \in S /\ Tail(s) \in Seq(S) /\ Len(s) \in Nat /\ Len(s) >= 1
        /\ Len(Tail(s)) = Len(s) - 1 /\ Head(s) = s[1]
        /\ \A i \in 1..(Len(s) - 1) : Tail(s)[i] = s[i + 1]
        /\ DOMAIN Tail(s) = 1..(Len(s) - 1) /\ DOMAIN s = 1..Len(s)
    BY <1>3, HeadTailProperties, LenProperties
  <2>2. \A i \in 1..Len(s) : s[i] = Head(s) \/ s[i] \in ToSet(Tail(s))
    <3>1. \A i \in 2..Len(s) : i - 1 \in 1..(Len(s) - 1) /\ Tail(s)[i - 1] = s[i]
      BY <2>1
    <3>2. \A i \in 1..(Len(s) - 1) : Tail(s)[i] \in ToSet(Tail(s))
      BY <2>1 DEF ToSet
    <3>3. \A i \in 1..Len(s) : i = 1 \/ i \in 2..Len(s)
      BY <2>1
    <3> QED
      BY <2>1, <3>1, <3>2, <3>3
  <2>3. \A i \in 1..(Len(s) - 1) : Tail(s)[i] \in ToSet(s)
    BY <2>1 DEF ToSet
  <2>4. Head(s) \in ToSet(s)
    BY <2>1 DEF ToSet
  <2> QED
    BY <2>1, <2>2, <2>3, <2>4 DEF ToSet
<1> QED
  BY <1>1, <1>2, <1>3

\* Appending what is new, and taking the head off, leave a sequence without repetitions.
LEMMA DistinctKept ==
    ASSUME NEW S, NEW s \in Seq(S), Distinct(s)
    PROVE  /\ Distinct(<<>>)
           /\ \A e \in S : e \notin ToSet(s) => Distinct(Append(s, e))
           /\ s # <<>> => Distinct(Tail(s)) /\ Head(s) \notin ToSet(Tail(s))
<1>1. ASSUME NEW e \in S, e \notin ToSet(s) PROVE Distinct(Append(s, e))
  <2>1. /\ Len(Append(s, e)) = Len(s) + 1 /\ Len(s) \in Nat
        /\ \A i \in 1..Len(s) : Append(s, e)[i] = s[i] /\ s[i] # e
        /\ Append(s, e)[Len(s) + 1] = e
    BY <1>1, AppendProperties, LenProperties, Elements
  <2> QED
    BY <2>1 DEF Distinct
<1>2. ASSUME s # <<>> PROVE Distinct(Tail(s)) /\ Head(s) \notin ToSet(Tail(s))
  <2>1. /\ Len(s) \in Nat /\ Len(s) >= 1 /\ Head(s) = s[1]
        /\ Len(Tail(s)) = Len(s) - 1 /\ Tail(s) \in Seq(S)
        /\ \A i \in 1..(Len(s) - 1) : Tail(s)[i] = s[i + 1]
    BY <1>2, HeadTailProperties, LenProperties
  <2>2. Distinct(Tail(s))
    BY <2>1 DEF Distinct
  <2>3. DOMAIN Tail(s) = 1..(Len(s) - 1)
    BY <2>1, LenProperties
  <2>4. \A i \in 1..(Len(s) - 1) : i + 1 \in 1..Len(s) /\ i + 1 # 1
    BY <2>1
  <2> QED
    BY <2>1, <2>2, <2>3, <2>4 DEF Distinct, ToSet
<1> QED
  BY <1>1, <1>2 DEF Distinct

USE FeedAssumption

\* The queue keeps what is in it, and takes the first frame unless it is full.
LEMMA PutKeeps ==
    ASSUME NEW q \in Seq(Frames), Len(q) <= QueueSize, NEW frames \in Seq(Frames)
    PROVE  /\ Put(q, frames) \in Seq(Frames) /\ Len(Put(q, frames)) <= QueueSize
           /\ \A i \in 1..Len(q) : i \in 1..Len(Put(q, frames)) /\ Put(q, frames)[i] = q[i]
           /\ Len(q) # QueueSize /\ frames # <<>> =>
                  \E i \in 1..Len(Put(q, frames)) : Put(q, frames)[i] = frames[1]
<1> DEFINE room == QueueSize - Len(q)
           some == IF Len(frames) <= room THEN frames ELSE SubSeq(frames, 1, room)
<1>1. room \in Nat /\ Len(frames) \in Nat /\ Len(q) \in Nat
  BY LenProperties
<1>2. /\ some \in Seq(Frames) /\ Len(some) \in Nat /\ Len(some) <= room
      /\ room > 0 /\ frames # <<>> => Len(some) >= 1 /\ some[1] = frames[1]
  <2>1. CASE Len(frames) <= room
    BY <1>1, <2>1, LenProperties, EmptySeq
  <2>2. CASE ~ Len(frames) <= room
    <3>1. \A i \in 1..room : frames[i] \in Frames
      BY <1>1, <2>2, ElementOfSeq
    <3>2. /\ SubSeq(frames, 1, room) \in Seq(Frames)
          /\ Len(SubSeq(frames, 1, room)) = room
          /\ \A i \in 1..room : SubSeq(frames, 1, room)[i] = frames[i]
      BY <1>1, <3>1, SubSeqProperties
    <3> QED
      BY <1>1, <2>2, <3>2
  <2> QED
    BY <2>1, <2>2
<1>3. Put(q, frames) = q \o some
  BY DEF Put
<1> HIDE DEF some
<1>4. /\ q \o some \in Seq(Frames) /\ Len(q \o some) = Len(q) + Len(some)
      /\ \A i \in 1..(Len(q) + Len(some)) :
             (q \o some)[i] = IF i <= Len(q) THEN q[i] ELSE some[i - Len(q)]
  BY <1>2, ConcatProperties
<1>5. ASSUME Len(q) # QueueSize, frames # <<>>
      PROVE  Len(q) + 1 \in 1..Len(q \o some) /\ (q \o some)[Len(q) + 1] = frames[1]
  BY <1>1, <1>2, <1>4, <1>5
<1> QED
  BY <1>1, <1>2, <1>3, <1>4, <1>5

\* A step that publishes keeps the type of the queue and the frames in it.
LEMMA PublishKeeps ==
    ASSUME TypeOK, NEW frames \in Seq(Frames), Publish(frames)
    PROVE  /\ queue' \in Seq(Frames) /\ Len(queue') <= QueueSize
           /\ poll # "idle" =>
                  \A i \in 1..Len(queue) : i \in 1..Len(queue') /\ queue'[i] = queue[i]
           /\ poll # "idle" /\ ~ Overflows /\ frames # <<>> =>
                  \E i \in 1..Len(queue') : queue'[i] = frames[1]
<1>1. CASE poll = "idle"
  <2>1. queue' = <<>> /\ Len(<<>>) = 0 /\ <<>> \in Seq(Frames)
    BY <1>1 DEF Publish
  <2> QED
    BY <1>1, <2>1
<1>2. CASE poll # "idle"
  <2>1. queue \in Seq(Frames) /\ Len(queue) <= QueueSize
    BY DEF TypeOK, Frames
  <2>2. queue' = Put(queue, frames)
    BY <1>2 DEF Publish
  <2>3. /\ queue' \in Seq(Frames) /\ Len(queue') <= QueueSize
        /\ \A i \in 1..Len(queue) : i \in 1..Len(queue') /\ queue'[i] = queue[i]
        /\ Len(queue) # QueueSize /\ frames # <<>> =>
               \E i \in 1..Len(queue') : queue'[i] = frames[1]
    <3> DEFINE next == Put(queue, frames)
    <3>1. /\ next \in Seq(Frames) /\ Len(next) <= QueueSize
          /\ \A i \in 1..Len(queue) : i \in 1..Len(next) /\ next[i] = queue[i]
          /\ Len(queue) # QueueSize /\ frames # <<>> =>
                 \E i \in 1..Len(next) : next[i] = frames[1]
      BY <2>1, PutKeeps
    <3>2. queue' = next
      BY <2>2
    <3> HIDE DEF next
    <3> QED
      BY <3>1, <3>2
  <2> QED
    BY <1>2, <2>3 DEF Overflows
<1> QED
  BY <1>1, <1>2

-----------------------------------------------------------------------------
(* The rows a call answers with. *)

Less(f, T, m) == {n \in T : f[n] < f[m]}

\* Numbers of finitely many messages have a least one.
LEMMA LeastExists ==
    ASSUME NEW f \in [Messages -> Int], NEW T \in SUBSET Messages, T # {}
    PROVE  \E m \in T : \A n \in T : f[m] <= f[n]
<1> DEFINE below(m) == Less(f, T, m)
           sets == {Less(f, T, m) : m \in T}
<1>1. sets \subseteq FiniteSubsetsOf(Messages) /\ sets # {}
  <2>1. \A m \in T : below(m) \in SUBSET Messages /\ IsFiniteSet(below(m))
    BY FS_Subset DEF Less
  <2> QED
    BY <2>1 DEF FiniteSubsetsOf
<1> HIDE DEF sets
<1>2. PICK p \in sets : \A q \in sets : ~ <<q, p>> \in StrictSubsetOrdering(Messages)
  BY <1>1, FS_StrictSubsetOrderingWellFounded, WFMin
<1>3. PICK m \in T : p = below(m)
  BY DEF sets
<1>4. ASSUME NEW n \in T, ~ f[m] <= f[n] PROVE FALSE
  <2>1. f[n] < f[m] /\ f[n] \in Int /\ f[m] \in Int
    BY <1>4
  <2>2. below(n) \subseteq p /\ n \in p /\ n \notin below(n)
    BY <1>3, <2>1 DEF Less
  <2>3. <<below(n), p>> \in StrictSubsetOrdering(Messages)
    BY <1>3, <2>2 DEF StrictSubsetOrdering, Less
  <2>4. below(n) \in sets
    BY DEF sets
  <2> QED
    BY <1>2, <2>3, <2>4
<1> QED
  BY <1>4

\* And a greatest one.
LEMMA GreatestExists ==
    ASSUME NEW f \in [Messages -> Int], NEW T \in SUBSET Messages, T # {}
    PROVE  \E m \in T : \A n \in T : f[n] <= f[m]
<1> DEFINE g == [m \in Messages |-> - f[m]]
<1>1. g \in [Messages -> Int]
  OBVIOUS
<1>2. PICK m \in T : \A n \in T : g[m] <= g[n]
  BY <1>1, LeastExists
<1>3. \A n \in T : f[n] \in Int /\ g[n] = - f[n]
  OBVIOUS
<1> HIDE DEF g
<1>4. \A n \in T : - f[m] <= - f[n]
  BY <1>2, <1>3
<1> QED
  BY <1>3, <1>4

\* A page is what comes first after the cursor: nothing new is older than a row of it
\* without being in it, and it is empty only if there is nothing new.
LEMMA PageIsOldest ==
    ASSUME TypeOK
    PROVE  /\ Page \subseteq NewRows /\ NewRows \subseteq Messages
           /\ NewRows # {} => Page # {}
           /\ \A p \in Page, m \in NewRows : stamp[m] <= stamp[p] => m \in Page
<1> DEFINE older(m) == Less(stamp, NewRows, m)
<1>1. Page \subseteq NewRows /\ NewRows \subseteq Messages
  BY DEF Page, NewRows, TypeOK
<1>2. stamp \in [Messages -> Nat] /\ stamp \in [Messages -> Int]
  BY DEF TypeOK
<1>3. \A m \in NewRows : IsFiniteSet(older(m)) /\ Cardinality(older(m)) \in Nat
  BY <1>1, FS_Subset, FS_CardinalityType DEF Less
<1>4. ASSUME NewRows # {} PROVE Page # {}
  <2>1. PICK m \in NewRows : \A n \in NewRows : stamp[m] <= stamp[n]
    BY <1>1, <1>2, <1>4, LeastExists
  <2>2. older(m) = {}
    BY <1>1, <1>2, <2>1 DEF Less
  <2>3. Cardinality(older(m)) < Limit
    BY <2>2, FS_EmptySet
  <2> QED
    BY <2>3 DEF Page, Less
<1>5. ASSUME NEW p \in Page, NEW m \in NewRows, stamp[m] <= stamp[p] PROVE m \in Page
  <2>1. older(m) \subseteq older(p)
    BY <1>1, <1>2, <1>5 DEF Less
  <2>2. Cardinality(older(m)) <= Cardinality(older(p))
    BY <1>1, <1>3, <2>1, FS_Subset
  <2>3. Cardinality(older(p)) < Limit
    BY DEF Page, Less
  <2>4. Cardinality(older(m)) < Limit
    BY <1>1, <1>3, <2>2, <2>3
  <2> QED
    BY <2>4 DEF Page, Less
<1> QED
  BY <1>1, <1>4, <1>5

\* The cursor an answer leaves is the newest created_at of its rows.
LEMMA CursorOfPage ==
    ASSUME TypeOK, Page # {},
           cursor' = CHOOSE t \in {stamp[m] : m \in Page} : \A m \in Page : stamp[m] <= t
    PROVE  \E p \in Page : cursor' = stamp[p] /\ \A m \in Page : stamp[m] <= stamp[p]
<1>1. PICK p \in Page : \A m \in Page : stamp[m] <= stamp[p]
  <2>1. stamp \in [Messages -> Int] /\ Page \in SUBSET Messages
    BY PageIsOldest DEF TypeOK
  <2> QED
    BY <2>1, GreatestExists
<1>2. \E t \in {stamp[m] : m \in Page} : \A m \in Page : stamp[m] <= t
  BY <1>1
<1> QED
  BY <1>2

-----------------------------------------------------------------------------
(* The invariant, at the start and after every step. *)

\* What TypeOK says of one request.
LEMMA OfRequest ==
    ASSUME TypeOK, NEW r \in Requests
    PROVE  /\ pc[r] \in Stages /\ left[r] \in Seq(Messages) /\ fresh[r] \in Seq(Rows)
           /\ ToSet(fresh[r]) \subseteq Rows /\ ToSet(left[r]) \subseteq Messages
           /\ fresh[r] = <<>> => ToSet(fresh[r]) = {}
           /\ ToSet(Batch[r]) \subseteq Messages
  BY Elements DEF TypeOK

\* It holds at the start.
LEMMA InitInv == Init => IInv
<1> SUFFICES ASSUME Init PROVE IInv
  OBVIOUS
<1>1. \A r \in Requests : ToSet(fresh[r]) = {} /\ ~ Open(r) /\ left[r] = Batch[r]
  BY Elements DEF Init, Open, ToSet
<1>2. TypeOK
  <2>1. Devices # {} => (CHOOSE d \in Devices : TRUE) \in Devices
    OBVIOUS
  <2> QED
    BY <2>1 DEF Init, TypeOK, Stages, Rows
<1>3. FreshInv
  BY <1>1 DEF Init, FreshInv, Distinct
<1>4. ToldInv /\ NoLostWakeUp
  BY DEF Init, ToldInv, AnnouncedOnce, NoLostWakeUp
<1>5. BatchInv
  BY <1>1 DEF Init, BatchInv
<1>6. CursorInv
  BY <1>1 DEF Init, CursorInv, SkippedOnlyIfOvertaken
<1> QED
  BY <1>2, <1>3, <1>4, <1>5, <1>6 DEF IInv

\* An INSERT that finds the row there.
LEMMA DuplicateStep ==
    ASSUME IInv, NEW r \in Requests, Insert(r), Head(left[r]) \in stored \/ HeldBy(r, Head(left[r]))
    PROVE  IInv'
<1>1. /\ pc[r] \in {"new", "insert"} /\ left[r] # <<>>
      /\ pc' = [pc EXCEPT ![r] = "lookup"]
      /\ UNCHANGED <<table, admin, left, fresh, told, client, queue, unheard>>
  BY DEF Insert, Goto
<1> USE DEF table, admin, client
<1>2. TypeOK /\ TypeOK'
  BY <1>1 DEF IInv, TypeOK, Stages
<1>3. \A s \in Requests : s # r => pc'[s] = pc[s]
  BY <1>1, <1>2 DEF TypeOK
<1>4. pc'[r] = "lookup"
  BY <1>1, <1>2 DEF TypeOK
<1>5. pc[r] = "new" => ToSet(fresh[r]) = {}
  BY <1>2, OfRequest DEF IInv, FreshInv
<1>6. /\ \A s \in Requests : Open(s)' <=> Open(s) \/ s = r
      /\ Open(r) \/ ToSet(fresh[r]) = {}
      /\ \A s \in Requests : \A m : HeldBy(s, m)' <=> HeldBy(s, m)
  BY <1>1, <1>3, <1>4, <1>5 DEF Open, HeldBy
<1>7. FreshInv'
  <2>1. \A q : Present(q)' <=> Present(q)
    BY <1>1 DEF Present
  <2>2. \A n : Row(n)' = Row(n)
    BY <1>1 DEF Row
  <2>3. \A s \in Requests : s = r \/ (pc'[s] = pc[s] /\ (Open(s)' <=> Open(s)))
    BY <1>3, <1>6
  <2>4. r \in Requests /\ (ToSet(fresh[r]) = {} \/ Open(r)) /\ pc'[r] = "lookup"
    BY <1>4, <1>6
  <2>5. \A s \in Requests : \A row \in ToSet(fresh[s]) :
            /\ Open(s)' => row = Row(row[1]) /\ row[1] \notin stored
            /\ pc'[s] = "announce" => Present(row) \/ row \in wiped
    BY <2>3, <2>4 DEF IInv, FreshInv
  <2>6. \A s \in Requests : pc'[s] \in {"new", "answered", "failed"} => fresh[s] = <<>>
    BY <2>3, <2>4 DEF IInv, FreshInv
  <2> QED
    BY <1>1, <2>1, <2>2, <2>5, <2>6 DEF IInv, FreshInv
<1>8. ToldInv'
  BY <1>1 DEF IInv, ToldInv, AnnouncedOnce, Present
<1>9. BatchInv'
  BY <1>1, <1>3, <1>4, <1>6 DEF IInv, BatchInv, Gone
<1>10. CursorInv'
  BY <1>1, <1>6 DEF IInv, CursorInv, SkippedOnlyIfOvertaken, Row
<1>11. NoLostWakeUp'
  BY <1>1, <1>3, <1>4 DEF IInv, NoLostWakeUp, NewRows, Row
<1> QED
  BY <1>2, <1>7, <1>8, <1>9, <1>10, <1>11 DEF IInv

LEMMA ExceptType ==
    ASSUME NEW S, NEW T, NEW f \in [S -> T], NEW x, NEW e \in T
    PROVE  [f EXCEPT ![x] = e] \in [S -> T]
OBVIOUS

\* An INSERT that inserts.
LEMMA InsertStep ==
    ASSUME IInv, NEW r \in Requests, Insert(r), NEW m, m = Head(left[r]),
           ~ (m \in stored \/ HeldBy(r, m)), NEW row, row = <<m, clock + 1>>
    PROVE  IInv'
<1>1. /\ pc[r] \in {"new", "insert"} /\ left[r] # <<>>
      /\ m \notin stored /\ \A s \in Requests : ~ HeldBy(s, m)
      /\ clock' = clock + 1
      /\ stamp' = [stamp EXCEPT ![m] = clock + 1]
      /\ owner' = [owner EXCEPT ![m] = From[r]]
      /\ fresh' = [fresh EXCEPT ![r] = Append(@, row)]
      /\ left' = [left EXCEPT ![r] = Tail(@)]
      /\ pc' = [pc EXCEPT ![r] = "insert"]
      /\ UNCHANGED <<stored, admin, told, client, queue, unheard>>
  BY DEF Insert, Goto
<1> USE DEF admin, client
<1>2. /\ m \in Messages /\ row \in Rows /\ clock \in Nat
      /\ Tail(left[r]) \in Seq(Messages) /\ ToSet(left[r]) = {m} \cup ToSet(Tail(left[r]))
      /\ Append(fresh[r], row) \in Seq(Rows)
      /\ ToSet(Append(fresh[r], row)) = ToSet(fresh[r]) \cup {row}
      /\ fresh[r] \in Seq(Rows)
  <2>1. clock \in Nat /\ left[r] \in Seq(Messages) /\ fresh[r] \in Seq(Rows)
    BY OfRequest DEF IInv, TypeOK
  <2>2. m \in Messages /\ Tail(left[r]) \in Seq(Messages)
        /\ ToSet(left[r]) = {m} \cup ToSet(Tail(left[r]))
    BY <1>1, <2>1, Elements
  <2>3. row \in Rows
    BY <2>1, <2>2 DEF Rows
  <2>4. /\ Append(fresh[r], row) \in Seq(Rows)
        /\ ToSet(Append(fresh[r], row)) = ToSet(fresh[r]) \cup {row}
    <3>1. \A e \in Rows : /\ Append(fresh[r], e) \in Seq(Rows)
                         /\ ToSet(Append(fresh[r], e)) = ToSet(fresh[r]) \cup {e}
      BY <2>1, Elements
    <3> QED
      BY <2>3, <3>1
  <2> QED
    BY <2>1, <2>2, <2>3, <2>4
<1>3. row = <<m, clock + 1>> /\ row[1] = m /\ row[2] = clock + 1
  OBVIOUS
<1>4. TypeOK /\ TypeOK'
  <2>0. TypeOK
    BY DEF IInv
  <2>1. clock' \in Nat /\ stamp' \in [Messages -> Nat] /\ owner' \in [Messages -> Devices]
    <3>1. /\ clock \in Nat /\ stamp \in [Messages -> Nat]
          /\ owner \in [Messages -> Devices] /\ From[r] \in Devices
      BY <2>0, FeedAssumption DEF TypeOK
    <3>2. clock' = clock + 1 /\ stamp' = [stamp EXCEPT ![m] = clock + 1]
          /\ owner' = [owner EXCEPT ![m] = From[r]]
      BY <1>1
    <3>3. clock + 1 \in Nat
      BY <3>1
    <3>4. [stamp EXCEPT ![m] = clock + 1] \in [Messages -> Nat]
      BY <3>1, <3>3, ExceptType
    <3>5. [owner EXCEPT ![m] = From[r]] \in [Messages -> Devices]
      BY <3>1, ExceptType
    <3> QED
      BY <3>2, <3>3, <3>4, <3>5
  <2>2. /\ pc' \in [Requests -> Stages] /\ left' \in [Requests -> Seq(Messages)]
        /\ fresh' \in [Requests -> Seq(Rows)]
    BY <1>1, <1>2, <2>0 DEF TypeOK, Stages
  <2> QED
    BY <1>1, <2>0, <2>1, <2>2 DEF TypeOK
<1>5. /\ pc'[r] = "insert" /\ left'[r] = Tail(left[r]) /\ fresh'[r] = Append(fresh[r], row)
      /\ ToSet(fresh'[r]) = ToSet(fresh[r]) \cup {row}
      /\ \A s \in Requests : s # r =>
             pc'[s] = pc[s] /\ left'[s] = left[s] /\ fresh'[s] = fresh[s]
  BY <1>1, <1>2, <1>4 DEF TypeOK
<1>16. \A s \in Requests : \A q :
           q \in ToSet(fresh'[s]) <=> q \in ToSet(fresh[s]) \/ (s = r /\ q = row)
  BY <1>5
<1>6. /\ \A n \in Messages : n # m => stamp'[n] = stamp[n]
      /\ stamp'[m] = clock + 1 /\ \A n \in Messages : stamp[n] \in Nat /\ stamp[n] <= clock
  BY <1>1, <1>2, <1>4 DEF IInv, TypeOK, CursorInv
<1>7. pc[r] = "new" => ToSet(fresh[r]) = {}
  BY <1>4, OfRequest DEF IInv, FreshInv
<1>8. /\ \A s \in Requests : Open(s)' <=> Open(s) \/ s = r
      /\ Open(r) \/ ToSet(fresh[r]) = {}
      /\ \A s \in Requests : \A n : HeldBy(s, n) => HeldBy(s, n)'
      /\ HeldBy(r, m)'
  <2>1. \A s \in Requests : Open(s)' <=> Open(s) \/ s = r
    BY <1>1, <1>5 DEF Open
  <2>2. Open(r) \/ ToSet(fresh[r]) = {}
    BY <1>1, <1>7 DEF Open
  <2> QED
    BY <1>3, <1>16, <2>1, <2>2 DEF HeldBy
<1>9. \A s \in Requests : \A q \in ToSet(fresh[s]) :
          /\ q \in Rows /\ q[1] \in Messages /\ q[2] \in Nat /\ q[2] <= clock /\ q # row
          /\ Open(s) => q[1] # m
          /\ Present(q) => Present(q)'
  <2>1. \A s \in Requests : \A q \in ToSet(fresh[s]) : q \in Rows /\ q[2] <= clock
    BY <1>4, OfRequest DEF IInv, FreshInv
  <2>2. \A s \in Requests : \A q \in ToSet(fresh[s]) : Open(s) => q[1] # m
    BY <1>1 DEF HeldBy
  <2>3. \A q \in Rows : q[1] \in Messages /\ q[2] \in Nat
    BY DEF Rows
  <2>4. \A q \in Rows : q[2] <= clock => q # row
    BY <1>2, <1>3, <2>3
  <2>5. \A q \in Rows : Present(q) => Present(q)'
    BY <1>1, <1>6, <2>3 DEF Present
  <2> QED
    BY <2>1, <2>2, <2>3, <2>4, <2>5
<1>10. \A f \in told : /\ f[2] \in Rows /\ f[2][2] \in Nat /\ f[2][2] <= clock /\ f[2] # row
                       /\ Present(f[2]) => Present(f[2])'
  <2>1. \A f \in told : f[2] \in Rows /\ f[2][2] <= clock
    BY DEF IInv, TypeOK, ToldInv
  <2>2. \A q \in Rows : q[1] \in Messages /\ q[2] \in Nat
    BY DEF Rows
  <2>3. \A q \in Rows : Present(q) => Present(q)'
    BY <1>1, <1>6, <2>2 DEF Present
  <2> QED
    BY <1>2, <1>3, <2>1, <2>2, <2>3
<1>11. FreshInv'
  <2>1. Distinct(fresh'[r])
    BY <1>2, <1>5, <1>9, DistinctKept DEF IInv, FreshInv
  <2>2. \A s \in Requests : Distinct(fresh'[s]) /\ (pc'[s] \in {"new", "answered", "failed"} => fresh'[s] = <<>>)
    BY <1>5, <2>1 DEF IInv, FreshInv
  <2>3. \A s \in Requests : \A q \in ToSet(fresh'[s]) : q[2] <= clock'
    <3>1. \A s \in Requests : \A q \in ToSet(fresh[s]) : q[2] <= clock + 1
      BY <1>2, <1>9
    <3>2. row[2] <= clock + 1
      BY <1>2, <1>3
    <3> QED
      BY <1>1, <1>16, <3>1, <3>2
  <2>4. \A s \in Requests : \A q \in ToSet(fresh'[s]) :
            Open(s)' => q = Row(q[1])' /\ q[1] \notin stored'
    <3>1. row = Row(m)' /\ m \notin stored'
      BY <1>1, <1>2, <1>3, <1>6 DEF Row
    <3>2. \A s \in Requests : \A q \in ToSet(fresh[s]) :
              Open(s) => q = Row(q[1]) /\ Row(q[1]) = Row(q[1])' /\ q[1] \notin stored'
      BY <1>1, <1>6, <1>9 DEF IInv, FreshInv, Row
    <3> QED
      BY <1>3, <1>8, <1>16, <3>1, <3>2
  <2>5. \A s \in Requests : \A q \in ToSet(fresh'[s]) :
            pc'[s] = "announce" => Present(q)' \/ q \in wiped'
    BY <1>1, <1>5, <1>9 DEF IInv, FreshInv
  <2>6. \A s \in Requests : \A q \in ToSet(fresh'[s]) :
            \A t \in Requests : q \in ToSet(fresh'[t]) => t = s
    <3>1. \A s, t \in Requests : \A q : q \in ToSet(fresh[s]) /\ q \in ToSet(fresh[t]) => t = s
      BY DEF IInv, FreshInv
    <3> QED
      BY <1>9, <1>16, <3>1
  <2>7. \A s \in Requests : \A q \in ToSet(fresh'[s]) : \A f \in told' : f[2] # q
    <3>1. \A s \in Requests : \A q \in ToSet(fresh[s]) : \A f \in told : f[2] # q
      BY DEF IInv, FreshInv
    <3> QED
      BY <1>1, <1>10, <1>16, <3>1
  <2> QED
    BY <2>2, <2>3, <2>4, <2>5, <2>6, <2>7 DEF FreshInv
<1>12. ToldInv'
  <2>1. \A f \in told' : f[2][2] <= clock'
    BY <1>1, <1>2, <1>10
  <2>2. AnnouncedOnce'
    BY <1>1, <1>10 DEF IInv, ToldInv, AnnouncedOnce
  <2> QED
    BY <2>1, <2>2 DEF ToldInv
<1>13. BatchInv'
  <2>1. \A n : Gone(n)' <=> Gone(n)
    BY <1>1 DEF Gone
  <2>2. \A s \in Requests : s # r => pc'[s] = pc[s] /\ left'[s] = left[s]
    BY <1>5
  <2>3. \A n \in ToSet(left[r]) : n \in ToSet(left'[r]) \/ HeldBy(r, n)'
    BY <1>2, <1>5, <1>8
  <2>4. pc[r] # "failed" /\ pc'[r] = "insert"
    BY <1>1, <1>5
  <2> QED
    BY <1>1, <1>8, <2>1, <2>2, <2>3, <2>4 DEF IInv, BatchInv
<1>14. CursorInv'
  <2>1. cursor \in Nat /\ cursor <= clock /\ cursor' = cursor
    BY <1>1, <1>4 DEF IInv, CursorInv, TypeOK
  <2>2. cursor' <= clock' /\ \A n \in Messages : stamp'[n] <= clock'
    BY <1>1, <1>2, <1>6, <2>1
  <2>3. \A s \in Requests : Open(s)' => \A q \in ToSet(fresh'[s]) : q[2] <= cursor' => q \in overtaken'
    <3>1. \A s \in Requests : \A q \in ToSet(fresh[s]) : Open(s) /\ q[2] <= cursor => q \in overtaken
      BY DEF IInv, CursorInv
    <3>2. ~ row[2] <= cursor
      BY <1>2, <1>3, <2>1
    <3> QED
      BY <1>1, <1>8, <1>16, <2>1, <3>1, <3>2
  <2>4. SkippedOnlyIfOvertaken'
    BY <1>1, <1>4, <1>6, <2>1 DEF IInv, CursorInv, SkippedOnlyIfOvertaken, Row, TypeOK
  <2> QED
    BY <2>2, <2>3, <2>4 DEF CursorInv
<1>15. NoLostWakeUp'
  <2>1. \A n \in NewRows' : n \in NewRows /\ Row(n)' = Row(n)
    BY <1>1, <1>4, <1>6 DEF NewRows, Row, TypeOK
  <2>2. \A s \in Requests : pc[s] = "announce" => pc'[s] = "announce"
    BY <1>1, <1>5
  <2>3. \A s \in Requests : ToSet(fresh[s]) \subseteq ToSet(fresh'[s])
    BY <1>16
  <2> QED
    BY <1>1, <2>1, <2>2, <2>3 DEF IInv, NoLostWakeUp
<1> QED
  BY <1>4, <1>11, <1>12, <1>13, <1>14, <1>15 DEF IInv

\* A request that lets go of the rows it holds, told of or not, and of its batch:
\* nobody else's rows, and nothing committed, are touched.
LEMMA DropKeepsFresh ==
    ASSUME IInv, NEW r \in Requests,
           UNCHANGED <<clock, stamp, stored, told, wiped>>,
           fresh' = [fresh EXCEPT ![r] = <<>>],
           NEW stage \in {"answered", "failed"}, pc' = [pc EXCEPT ![r] = stage]
    PROVE  /\ FreshInv' /\ ToldInv'
           /\ pc'[r] = stage /\ fresh'[r] = <<>> /\ ToSet(<<>>) = {}
           /\ \A s \in Requests : s # r => pc'[s] = pc[s] /\ fresh'[s] = fresh[s]
           /\ \A s \in Requests : s # r =>
                  (Open(s)' <=> Open(s)) /\ \A m : HeldBy(s, m)' <=> HeldBy(s, m)
           /\ ~ Open(r)'
<1>1. /\ pc'[r] = stage /\ fresh'[r] = <<>> /\ ToSet(<<>>) = {} /\ Distinct(<<>>)
      /\ \A s \in Requests : s # r => pc'[s] = pc[s] /\ fresh'[s] = fresh[s]
  BY Elements DEF IInv, TypeOK, Distinct
<1>2. /\ \A s \in Requests : s # r =>
             (Open(s)' <=> Open(s)) /\ \A m : HeldBy(s, m)' <=> HeldBy(s, m)
      /\ ~ Open(r)'
  BY <1>1 DEF Open, HeldBy
<1>3. FreshInv'
  <2>1. \A q : Present(q)' <=> Present(q)
    BY DEF Present
  <2>2. \A m : Row(m)' = Row(m)
    BY DEF Row
  <2>3. \A s \in Requests : \A row \in ToSet(fresh'[s]) : s # r /\ row \in ToSet(fresh[s])
    BY <1>1
  <2>4. \A s \in Requests : /\ Distinct(fresh'[s])
                            /\ pc'[s] \in {"new", "answered", "failed"} => fresh'[s] = <<>>
    BY <1>1 DEF IInv, FreshInv
  <2>5. \A s \in Requests : \A row \in ToSet(fresh'[s]) :
            /\ row[2] <= clock'
            /\ Open(s)' => row = Row(row[1])' /\ row[1] \notin stored'
            /\ pc'[s] = "announce" => Present(row)' \/ row \in wiped'
            /\ \A f \in told' : f[2] # row
    BY <1>1, <1>2, <2>1, <2>2, <2>3 DEF IInv, FreshInv
  <2>6. \A s \in Requests : \A row \in ToSet(fresh'[s]) :
            \A t \in Requests : row \in ToSet(fresh'[t]) => t = s
    BY <2>3 DEF IInv, FreshInv
  <2> QED
    BY <2>4, <2>5, <2>6 DEF FreshInv
<1>4. ToldInv'
  BY DEF IInv, ToldInv, AnnouncedOnce, Present
<1> QED
  BY <1>1, <1>2, <1>3, <1>4

\* The process dies, or the transaction is aborted.
LEMMA FailStep == ASSUME IInv, NEW r \in Requests, Fail(r) PROVE IInv'
<1>1. /\ pc' = [pc EXCEPT ![r] = "failed"] /\ fresh' = [fresh EXCEPT ![r] = <<>>]
      /\ unheard' = IF pc[r] = "announce" THEN unheard \cup ToSet(fresh[r]) ELSE unheard
      /\ UNCHANGED <<clock, stamp, stored, owner, admin, left, told, client, queue>>
      /\ TypeOK
  BY DEF Fail, Goto, table, IInv
<1> USE DEF admin, client
<1>2. /\ FreshInv' /\ ToldInv'
      /\ pc'[r] = "failed" /\ fresh'[r] = <<>> /\ ToSet(<<>>) = {}
      /\ \A s \in Requests : s # r => pc'[s] = pc[s] /\ fresh'[s] = fresh[s]
      /\ \A s \in Requests : s # r =>
             (Open(s)' <=> Open(s)) /\ \A m : HeldBy(s, m)' <=> HeldBy(s, m)
      /\ ~ Open(r)'
  BY <1>1, DropKeepsFresh
<1>3. TypeOK'
  <2>1. unheard' \subseteq Rows
    BY <1>1, OfRequest DEF TypeOK
  <2>2. pc' \in [Requests -> Stages] /\ fresh' \in [Requests -> Seq(Rows)]
    BY <1>1 DEF TypeOK, Stages
  <2> QED
    BY <1>1, <2>1, <2>2 DEF TypeOK
<1>4. BatchInv'
  BY <1>1, <1>2 DEF IInv, BatchInv, Gone
<1>5. CursorInv'
  BY <1>1, <1>2 DEF IInv, CursorInv, SkippedOnlyIfOvertaken, Row
<1>6. NoLostWakeUp'
  BY <1>1, <1>2 DEF IInv, NoLostWakeUp, NewRows, Row
<1> QED
  BY <1>2, <1>3, <1>4, <1>5, <1>6 DEF IInv

\* The look-up after an INSERT that failed.
LEMMA LookupStep == ASSUME IInv, NEW r \in Requests, Lookup(r) PROVE IInv'
<1>1. /\ pc[r] = "lookup" /\ TypeOK /\ UNCHANGED <<table, admin, told, client, queue, unheard>>
      /\ left[r] \in Seq(Messages) /\ left[r] # <<>>
  BY OfRequest DEF Lookup, IInv, BatchInv
<1> USE DEF admin, client, table
<1>2. CASE ~ (Head(left[r]) \in stored \/ HeldBy(r, Head(left[r])))
  <2>1. Fail(r)
    BY <1>1, <1>2 DEF Lookup, Fail
  <2> QED
    BY <2>1, FailStep
<1>3. CASE Head(left[r]) \in stored \/ HeldBy(r, Head(left[r]))
  <2>1. /\ pc' = [pc EXCEPT ![r] = "insert"] /\ left' = [left EXCEPT ![r] = Tail(left[r])]
        /\ UNCHANGED fresh
    BY <1>3 DEF Lookup, Goto
  <2>2. Tail(left[r]) \in Seq(Messages) /\ ToSet(left[r]) = {Head(left[r])} \cup ToSet(Tail(left[r]))
    BY <1>1, Elements
  <2>3. TypeOK'
    BY <1>1, <2>1, <2>2 DEF TypeOK, Stages
  <2>4. /\ pc'[r] = "insert" /\ left'[r] = Tail(left[r])
        /\ \A s \in Requests : s # r => pc'[s] = pc[s] /\ left'[s] = left[s]
    BY <1>1, <2>1 DEF TypeOK
  <2>5. \A s \in Requests : (Open(s)' <=> Open(s)) /\ \A m : HeldBy(s, m)' <=> HeldBy(s, m)
    BY <1>1, <2>1, <2>4 DEF Open, HeldBy
  <2>6. FreshInv'
    <3>1. \A s \in Requests : pc'[s] = pc[s] \/ (s = r /\ pc'[s] = "insert")
      BY <2>4
    <3>2. \A s \in Requests : pc'[s] \in {"new", "answered", "failed"} => fresh[s] = <<>>
      BY <3>1 DEF IInv, FreshInv
    <3>3. \A s \in Requests : \A row \in ToSet(fresh[s]) :
              pc'[s] = "announce" => Present(row) \/ row \in wiped
      BY <3>1 DEF IInv, FreshInv
    <3> QED
      BY <1>1, <2>1, <2>5, <3>2, <3>3 DEF IInv, FreshInv, Present, Row
  <2>7. ToldInv'
    BY <1>1 DEF IInv, ToldInv, AnnouncedOnce, Present
  <2>8. BatchInv'
    <3>1. \A m \in ToSet(left[r]) : m \in ToSet(left'[r]) \/ HeldBy(r, m) \/ m \in stored
      BY <1>3, <2>2, <2>4
    <3> QED
      BY <1>1, <2>4, <2>5, <3>1 DEF IInv, BatchInv, Gone
  <2>9. CursorInv'
    BY <1>1, <2>1, <2>5 DEF IInv, CursorInv, SkippedOnlyIfOvertaken, Row
  <2>10. NoLostWakeUp'
    BY <1>1, <2>1, <2>4 DEF IInv, NoLostWakeUp, NewRows, Row
  <2> QED
    BY <2>3, <2>6, <2>7, <2>8, <2>9, <2>10 DEF IInv
<1> QED
  BY <1>2, <1>3

\* The transaction commits: what it inserted is there for everyone, and to be told of.
LEMMA CommitStep == ASSUME IInv, NEW r \in Requests, Commit(r) PROVE IInv'
<1>1. /\ pc[r] = "insert" /\ left[r] = <<>> /\ TypeOK
      /\ stored' = stored \cup {row[1] : row \in ToSet(fresh[r])}
      /\ pc' = [pc EXCEPT ![r] = "announce"]
      /\ UNCHANGED <<clock, stamp, owner, admin, left, fresh, told, client, queue, unheard>>
  BY DEF Commit, Goto, IInv
<1> USE DEF admin, client
<1>2. /\ pc'[r] = "announce" /\ Open(r) /\ ~ Open(r)'
      /\ \A s \in Requests : s # r => pc'[s] = pc[s] /\ (Open(s)' <=> Open(s))
      /\ \A s \in Requests : s # r => \A m : HeldBy(s, m)' <=> HeldBy(s, m)
      /\ \A m : ~ HeldBy(r, m)'
  BY <1>1 DEF TypeOK, Open, HeldBy
<1>3. \A row \in ToSet(fresh[r]) : row \in Rows /\ row = Row(row[1]) /\ row[1] \in Messages
  BY <1>1, <1>2, OfRequest DEF IInv, FreshInv, Rows
<1>4. TypeOK'
  <2>1. stored' \subseteq Messages
    BY <1>1, <1>3 DEF TypeOK
  <2>2. pc' \in [Requests -> Stages]
    BY <1>1 DEF TypeOK, Stages
  <2> QED
    BY <1>1, <2>1, <2>2 DEF TypeOK
<1>5. /\ \A q : Present(q) => Present(q)'
      /\ \A m : Row(m)' = Row(m)
      /\ \A row \in ToSet(fresh[r]) : row[1] \in stored' /\ Present(row)'
      /\ \A m \in stored' : m \in stored \/ Row(m) \in ToSet(fresh[r])
  <2>1. \A q : Present(q) => Present(q)'
    BY <1>1 DEF Present
  <2>2. \A m : Row(m)' = Row(m)
    BY <1>1 DEF Row
  <2>3. \A row \in ToSet(fresh[r]) : row[1] \in stored' /\ row[2] = stamp[row[1]]
    BY <1>1, <1>3 DEF Row
  <2>4. \A m \in stored' : m \in stored \/ \E row \in ToSet(fresh[r]) : m = row[1]
    BY <1>1
  <2> QED
    BY <1>1, <1>3, <2>1, <2>2, <2>3, <2>4 DEF Present
<1>6. FreshInv'
  <2>1. \A s \in Requests : \A row \in ToSet(fresh[s]) : Open(s)' =>
            row = Row(row[1])' /\ row[1] \notin stored'
    <3> SUFFICES ASSUME NEW s \in Requests, NEW row \in ToSet(fresh[s]), Open(s)'
                 PROVE  row = Row(row[1])' /\ row[1] \notin stored'
      OBVIOUS
    <3>1. s # r /\ Open(s) /\ row = Row(row[1]) /\ row[1] \notin stored
      BY <1>2 DEF IInv, FreshInv
    <3>2. row \notin ToSet(fresh[r])
      BY <3>1 DEF IInv, FreshInv
    <3> QED
      BY <1>5, <3>1, <3>2
  <2>2. \A s \in Requests : \A row \in ToSet(fresh[s]) :
            pc'[s] = "announce" => Present(row)' \/ row \in wiped
    BY <1>2, <1>5 DEF IInv, FreshInv
  <2>3. \A s \in Requests : pc'[s] \in {"new", "answered", "failed"} => fresh[s] = <<>>
    BY <1>2 DEF IInv, FreshInv
  <2> QED
    BY <1>1, <2>1, <2>2, <2>3 DEF IInv, FreshInv
<1>7. ToldInv'
  BY <1>1, <1>5 DEF IInv, ToldInv, AnnouncedOnce
<1>8. BatchInv'
  <2>1. \A m : HeldBy(r, m) => m \in stored'
    BY <1>5 DEF HeldBy
  <2>2. \A m : (Gone(m)' <=> Gone(m)) /\ (m \in stored => m \in stored')
    BY <1>1 DEF Gone
  <2> QED
    BY <1>1, <1>2, <2>1, <2>2 DEF IInv, BatchInv
<1>9. CursorInv'
  <2>1. SkippedOnlyIfOvertaken'
    BY <1>1, <1>2, <1>5 DEF IInv, CursorInv, SkippedOnlyIfOvertaken, Row
  <2> QED
    BY <1>1, <1>2, <2>1 DEF IInv, CursorInv
<1>10. NoLostWakeUp'
  <2>1. \A m \in NewRows' : m \in NewRows \/ Row(m) \in ToSet(fresh[r])
    BY <1>1, <1>5 DEF NewRows
  <2>2. \A s \in Requests : pc[s] = "announce" => pc'[s] = "announce"
    BY <1>2
  <2> QED
    BY <1>1, <1>2, <1>5, <2>1, <2>2 DEF IInv, NoLostWakeUp
<1> QED
  BY <1>4, <1>6, <1>7, <1>8, <1>9, <1>10 DEF IInv

\* A row is told of.
LEMMA AnnounceStep == ASSUME IInv, NEW r \in Requests, Announce(r) PROVE IInv'
<1>1. /\ pc[r] = "announce" /\ fresh[r] # <<>> /\ TypeOK
      /\ told' = told \cup {<<r, Head(fresh[r])>>}
      /\ unheard' = IF Overflows THEN unheard \cup {Head(fresh[r])} ELSE unheard
      /\ Publish(<<"message.new", "other">>)
      /\ fresh' = [fresh EXCEPT ![r] = Tail(fresh[r])]
      /\ UNCHANGED <<table, admin, pc, left, client>>
  BY DEF Announce, IInv
<1> USE DEF admin, client, table
<1>2. /\ Head(fresh[r]) \in Rows /\ Tail(fresh[r]) \in Seq(Rows)
      /\ ToSet(fresh[r]) = {Head(fresh[r])} \cup ToSet(Tail(fresh[r]))
      /\ Distinct(Tail(fresh[r])) /\ Head(fresh[r]) \notin ToSet(Tail(fresh[r]))
  <2>1. fresh[r] \in Seq(Rows) /\ Distinct(fresh[r])
    BY <1>1, OfRequest DEF IInv, FreshInv
  <2> QED
    BY <1>1, <2>1, Elements, DistinctKept
<1>3. PICK row \in Rows : row = Head(fresh[r])
  BY <1>2
<1>4. /\ fresh'[r] = Tail(fresh[r]) /\ Distinct(fresh'[r])
      /\ \A s \in Requests : s # r => fresh'[s] = fresh[s]
      /\ \A s \in Requests : \A q \in ToSet(fresh'[s]) : q \in ToSet(fresh[s]) /\ q # row
      /\ row \in ToSet(fresh[r])
      /\ \A s \in Requests : \A q \in ToSet(fresh[s]) : q # row => q \in ToSet(fresh'[s])
  <2>1. /\ fresh'[r] = Tail(fresh[r])
        /\ \A s \in Requests : s # r => fresh'[s] = fresh[s]
    BY <1>1 DEF TypeOK
  <2>2. row \in ToSet(fresh[r])
    BY <1>2, <1>3
  <2>3. \A s \in Requests : s # r => row \notin ToSet(fresh[s])
    BY <2>2 DEF IInv, FreshInv
  <2> QED
    BY <1>2, <1>3, <2>1, <2>2, <2>3
<1>5. /\ \A s \in Requests : Open(s)' <=> Open(s)
      /\ \A s \in Requests : Open(s) => s # r
  BY <1>1 DEF Open
<1>6. \A s \in Requests : \A m : HeldBy(s, m)' <=> HeldBy(s, m)
  BY <1>4, <1>5 DEF HeldBy
<1>7. /\ queue' \in Seq(Frames) /\ Len(queue') <= QueueSize
      /\ poll # "idle" => \A i \in 1..Len(queue) : i \in 1..Len(queue') /\ queue'[i] = queue[i]
      /\ poll # "idle" /\ ~ Overflows => \E i \in 1..Len(queue') : queue'[i] = "message.new"
  <2>1. <<"message.new", "other">> \in Seq(Frames) /\ <<"message.new", "other">> # <<>>
        /\ <<"message.new", "other">>[1] = "message.new"
    BY DEF Frames
  <2> QED
    BY <1>1, <2>1, PublishKeeps
<1>8. TypeOK'
  <2>1. told' \subseteq Requests \X Rows /\ unheard' \subseteq Rows
    BY <1>1, <1>3 DEF TypeOK
  <2>2. fresh' \in [Requests -> Seq(Rows)]
    BY <1>1, <1>2 DEF TypeOK
  <2>3. queue' \in Seq({"message.new", "other"}) /\ Len(queue') <= QueueSize
    BY <1>7 DEF Frames
  <2> QED
    BY <1>1, <2>1, <2>2, <2>3 DEF TypeOK
<1>9. \A f \in told' : f \in told \/ (f = <<r, row>> /\ f[2] = row)
  BY <1>1, <1>3
<1>10. /\ row[2] <= clock /\ (Present(row) \/ row \in wiped)
       /\ \A f \in told : f[2] # row
       /\ \A q : Present(q)' <=> Present(q)
       /\ \A m : Row(m)' = Row(m)
  BY <1>1, <1>4 DEF IInv, FreshInv, Present, Row
<1>11. FreshInv'
  <2>1. \A s \in Requests : /\ Distinct(fresh'[s])
                            /\ pc'[s] \in {"new", "answered", "failed"} => fresh'[s] = <<>>
    BY <1>1, <1>4 DEF IInv, FreshInv
  <2>2. \A s \in Requests : \A q \in ToSet(fresh'[s]) :
            /\ q[2] <= clock'
            /\ Open(s)' => q = Row(q[1])' /\ q[1] \notin stored'
            /\ pc'[s] = "announce" => Present(q)' \/ q \in wiped'
    BY <1>1, <1>4, <1>5, <1>10 DEF IInv, FreshInv
  <2>3. \A s \in Requests : \A q \in ToSet(fresh'[s]) :
            \A t \in Requests : q \in ToSet(fresh'[t]) => t = s
    BY <1>4 DEF IInv, FreshInv
  <2>4. \A s \in Requests : \A q \in ToSet(fresh'[s]) : \A f \in told' : f[2] # q
    <3>1. \A s \in Requests : \A q \in ToSet(fresh[s]) : \A f \in told : f[2] # q
      BY DEF IInv, FreshInv
    <3> QED
      BY <1>4, <1>9, <3>1
  <2> QED
    BY <2>1, <2>2, <2>3, <2>4 DEF FreshInv
<1>12. ToldInv'
  <2>1. \A f \in told' : f[2][2] <= clock' /\ (Present(f[2])' \/ f[2] \in wiped')
    BY <1>1, <1>9, <1>10 DEF IInv, ToldInv, AnnouncedOnce
  <2>2. \A f, g \in told' : f[2] = g[2] => f = g
    <3>1. \A f, g \in told : f[2] = g[2] => f = g
      BY DEF IInv, ToldInv, AnnouncedOnce
    <3> QED
      BY <1>9, <1>10, <3>1
  <2> QED
    BY <2>1, <2>2 DEF ToldInv, AnnouncedOnce
<1>13. BatchInv'
  BY <1>1, <1>6 DEF IInv, BatchInv, Gone
<1>14. CursorInv'
  BY <1>1, <1>4, <1>5, <1>10 DEF IInv, CursorInv, SkippedOnlyIfOvertaken
<1>15. NoLostWakeUp'
  <2> SUFFICES ASSUME poll = "wait", NEW m \in NewRows
               PROVE  \/ \E i \in 1..Len(queue') : queue'[i] = "message.new"
                      \/ \E s \in Requests : pc[s] = "announce" /\ Row(m) \in ToSet(fresh'[s])
                      \/ Row(m) \in unheard'
    BY <1>1, <1>10 DEF NoLostWakeUp, NewRows
  <2>1. CASE \E i \in 1..Len(queue) : queue[i] = "message.new"
    BY <1>7, <2>1
  <2>2. CASE \E s \in Requests : pc[s] = "announce" /\ Row(m) \in ToSet(fresh[s])
    BY <1>1, <1>3, <1>4, <1>7, <2>2
  <2>3. CASE Row(m) \in unheard
    BY <1>1, <2>3
  <2> QED
    BY <2>1, <2>2, <2>3 DEF IInv, NoLostWakeUp
<1> QED
  BY <1>8, <1>11, <1>12, <1>13, <1>14, <1>15 DEF IInv

\* The request is answered.
LEMMA SummariseStep == ASSUME IInv, NEW r \in Requests, Summarise(r) PROVE IInv'
<1>1. /\ pc[r] = "announce" /\ fresh[r] = <<>> /\ TypeOK
      /\ pc' = [pc EXCEPT ![r] = "answered"]
      /\ UNCHANGED <<table, admin, left, fresh, told, client, unheard>>
      /\ fresh' = [fresh EXCEPT ![r] = <<>>]
  BY DEF Summarise, Goto, IInv, TypeOK
<1> USE DEF admin, client, table
<1>2. /\ FreshInv' /\ ToldInv'
      /\ pc'[r] = "answered" /\ fresh'[r] = <<>> /\ ToSet(<<>>) = {}
      /\ \A s \in Requests : s # r => pc'[s] = pc[s] /\ fresh'[s] = fresh[s]
      /\ \A s \in Requests : s # r =>
             (Open(s)' <=> Open(s)) /\ \A m : HeldBy(s, m)' <=> HeldBy(s, m)
      /\ ~ Open(r)'
  BY <1>1, DropKeepsFresh
<1>3. /\ queue' \in Seq(Frames) /\ Len(queue') <= QueueSize
      /\ poll # "idle" => \A i \in 1..Len(queue) : i \in 1..Len(queue') /\ queue'[i] = queue[i]
  <2>1. CASE UNCHANGED queue
    BY <1>1, <2>1 DEF TypeOK, Frames
  <2>2. CASE \E frames \in Seq(Frames) : Publish(frames)
    BY <1>1, <2>2, PublishKeeps
  <2>3. <<"other", "other">> \in Seq(Frames) /\ <<"other">> \in Seq(Frames)
    BY DEF Frames
  <2> QED
    BY <2>1, <2>2, <2>3 DEF Summarise
<1>4. TypeOK'
  BY <1>1, <1>3 DEF TypeOK, Stages, Frames
<1>5. BatchInv'
  <2>1. \A m : ~ HeldBy(r, m)
    BY <1>1 DEF HeldBy, Open
  <2> QED
    BY <1>1, <1>2, <2>1 DEF IInv, BatchInv, Gone
<1>6. CursorInv'
  BY <1>1, <1>2 DEF IInv, CursorInv, SkippedOnlyIfOvertaken, Row
<1>7. NoLostWakeUp'
  <2>1. \A s \in Requests : s = r => ToSet(fresh[s]) = {}
    BY <1>1, <1>2
  <2> QED
    BY <1>1, <1>2, <1>3, <2>1 DEF IInv, NoLostWakeUp, NewRows, Row
<1> QED
  BY <1>2, <1>4, <1>5, <1>6, <1>7 DEF IInv

\* An administrator deletes what is committed of a device.
LEMMA ClearStep == ASSUME IInv, NEW d \in Devices, Clear(d) PROVE IInv'
<1> DEFINE gone == {m \in stored : owner[m] = d}
<1>1. /\ stored' = stored \ gone /\ wiped' = wiped \cup {Row(m) : m \in gone}
      /\ cleared' = cleared \cup {d} /\ telling' = telling \cup {d}
      /\ UNCHANGED <<clock, stamp, owner, upload, client, queue, unheard>> /\ TypeOK
  BY DEF Clear, IInv
<1> USE DEF upload, client
<1>2. gone \subseteq stored /\ \A m \in gone : Row(m) \in Rows
  BY <1>1 DEF TypeOK, Rows, Row
<1> HIDE DEF gone
<1>3. TypeOK'
  <2>1. stored' \subseteq Messages /\ wiped' \subseteq Rows /\ cleared' \cup telling' \subseteq Devices
    BY <1>1, <1>2 DEF TypeOK
  <2> QED
    BY <1>1, <2>1 DEF TypeOK
<1>4. /\ \A q \in Rows : Present(q) => Present(q)' \/ q \in wiped'
      /\ \A m : Row(m)' = Row(m)
      /\ \A m : m \in stored => m \in stored' \/ Gone(m)'
      /\ \A m : Gone(m) => Gone(m)'
      /\ wiped \subseteq wiped' /\ stored' \subseteq stored
  <2>1. \A m : Row(m)' = Row(m) /\ Row(m)[1] = m
    BY <1>1 DEF Row
  <2>2. \A m \in stored : m \in stored' \/ Row(m) \in wiped'
    BY <1>1
  <2>3. \A q \in Rows : Present(q) => q[1] \in stored /\ q = Row(q[1])
    BY DEF Present, Row, Rows
  <2>4. \A q : Present(q) /\ q[1] \in stored' => Present(q)'
    BY <1>1 DEF Present
  <2> QED
    BY <1>1, <2>1, <2>2, <2>3, <2>4 DEF Gone
<1>5. \A s \in Requests : (Open(s)' <=> Open(s)) /\ \A m : HeldBy(s, m)' <=> HeldBy(s, m)
  BY <1>1 DEF Open, HeldBy
<1>6. FreshInv'
  <2>1. \A s \in Requests : ToSet(fresh[s]) \subseteq Rows
    BY <1>1, OfRequest
  <2>2. \A s \in Requests : \A row \in ToSet(fresh[s]) :
            /\ Open(s)' => row = Row(row[1])' /\ row[1] \notin stored'
            /\ pc[s] = "announce" => Present(row)' \/ row \in wiped'
    BY <1>4, <1>5, <2>1 DEF IInv, FreshInv
  <2> QED
    BY <1>1, <2>2 DEF IInv, FreshInv
<1>7. ToldInv'
  <2>1. \A f \in told : f[2] \in Rows
    BY <1>1 DEF TypeOK
  <2> QED
    BY <1>1, <1>4, <2>1 DEF IInv, ToldInv, AnnouncedOnce
<1>8. BatchInv'
  BY <1>1, <1>4, <1>5 DEF IInv, BatchInv
<1>9. CursorInv'
  BY <1>1, <1>4, <1>5 DEF IInv, CursorInv, SkippedOnlyIfOvertaken
<1>10. NoLostWakeUp'
  <2>1. \A m \in NewRows' : m \in NewRows
    BY <1>1, <1>4 DEF NewRows
  <2> QED
    BY <1>1, <1>4, <2>1 DEF IInv, NoLostWakeUp
<1> QED
  BY <1>3, <1>6, <1>7, <1>8, <1>9, <1>10 DEF IInv

\* Steps that touch the call and its queue only: if it goes on waiting, with every
\* frame but perhaps one of another type, it waits for what it waited for.
LEMMA CallKeeps ==
    ASSUME IInv, UNCHANGED <<table, wiped, upload, cursor, received, overtaken, unheard>>,
           cleared' \cup telling' \subseteq Devices,
           poll' \in {"idle", "read", "wait"}, queue' \in Seq(Frames), Len(queue') <= QueueSize,
           poll' = "wait" => poll = "wait" /\
               ((\E i \in 1..Len(queue) : queue[i] = "message.new") =>
                    \E i \in 1..Len(queue') : queue'[i] = "message.new")
    PROVE  IInv'
<1> USE DEF upload, table
<1>1. TypeOK'
  BY DEF IInv, TypeOK, Frames
<1>2. /\ \A s \in Requests : (Open(s)' <=> Open(s)) /\ \A m : HeldBy(s, m)' <=> HeldBy(s, m)
      /\ \A q : Present(q)' <=> Present(q)
      /\ \A m : Row(m)' = Row(m) /\ (Gone(m)' <=> Gone(m))
      /\ NewRows' = NewRows
  BY DEF Open, HeldBy, Present, Row, Gone, NewRows
<1>3. FreshInv'
  BY <1>2 DEF IInv, FreshInv
<1>4. ToldInv'
  BY <1>2 DEF IInv, ToldInv, AnnouncedOnce
<1>5. BatchInv'
  BY <1>2 DEF IInv, BatchInv
<1>6. CursorInv'
  BY <1>2 DEF IInv, CursorInv, SkippedOnlyIfOvertaken
<1>7. NoLostWakeUp'
  BY <1>2 DEF IInv, NoLostWakeUp
<1> QED
  BY <1>1, <1>3, <1>4, <1>5, <1>6, <1>7 DEF IInv

\* The deletion is told of, or not.
LEMMA AnnounceClearStep == ASSUME IInv, NEW d \in Devices, AnnounceClear(d) PROVE IInv'
<1>1. /\ telling' = telling \ {d} /\ UNCHANGED <<table, wiped, cleared, upload, client, unheard>>
      /\ TypeOK
  BY DEF AnnounceClear, IInv
<1>2. cleared' \cup telling' \subseteq Devices
  BY <1>1 DEF TypeOK
<1>3. /\ queue' \in Seq(Frames) /\ Len(queue') <= QueueSize
      /\ poll # "idle" => \A i \in 1..Len(queue) : i \in 1..Len(queue') /\ queue'[i] = queue[i]
  <2>1. CASE UNCHANGED queue
    BY <1>1, <2>1 DEF TypeOK, Frames
  <2>2. CASE Publish(<<"other">>)
    <3>1. <<"other">> \in Seq(Frames)
      BY DEF Frames
    <3> QED
      BY <1>1, <2>2, <3>1, PublishKeeps
  <2> QED
    BY <2>1, <2>2 DEF AnnounceClear
<1>4. poll' = poll /\ poll \in {"idle", "read", "wait"} /\ UNCHANGED <<cursor, received, overtaken>>
  BY <1>1 DEF TypeOK, client
<1> QED
  BY <1>1, <1>2, <1>3, <1>4, CallKeeps

\* The call begins, is woken, runs out of time, or is lost.
LEMMA CallStep == ASSUME IInv, StartPoll \/ Wake \/ TimeOut \/ LoseCall PROVE IInv'
<1>1. TypeOK /\ cleared \cup telling \subseteq Devices /\ queue \in Seq(Frames) /\ Len(queue) <= QueueSize
  BY DEF IInv, TypeOK, Frames
<1>2. <<>> \in Seq(Frames) /\ Len(<<>>) = 0
  OBVIOUS
<1>3. CASE StartPoll \/ TimeOut \/ LoseCall
  <2>1. /\ poll' \in {"idle", "read"} /\ queue' = <<>>
        /\ UNCHANGED <<table, admin, upload, cursor, received, overtaken, unheard>>
    BY <1>3 DEF StartPoll, TimeOut, LoseCall
  <2>2. UNCHANGED <<wiped, cleared, telling>>
    BY <2>1 DEF admin
  <2>3. Len(queue') <= QueueSize
    BY <1>2, <2>1
  <2> QED
    BY <1>1, <1>2, <2>1, <2>2, <2>3, CallKeeps
<1>4. CASE Wake
  <2>1. /\ poll = "wait" /\ queue # <<>> /\ queue' = Tail(queue)
        /\ poll' = IF Head(queue) = "message.new" THEN "read" ELSE "wait"
        /\ UNCHANGED <<table, admin, upload, cursor, received, overtaken, unheard>>
    BY <1>4 DEF Wake
  <2>2. UNCHANGED <<wiped, cleared, telling>>
    BY <2>1 DEF admin
  <2>3. /\ Len(queue) \in Nat /\ Len(queue) >= 1 /\ Head(queue) = queue[1]
        /\ queue' \in Seq(Frames) /\ Len(queue') = Len(queue) - 1
        /\ \A i \in 1..(Len(queue) - 1) : queue'[i] = queue[i + 1]
    BY <1>1, <2>1, HeadTailProperties, LenProperties
  <2>4. ASSUME poll' = "wait", NEW i \in 1..Len(queue), queue[i] = "message.new"
        PROVE  \E j \in 1..Len(queue') : queue'[j] = "message.new"
    <3>1. i # 1
      BY <2>1, <2>3, <2>4
    <3>2. i - 1 \in 1..(Len(queue) - 1) /\ queue'[i - 1] = queue[i]
      BY <2>3, <3>1
    <3> QED
      BY <2>3, <2>4, <3>2
  <2>5. Len(queue') <= QueueSize
    BY <1>1, <2>3
  <2> QED
    BY <1>1, <2>1, <2>2, <2>3, <2>4, <2>5, CallKeeps
<1> QED
  BY <1>3, <1>4

\* A call reads: it finds nothing and waits, or answers and moves the cursor past
\* what it answers with, and past nothing else that is committed.
LEMMA ReadStep == ASSUME IInv, ReadSince PROVE IInv'
<1>1. poll = "read" /\ TypeOK /\ UNCHANGED <<table, admin, upload, unheard>>
  BY DEF ReadSince, IInv
<1> USE DEF upload, table, admin
<1>2. CASE Page = {}
  <2>1. poll' = "wait" /\ UNCHANGED <<queue, cursor, received, overtaken>>
    BY <1>2 DEF ReadSince
  <2>2. NewRows = {}
    BY <1>1, <1>2, PageIsOldest
  <2>3. TypeOK'
    BY <1>1, <2>1 DEF TypeOK
  <2>4. NoLostWakeUp'
    BY <1>1, <2>1, <2>2 DEF NoLostWakeUp, NewRows
  <2>5. FreshInv' /\ ToldInv'
    BY <1>1, <2>1 DEF IInv, FreshInv, ToldInv, AnnouncedOnce, Present, Row, Open
  <2>6. BatchInv'
    BY <1>1, <2>1 DEF IInv, BatchInv, Gone, HeldBy, Open
  <2>7. CursorInv'
    BY <1>1, <2>1 DEF IInv, CursorInv, SkippedOnlyIfOvertaken, Row, Open
  <2> QED
    BY <2>3, <2>4, <2>5, <2>6, <2>7 DEF IInv
<1>3. CASE Page # {}
  <2>1. /\ poll' = "idle" /\ queue' = <<>>
        /\ cursor' = CHOOSE t \in {stamp[m] : m \in Page} : \A m \in Page : stamp[m] <= t
        /\ received' = received \cup {Row(m) : m \in Page}
        /\ overtaken' = overtaken \cup {row \in Uncommitted : row[2] <= cursor'}
    BY <1>3 DEF ReadSince
  <2>2. PICK p \in Page : cursor' = stamp[p] /\ \A m \in Page : stamp[m] <= stamp[p]
    BY <1>1, <1>3, <2>1, CursorOfPage
  <2>3. /\ Page \subseteq NewRows /\ NewRows \subseteq Messages
        /\ \A m \in NewRows : stamp[m] <= stamp[p] => m \in Page
    BY <1>1, PageIsOldest
  <2>4. \A r \in Requests : ToSet(fresh[r]) \subseteq Rows
    BY <1>1, OfRequest
  <2>5. TypeOK'
    <3>1. cursor' \in Nat
      BY <1>1, <2>2, <2>3 DEF TypeOK
    <3>2. Uncommitted \subseteq Rows
      BY <2>4 DEF Uncommitted
    <3>3. \A m \in Page : Row(m) \in Rows
      BY <1>1, <2>3 DEF Row, Rows, TypeOK
    <3>4. received' \cup overtaken' \subseteq Rows
      BY <1>1, <2>1, <3>2, <3>3 DEF TypeOK
    <3>5. queue' \in Seq({"message.new", "other"}) /\ Len(queue') <= QueueSize
      BY <2>1
    <3> QED
      BY <1>1, <2>1, <3>1, <3>4, <3>5 DEF TypeOK
  <2>6. FreshInv' /\ ToldInv'
    BY <1>1 DEF IInv, FreshInv, ToldInv, AnnouncedOnce, Present, Row, Open
  <2>7. BatchInv'
    BY <1>1 DEF IInv, BatchInv, Gone, HeldBy, Open
  <2>8. SkippedOnlyIfOvertaken'
    <3> SUFFICES ASSUME NEW m \in stored, stamp[m] <= cursor'
                 PROVE  Row(m) \in received' \cup overtaken'
      BY <1>1 DEF SkippedOnlyIfOvertaken, Row
    <3>1. CASE m \in NewRows
      BY <2>1, <2>2, <2>3, <3>1
    <3>2. CASE m \notin NewRows
      <4>1. stamp[m] <= cursor
        BY <1>1, <3>2 DEF NewRows, TypeOK
      <4> QED
        BY <2>1, <4>1 DEF IInv, CursorInv, SkippedOnlyIfOvertaken
    <3> QED
      BY <3>1, <3>2
  <2>9. CursorInv'
    <3>1. cursor' <= clock
      BY <2>2, <2>3 DEF IInv, CursorInv
    <3>2. \A r \in Requests : Open(r) => \A row \in ToSet(fresh[r]) : row \in Uncommitted
      BY DEF Uncommitted
    <3>3. \A r \in Requests : Open(r)' <=> Open(r)
      BY <1>1 DEF Open
    <3> QED
      BY <1>1, <2>1, <2>8, <3>1, <3>2, <3>3 DEF IInv, CursorInv
  <2>10. NoLostWakeUp'
    BY <2>1 DEF NoLostWakeUp
  <2> QED
    BY <2>5, <2>6, <2>7, <2>9, <2>10 DEF IInv
<1> QED
  BY <1>2, <1>3

\* Every step preserves the invariant.
LEMMA NextInv == IInv /\ [Next]_vars => IInv'
<1> SUFFICES ASSUME IInv, [Next]_vars PROVE IInv'
  OBVIOUS
<1>1. ASSUME NEW r \in Requests, Insert(r) PROVE IInv'
  BY <1>1, DuplicateStep, InsertStep
<1>2. ASSUME NEW r \in Requests, BreakDeadlock(r) PROVE IInv'
  BY <1>2, FailStep DEF BreakDeadlock
<1>3. ASSUME NEW r \in Requests, Upload(r) PROVE IInv'
  BY <1>1, <1>2, <1>3, LookupStep, CommitStep, AnnounceStep, SummariseStep DEF Upload
<1>4. ASSUME NEW d \in Devices, ClearMessages(d) PROVE IInv'
  BY <1>4, ClearStep, AnnounceClearStep DEF ClearMessages
<1>5. CASE UNCHANGED vars
  <2>1. UNCHANGED <<table, wiped, upload, client, queue, unheard, cleared, telling>>
    BY <1>5 DEF vars, admin
  <2>2. /\ cleared' \cup telling' \subseteq Devices /\ poll' \in {"idle", "read", "wait"}
        /\ queue' \in Seq(Frames) /\ Len(queue') <= QueueSize
        /\ UNCHANGED <<poll, cursor, received, overtaken, queue>>
    BY <2>1 DEF IInv, TypeOK, Frames, client
  <2> QED
    BY <2>1, <2>2, CallKeeps
<1> QED
  BY <1>3, <1>4, <1>5, FailStep, CallStep, ReadStep DEF Next

\* The invariant holds in every reachable state.
THEOREM Invariant == Spec => []IInv
  BY InitInv, NextInv, PTL DEF Spec

\* Every variable keeps its type, and the queue of a call its bound.
THEOREM TypeCorrect == Spec => []TypeOK
  BY Invariant, PTL DEF IInv

\* AnsweredIsStored, for any batches: what an upload was told is accepted is in the
\* table, or was deleted by an administrator.
THEOREM AnsweredIsAlwaysStored == Spec => []AnsweredIsStored
<1>1. IInv => AnsweredIsStored
  <2> SUFFICES ASSUME IInv, NEW r \in Requests, pc[r] = "answered", NEW m \in ToSet(Batch[r])
               PROVE  m \in stored \/ \E row \in wiped : row[1] = m
    BY DEF AnsweredIsStored
  <2>1. left[r] = <<>> /\ ToSet(<<>>) = {} /\ ~ HeldBy(r, m)
    BY Elements DEF IInv, BatchInv, HeldBy, Open
  <2> QED
    BY <2>1 DEF IInv, BatchInv, Gone
<1> QED
  BY <1>1, Invariant, PTL

\* AnnouncedOnce, for any number of requests that upload the same ids.
THEOREM AlwaysAnnouncedOnce == Spec => []AnnouncedOnce
<1>1. IInv => AnnouncedOnce
  BY DEF IInv, ToldInv
<1> QED
  BY <1>1, Invariant, PTL

\* NoLostWakeUp, for any size of the queue: a call sleeps on no row silently.
THEOREM NoWakeUpIsLost == Spec => []NoLostWakeUp
  BY Invariant, PTL DEF IInv

\* SkippedOnlyIfOvertaken, for any size of a page: paging by created_at loses only what
\* was still uncommitted when the cursor passed it.
THEOREM OnlyTheOvertakenIsSkipped == Spec => []SkippedOnlyIfOvertaken
<1>1. IInv => SkippedOnlyIfOvertaken
  BY DEF IInv, CursorInv
<1> QED
  BY <1>1, Invariant, PTL
-----------------------------------------------------------------------------
(* The refinement: an upload is one step. *)

Taken == stored \cup {row[1] : row \in wiped}

\* A step that neither stores nor deletes, and moves no request on or out.
LEMMA QuietIngest ==
    ASSUME UNCHANGED <<stored, wiped>>,
           TypeOK,
           \/ pc' = pc
           \/ \E r \in Requests, stage \in {"insert", "lookup"} :
                  pc[r] \in {"new", "insert", "lookup"} /\ Goto(r, stage)
    PROVE  UNCHANGED <<Taken, Outcome>>
BY DEF Taken, Outcome, Goto, TypeOK

\* One that moves a request on as an upload moves.
LEMMA RequestMoves ==
    ASSUME TypeOK, NEW r \in Requests, NEW stage \in Stages, Goto(r, stage)
    PROVE  /\ pc[r] \in {"new", "insert", "lookup"} => Outcome[r] = "open"
           /\ pc[r] = "announce" => Outcome[r] = "taken"
           /\ stage \in {"answered", "failed"} => Outcome' = [Outcome EXCEPT ![r] = stage]
           /\ stage = "announce" => Outcome' = [Outcome EXCEPT ![r] = "taken"]
<1>1. pc' = [pc EXCEPT ![r] = stage] /\ pc \in [Requests -> Stages]
  BY DEF TypeOK, Goto
<1> QED
  BY <1>1 DEF Outcome

\* A request that fails is lost.
LEMMA LosesUpload ==
    ASSUME TypeOK, NEW r \in Requests, pc[r] \notin {"answered", "failed"}, Goto(r, "failed"),
           UNCHANGED <<stored, wiped>>
    PROVE  Ingest!Next
<1>1. pc[r] \in {"new", "insert", "lookup", "announce"} /\ "failed" \in Stages
  BY DEF TypeOK, Stages
<1>2. Outcome[r] \in {"open", "taken"} /\ Outcome' = [Outcome EXCEPT ![r] = "failed"]
  BY <1>1, RequestMoves
<1> QED
  BY <1>2 DEF Ingest!Next, Ingest!Lose, Ingest!Becomes

\* A request inserts nothing but its batch.
OwnInv ==
    \A r \in Requests : /\ ToSet(left[r]) \subseteq ToSet(Batch[r])
                        /\ {row[1] : row \in ToSet(fresh[r])} \subseteq ToSet(Batch[r])

LEMMA OwnStep == IInv /\ OwnInv /\ [Next]_vars => OwnInv'
<1> SUFFICES ASSUME IInv, OwnInv, [Next]_vars PROVE OwnInv'
  OBVIOUS
<1> USE DEF OwnInv
<1>0. TypeOK /\ ToSet(<<>>) = {}
  BY DEF IInv, ToSet
<1>1. ASSUME NEW r \in Requests
      PROVE  /\ left[r] # <<>> => /\ Head(left[r]) \in Messages
                                  /\ ToSet(left[r]) = {Head(left[r])} \cup ToSet(Tail(left[r]))
             /\ fresh[r] # <<>> =>
                    ToSet(fresh[r]) = {Head(fresh[r])} \cup ToSet(Tail(fresh[r]))
  BY <1>0, OfRequest, Elements
<1>2. ASSUME NEW r \in Requests,
             /\ left' = left \/ (left[r] # <<>> /\ left' = [left EXCEPT ![r] = Tail(@)])
             /\ fresh' \in {fresh, [fresh EXCEPT ![r] = <<>>]}
      PROVE  OwnInv'
  BY <1>0, <1>1, <1>2 DEF TypeOK
<1>3. ASSUME NEW r \in Requests, Insert(r) PROVE OwnInv'
  <2> DEFINE m == Head(left[r])
  <2>1. CASE m \in stored \/ HeldBy(r, m)
    BY <1>2, <1>3, <2>1 DEF Insert
  <2>2. CASE ~ (m \in stored \/ HeldBy(r, m))
    <3>1. /\ left[r] # <<>> /\ left' = [left EXCEPT ![r] = Tail(left[r])]
          /\ fresh' = [fresh EXCEPT ![r] = Append(fresh[r], <<m, clock + 1>>)]
      BY <1>3, <2>2 DEF Insert
    <3>2. <<m, clock + 1>> \in Rows /\ m \in ToSet(Batch[r])
      BY <1>0, <1>1, <3>1 DEF TypeOK, Rows
    <3>3. ToSet(Append(fresh[r], <<m, clock + 1>>)) = ToSet(fresh[r]) \cup {<<m, clock + 1>>}
      BY <1>0, <3>2, OfRequest, Elements
    <3>4. {row[1] : row \in ToSet(fresh'[r])} \subseteq ToSet(Batch[r])
      <4> HIDE DEF m
      <4>1. ToSet(fresh'[r]) = ToSet(fresh[r]) \cup {<<m, clock + 1>>}
        BY <1>0, <3>1, <3>3 DEF TypeOK
      <4> QED
        BY <3>2, <4>1
    <3>5. ToSet(left'[r]) \subseteq ToSet(Batch[r])
      BY <1>0, <1>1, <3>1 DEF TypeOK
    <3> QED
      BY <1>0, <3>1, <3>4, <3>5 DEF TypeOK
  <2> QED
    BY <2>1, <2>2
<1>4. ASSUME NEW r \in Requests, Lookup(r) PROVE OwnInv'
  <2>1. left[r] # <<>>
    BY <1>4 DEF IInv, BatchInv, Lookup
  <2> QED
    BY <1>2, <1>4, <2>1 DEF Lookup
<1>5. ASSUME NEW r \in Requests, Announce(r) PROVE OwnInv'
  BY <1>0, <1>1, <1>5 DEF Announce, TypeOK
<1>6. ASSUME NEW r \in Requests, Commit(r) \/ Summarise(r) \/ Fail(r) PROVE OwnInv'
  BY <1>2, <1>6 DEF Commit, Summarise, Fail
<1>7. CASE \/ \E d \in Devices : ClearMessages(d)
           \/ StartPoll \/ ReadSince \/ Wake \/ TimeOut \/ LoseCall \/ UNCHANGED vars
  BY <1>7 DEF ClearMessages, Clear, AnnounceClear, StartPoll, ReadSince, Wake, TimeOut, LoseCall,
              upload, vars
<1> QED
  BY <1>3, <1>4, <1>5, <1>6, <1>7 DEF Next, Upload, BreakDeadlock

LEMMA OwnInvariant == Spec => []OwnInv
<1>1. Init => OwnInv
  BY Elements DEF Init, OwnInv
<1> QED
  BY <1>1, OwnStep, Invariant, PTL DEF Spec

\* At the commit what was looked up is stored or deleted, and the rest is inserted.
LEMMA CommitTakes ==
    ASSUME IInv, OwnInv, NEW r \in Requests, Commit(r)
    PROVE  Ingest!Next
<1> DEFINE ids == ToSet(Batch[r])
<1>1. /\ pc[r] = "insert" /\ left[r] = <<>> /\ Goto(r, "announce")
      /\ stored' = stored \cup {row[1] : row \in ToSet(fresh[r])} /\ UNCHANGED wiped
  BY DEF Commit, admin
<1>2. \A m \in ids : m \in Taken \/ m \in {row[1] : row \in ToSet(fresh[r])}
  <2>1. ToSet(left[r]) = {}
    BY <1>1, Elements
  <2> QED
    BY <1>1, <2>1 DEF IInv, BatchInv, HeldBy, Gone, Taken
<1>3. {row[1] : row \in ToSet(fresh[r])} \subseteq ids
  BY DEF OwnInv
<1>4. Taken' = Taken \cup ids
  BY <1>1, <1>2, <1>3 DEF Taken
<1>5. Outcome[r] = "open" /\ Outcome' = [Outcome EXCEPT ![r] = "taken"]
  BY <1>1, RequestMoves DEF IInv, Stages
<1> QED
  BY <1>4, <1>5 DEF Ingest!Next, Ingest!Take, Ingest!Becomes, Taken

LEMMA StepIsIngest == IInv /\ OwnInv /\ [Next]_vars => [Ingest!Next]_<<Taken, Outcome>>
<1> SUFFICES ASSUME IInv, OwnInv, [Next]_vars
             PROVE  Ingest!Next \/ UNCHANGED <<Taken, Outcome>>
  OBVIOUS
<1>0. TypeOK
  BY DEF IInv
<1>1. ASSUME NEW r \in Requests, Insert(r) PROVE UNCHANGED <<Taken, Outcome>>
  <2>1. /\ pc[r] \in {"new", "insert", "lookup"}
        /\ Goto(r, "insert") \/ Goto(r, "lookup")
        /\ UNCHANGED <<stored, wiped>>
    BY <1>1 DEF Insert, table, admin
  <2> QED
    BY <1>0, <2>1, QuietIngest
<1>2. ASSUME NEW r \in Requests, Lookup(r) PROVE Ingest!Next \/ UNCHANGED <<Taken, Outcome>>
  <2>1. /\ pc[r] = "lookup" /\ UNCHANGED <<stored, wiped>>
        /\ Goto(r, "insert") \/ Goto(r, "failed")
    BY <1>2 DEF Lookup, table, admin
  <2> QED
    BY <1>0, <2>1, QuietIngest, LosesUpload
<1>3. ASSUME NEW r \in Requests, Fail(r) PROVE Ingest!Next
  BY <1>0, <1>3, LosesUpload DEF Fail, table, admin
<1>4. ASSUME NEW r \in Requests, Summarise(r) PROVE Ingest!Next
  <2>1. /\ pc[r] = "announce" /\ Goto(r, "answered") /\ UNCHANGED <<stored, wiped>>
        /\ "answered" \in Stages
    BY <1>4 DEF Summarise, table, admin, Stages
  <2>2. Outcome[r] = "taken" /\ Outcome' = [Outcome EXCEPT ![r] = "answered"]
    BY <1>0, <2>1, RequestMoves
  <2> QED
    BY <2>1, <2>2 DEF Ingest!Next, Ingest!Answer, Ingest!Becomes
<1>5. ASSUME NEW d \in Devices, Clear(d) PROVE UNCHANGED <<Taken, Outcome>>
  <2> DEFINE gone == {m \in stored : owner[m] = d}
  <2>1. /\ stored' = stored \ gone /\ UNCHANGED pc
        /\ wiped' = wiped \cup {Row(m) : m \in gone}
    BY <1>5 DEF Clear, upload
  <2>2. \A m \in gone : Row(m)[1] = m
    BY DEF Row
  <2>3. {row[1] : row \in wiped'} = {row[1] : row \in wiped} \cup gone
    BY <2>1, <2>2
  <2> QED
    BY <2>1, <2>3 DEF Taken, Outcome
<1>6. CASE \/ \E r \in Requests : Announce(r)
           \/ \E d \in Devices : AnnounceClear(d)
           \/ StartPoll \/ ReadSince \/ Wake \/ TimeOut \/ LoseCall \/ UNCHANGED vars
  <2>1. UNCHANGED <<stored, wiped, pc>>
    BY <1>6 DEF Announce, AnnounceClear, StartPoll, ReadSince, Wake, TimeOut, LoseCall,
                table, admin, upload, vars
  <2> QED
    BY <1>0, <2>1, QuietIngest
<1> QED
  BY <1>1, <1>2, <1>3, <1>4, <1>5, <1>6, CommitTakes
     DEF Next, Upload, ClearMessages, BreakDeadlock

\* UploadsAreAtomic, for any batches, requests and clears: to the phone an upload is
\* one step of the server, taken whole before it is answered.
THEOREM ImplementsAtomicIngest == Spec => UploadsAreAtomic
<1>1. Init => Ingest!Init
  BY DEF Init, Ingest!Init, Outcome
<1>2. IInv /\ OwnInv /\ [Next]_vars => [Ingest!Next]_<<Taken, Outcome>>
  BY StepIsIngest
<1> QED
  BY <1>1, <1>2, Invariant, OwnInvariant, PTL DEF Spec, UploadsAreAtomic, Ingest!Spec, Taken
=============================================================================
