------------------------- MODULE Enrolment_proofs -------------------------
(***************************************************************************)
(* Proofs about Enrolment for any number of codes, requests and cancels.   *)
(* The invariant says what a row lock buys: its holder is about to commit  *)
(* and the row is still as its UPDATE found it.                            *)
(***************************************************************************)
EXTENDS Enrolment, TLAPS

Undecided(c) == usedBy[c] = Nobody /\ c \notin cancelled

\* A row lock is held by a transaction that is about to commit, on a row that has
\* not changed since its WHERE was evaluated.
LockInv ==
    /\ \A c \in Codes : lock[c] # Nobody =>
        /\ pc[lock[c]] = "commit" /\ presented[lock[c]] = c /\ usedBy[c] = Nobody
        /\ lock[c] \in Requests => c \notin cancelled
    /\ \A q \in Clients : pc[q] = "commit" =>
        presented[q] = AdminKey \/ (presented[q] \in Codes /\ lock[presented[q]] = q)

\* Where a request is says what its transaction has done so far.
StageInv ==
    /\ \A r \in Requests :
        /\ r \in devices => pc[r] \in {"announce", "announce_use", "created", "lost"}
        /\ pc[r] \in {"announce", "announce_use", "created"} => r \in devices
        /\ pc[r] \in {"insert", "update", "commit", "announce"} =>
               presented[r] \in issued \cup {AdminKey}
        /\ pc[r] = "update" => presented[r] # AdminKey
        /\ pc[r] = "announce_use" => presented[r] \in Codes
        /\ pc[r] # "deleted" /\ pc[r] # "conflict"
    /\ \A x \in Cancels :
        /\ pc[x] \in {"update", "commit", "announce", "deleted", "conflict"} => presented[x] \in issued
        /\ pc[x] \in {"announce", "deleted"} => presented[x] \in cancelled
        /\ pc[x] = "conflict" => usedBy[presented[x]] # Nobody
        /\ pc[x] \notin {"insert", "announce_use", "created"}

\* A code ends one way, and only once it was issued.
FateInv ==
    /\ \A c \in cancelled : usedBy[c] = Nobody
    /\ \A c \in Codes : usedBy[c] # Nobody => c \in issued
    /\ cancelled \subseteq issued

\* What was announced was announced by a request that has left its first stage.
EventInv ==
    /\ EventsAreTrue
    /\ \A e \in events : pc[e[2]] # "new"
    /\ \A q \in Clients : <<"ENROLMENT_USED", q>> \in events => presented[q] \in Codes

IInv == TypeOK /\ CodeAndDeviceTogether /\ LockInv /\ StageInv /\ FateInv /\ EventInv

USE EnrolmentAssumption DEF Clients, Answers, Stages

\* Issuing a code changes no row of a decided one.
LEMMA IssueStep ==
    ASSUME IInv, NEW c \in Codes, Issue(c) PROVE IInv'
<1> USE DEF Issue, Goto, Unlock
<1>1. TypeOK'
  BY DEF IInv, TypeOK, StageInv
<1>2. CodeAndDeviceTogether'
  BY DEF IInv, TypeOK, CodeAndDeviceTogether, LockInv, StageInv
<1>3. LockInv'
  BY DEF IInv, TypeOK, LockInv, StageInv
<1>4. StageInv'
  BY DEF IInv, TypeOK, StageInv, LockInv
<1>5. FateInv'
  BY DEF IInv, TypeOK, FateInv, LockInv, StageInv
<1>6. EventInv'
  BY DEF IInv, TypeOK, EventInv, EventsAreTrue, StageInv, LockInv, CodeAndDeviceTogether, FateInv
<1> QED
  BY <1>1, <1>2, <1>3, <1>4, <1>5, <1>6 DEF IInv

\* Expiry is a matter of the clock and changes no row.
LEMMA ExpireStep ==
    ASSUME IInv, NEW c \in Codes, Expire(c) PROVE IInv'
<1> USE DEF Expire, Goto, Unlock
<1>1. TypeOK'
  BY DEF IInv, TypeOK, StageInv
<1>2. CodeAndDeviceTogether'
  BY DEF IInv, TypeOK, CodeAndDeviceTogether, LockInv, StageInv
<1>3. LockInv'
  BY DEF IInv, TypeOK, LockInv, StageInv
<1>4. StageInv'
  BY DEF IInv, TypeOK, StageInv, LockInv
<1>5. FateInv'
  BY DEF IInv, TypeOK, FateInv, LockInv, StageInv
<1>6. EventInv'
  BY DEF IInv, TypeOK, EventInv, EventsAreTrue, StageInv, LockInv, CodeAndDeviceTogether, FateInv
<1> QED
  BY <1>1, <1>2, <1>3, <1>4, <1>5, <1>6 DEF IInv

\* Presenting a credential reads and writes nothing.
LEMMA PresentStep ==
    ASSUME IInv, NEW r \in Requests, NEW k \in Codes \cup {AdminKey}, Present(r, k) PROVE IInv'
<1> USE DEF Present, Pending, Goto, Unlock
<1>1. TypeOK'
  BY DEF IInv, TypeOK, StageInv
<1>2. CodeAndDeviceTogether'
  BY DEF IInv, TypeOK, CodeAndDeviceTogether, LockInv, StageInv
<1>3. LockInv'
  BY DEF IInv, TypeOK, LockInv, StageInv
<1>4. StageInv'
  BY DEF IInv, TypeOK, StageInv, LockInv
<1>5. FateInv'
  BY DEF IInv, TypeOK, FateInv, LockInv, StageInv
<1>6. EventInv'
  BY DEF IInv, TypeOK, EventInv, EventsAreTrue, StageInv, LockInv, CodeAndDeviceTogether, FateInv
<1> QED
  BY <1>1, <1>2, <1>3, <1>4, <1>5, <1>6 DEF IInv

\* The inserted device is visible to nobody.
LEMMA InsertStep ==
    ASSUME IInv, NEW r \in Requests, InsertDevice(r) PROVE IInv'
<1> USE DEF InsertDevice, Goto, Unlock
<1>0. inTime' \in [Clients -> BOOLEAN]
  <2> DEFINE fresh == presented[r] \notin expired
  <2>1. fresh \in BOOLEAN
    OBVIOUS
  <2>2. inTime' = inTime \/ inTime' = [inTime EXCEPT ![r] = fresh]
    OBVIOUS
  <2> HIDE DEF fresh
  <2> QED
    BY <2>1, <2>2 DEF IInv, TypeOK
<1>1. TypeOK'
  BY <1>0 DEF IInv, TypeOK, StageInv
<1>2. CodeAndDeviceTogether'
  BY DEF IInv, TypeOK, CodeAndDeviceTogether, LockInv, StageInv
<1>3. LockInv'
  BY DEF IInv, TypeOK, LockInv, StageInv
<1>4. StageInv'
  BY DEF IInv, TypeOK, StageInv, LockInv
<1>5. FateInv'
  BY DEF IInv, TypeOK, FateInv, LockInv, StageInv
<1>6. EventInv'
  BY DEF IInv, TypeOK, EventInv, EventsAreTrue, StageInv, LockInv, CodeAndDeviceTogether, FateInv
<1> QED
  BY <1>1, <1>2, <1>3, <1>4, <1>5, <1>6 DEF IInv

\* The UPDATE takes the lock of a row that is still undecided.
LEMMA ConsumeStep ==
    ASSUME IInv, NEW r \in Requests, Consume(r) PROVE IInv'
<1> USE DEF Consume, Goto, Unlock
<1>1. TypeOK'
  BY DEF IInv, TypeOK, StageInv
<1>2. CodeAndDeviceTogether'
  BY DEF IInv, TypeOK, CodeAndDeviceTogether, LockInv, StageInv
<1>3. LockInv'
  BY DEF IInv, TypeOK, LockInv, StageInv
<1>4. StageInv'
  BY DEF IInv, TypeOK, StageInv, LockInv
<1>5. FateInv'
  BY DEF IInv, TypeOK, FateInv, LockInv, StageInv
<1>6. EventInv'
  BY DEF IInv, TypeOK, EventInv, EventsAreTrue, StageInv, LockInv, CodeAndDeviceTogether, FateInv
<1> QED
  BY <1>1, <1>2, <1>3, <1>4, <1>5, <1>6 DEF IInv

\* The commit spends the code its lock was held for.
LEMMA CommitStep ==
    ASSUME IInv, NEW r \in Requests, Commit(r) PROVE IInv'
<1> USE DEF Commit, Goto, Unlock
<1>1. TypeOK'
  BY DEF IInv, TypeOK, StageInv
<1>2. CodeAndDeviceTogether'
  BY DEF IInv, TypeOK, CodeAndDeviceTogether, LockInv, StageInv
<1>3. LockInv'
  BY DEF IInv, TypeOK, LockInv, StageInv
<1>4. StageInv'
  <2>1. \A c \in Codes : usedBy[c] # Nobody => usedBy'[c] # Nobody
    BY DEF IInv, TypeOK
  <2>2. \A x \in Cancels : pc'[x] = pc[x] /\ presented'[x] = presented[x]
    BY DEF IInv, TypeOK
  <2>3. \A s \in Requests : s # r => pc'[s] = pc[s] /\ (s \in devices' <=> s \in devices)
    BY DEF IInv, TypeOK
  <2>4. pc'[r] = "announce" /\ r \in devices' /\ presented'[r] \in issued' \cup {AdminKey}
    BY DEF IInv, TypeOK, StageInv
  <2> DEFINE Sound(q) ==
        /\ q \in devices => pc[q] \in {"announce", "announce_use", "created", "lost"}
        /\ pc[q] \in {"announce", "announce_use", "created"} => q \in devices
        /\ pc[q] \in {"insert", "update", "commit", "announce"} =>
               presented[q] \in issued \cup {AdminKey}
        /\ pc[q] = "update" => presented[q] # AdminKey
        /\ pc[q] = "announce_use" => presented[q] \in Codes
        /\ pc[q] # "deleted" /\ pc[q] # "conflict"
  <2>5. \A s \in Requests : Sound(s)'
    <3> TAKE s \in Requests
    <3>1. CASE s = r
      BY <3>1, <2>4
    <3>2. CASE s # r
      BY <3>2, <2>3 DEF IInv, StageInv
    <3> QED
      BY <3>1, <3>2
  <2>6. \A x \in Cancels :
        /\ pc'[x] \in {"update", "commit", "announce", "deleted", "conflict"} =>
               presented'[x] \in issued'
        /\ pc'[x] \in {"announce", "deleted"} => presented'[x] \in cancelled'
        /\ pc'[x] = "conflict" => usedBy'[presented'[x]] # Nobody
        /\ pc'[x] \notin {"insert", "announce_use", "created"}
    BY <2>1, <2>2 DEF IInv, TypeOK, StageInv
  <2> QED
    BY <2>5, <2>6 DEF StageInv
<1>5. FateInv'
  BY DEF IInv, TypeOK, FateInv, LockInv, StageInv
<1>6. EventInv'
  <2>1. \A c \in Codes : usedBy[c] # Nobody => usedBy'[c] = usedBy[c]
    BY DEF IInv, TypeOK, LockInv
  <2>2. ASSUME NEW q \in Clients, <<"DEVICE_REGISTERED", q>> \in events' PROVE q \in devices'
    BY <2>2 DEF IInv, EventInv, EventsAreTrue
  <2>3. ASSUME NEW q \in Clients, <<"ENROLMENT_USED", q>> \in events'
        PROVE presented'[q] \in Codes /\ usedBy'[presented'[q]] = q
    <3>1. presented[q] \in Codes /\ usedBy[presented[q]] = q /\ q # Nobody
      BY <2>3 DEF IInv, EventInv, EventsAreTrue
    <3> QED
      BY <3>1, <2>1
  <2>4. ASSUME NEW q \in Clients, <<"ENROLMENT_CANCELLED", q>> \in events'
        PROVE presented'[q] \in cancelled'
    BY <2>4 DEF IInv, EventInv, EventsAreTrue
  <2>5. EventsAreTrue'
    BY <2>2, <2>3, <2>4 DEF EventsAreTrue
  <2>6. \A e \in events' : pc'[e[2]] # "new"
    BY DEF IInv, TypeOK, EventInv
  <2> QED
    BY <2>3, <2>5, <2>6 DEF EventInv
<1> QED
  BY <1>1, <1>2, <1>3, <1>4, <1>5, <1>6 DEF IInv

\* What is announced has been committed.
LEMMA AnnounceStep ==
    ASSUME IInv, NEW r \in Requests, Announce(r) PROVE IInv'
<1> USE DEF Announce, Emit, Goto, Unlock
<1>1. TypeOK'
  BY DEF IInv, TypeOK, StageInv
<1>2. CodeAndDeviceTogether'
  BY DEF IInv, TypeOK, CodeAndDeviceTogether, LockInv, StageInv
<1>3. LockInv'
  BY DEF IInv, TypeOK, LockInv, StageInv
<1>4. StageInv'
  BY DEF IInv, TypeOK, StageInv, LockInv
<1>5. FateInv'
  BY DEF IInv, TypeOK, FateInv, LockInv, StageInv
<1>6. EventInv'
  BY DEF IInv, TypeOK, EventInv, EventsAreTrue, StageInv, LockInv, CodeAndDeviceTogether, FateInv
<1> QED
  BY <1>1, <1>2, <1>3, <1>4, <1>5, <1>6 DEF IInv

\* The use announced is the committed one.
LEMMA AnnounceUseStep ==
    ASSUME IInv, NEW r \in Requests, AnnounceUse(r) PROVE IInv'
<1> USE DEF AnnounceUse, Emit, Goto, Unlock
<1>1. TypeOK'
  BY DEF IInv, TypeOK, StageInv
<1>2. CodeAndDeviceTogether'
  BY DEF IInv, TypeOK, CodeAndDeviceTogether, LockInv, StageInv
<1>3. LockInv'
  BY DEF IInv, TypeOK, LockInv, StageInv
<1>4. StageInv'
  BY DEF IInv, TypeOK, StageInv, LockInv
<1>5. FateInv'
  BY DEF IInv, TypeOK, FateInv, LockInv, StageInv
<1>6. EventInv'
  BY DEF IInv, TypeOK, EventInv, EventsAreTrue, StageInv, LockInv, CodeAndDeviceTogether, FateInv
<1> QED
  BY <1>1, <1>2, <1>3, <1>4, <1>5, <1>6 DEF IInv

\* Looking a code up changes no row.
LEMMA FindCodeStep ==
    ASSUME IInv, NEW x \in Cancels, NEW c \in Codes, FindCode(x, c) PROVE IInv'
<1> USE DEF FindCode, Goto, Unlock
<1>1. TypeOK'
  BY DEF IInv, TypeOK, StageInv
<1>2. CodeAndDeviceTogether'
  BY DEF IInv, TypeOK, CodeAndDeviceTogether, LockInv, StageInv
<1>3. LockInv'
  BY DEF IInv, TypeOK, LockInv, StageInv
<1>4. StageInv'
  BY DEF IInv, TypeOK, StageInv, LockInv
<1>5. FateInv'
  BY DEF IInv, TypeOK, FateInv, LockInv, StageInv
<1>6. EventInv'
  BY DEF IInv, TypeOK, EventInv, EventsAreTrue, StageInv, LockInv, CodeAndDeviceTogether, FateInv
<1> QED
  BY <1>1, <1>2, <1>3, <1>4, <1>5, <1>6 DEF IInv

\* The cancelling UPDATE takes the lock of a row nobody has used.
LEMMA CancelStep ==
    ASSUME IInv, NEW x \in Cancels, Cancel(x) PROVE IInv'
<1> USE DEF Cancel, Goto, Unlock
<1>1. TypeOK'
  BY DEF IInv, TypeOK, StageInv
<1>2. CodeAndDeviceTogether'
  BY DEF IInv, TypeOK, CodeAndDeviceTogether, LockInv, StageInv
<1>3. LockInv'
  BY DEF IInv, TypeOK, LockInv, StageInv
<1>4. StageInv'
  BY DEF IInv, TypeOK, StageInv, LockInv
<1>5. FateInv'
  BY DEF IInv, TypeOK, FateInv, LockInv, StageInv
<1>6. EventInv'
  BY DEF IInv, TypeOK, EventInv, EventsAreTrue, StageInv, LockInv, CodeAndDeviceTogether, FateInv
<1> QED
  BY <1>1, <1>2, <1>3, <1>4, <1>5, <1>6 DEF IInv

\* A cancellation commits on a row that is still unused.
LEMMA CommitCancelStep ==
    ASSUME IInv, NEW x \in Cancels, CommitCancel(x) PROVE IInv'
<1> USE DEF CommitCancel, Goto, Unlock
<1>1. TypeOK'
  BY DEF IInv, TypeOK, StageInv
<1>2. CodeAndDeviceTogether'
  BY DEF IInv, TypeOK, CodeAndDeviceTogether, LockInv, StageInv
<1>3. LockInv'
  BY DEF IInv, TypeOK, LockInv, StageInv
<1>4. StageInv'
  BY DEF IInv, TypeOK, StageInv, LockInv
<1>5. FateInv'
  BY DEF IInv, TypeOK, FateInv, LockInv, StageInv
<1>6. EventInv'
  BY DEF IInv, TypeOK, EventInv, EventsAreTrue, StageInv, LockInv, CodeAndDeviceTogether, FateInv
<1> QED
  BY <1>1, <1>2, <1>3, <1>4, <1>5, <1>6 DEF IInv

\* What is announced as cancelled is.
LEMMA AnnounceCancelStep ==
    ASSUME IInv, NEW x \in Cancels, AnnounceCancel(x) PROVE IInv'
<1> USE DEF AnnounceCancel, Emit, Goto, Unlock
<1>1. TypeOK'
  BY DEF IInv, TypeOK, StageInv
<1>2. CodeAndDeviceTogether'
  BY DEF IInv, TypeOK, CodeAndDeviceTogether, LockInv, StageInv
<1>3. LockInv'
  BY DEF IInv, TypeOK, LockInv, StageInv
<1>4. StageInv'
  BY DEF IInv, TypeOK, StageInv, LockInv
<1>5. FateInv'
  BY DEF IInv, TypeOK, FateInv, LockInv, StageInv
<1>6. EventInv'
  BY DEF IInv, TypeOK, EventInv, EventsAreTrue, StageInv, LockInv, CodeAndDeviceTogether, FateInv
<1> QED
  BY <1>1, <1>2, <1>3, <1>4, <1>5, <1>6 DEF IInv

\* A rollback gives the lock back and leaves every row.
LEMMA FailStep ==
    ASSUME IInv, NEW q \in Clients, Fail(q) PROVE IInv'
<1> USE DEF Fail, Goto, Unlock
<1>1. TypeOK'
  BY DEF IInv, TypeOK, StageInv
<1>2. CodeAndDeviceTogether'
  BY DEF IInv, TypeOK, CodeAndDeviceTogether, LockInv, StageInv
<1>3. LockInv'
  BY DEF IInv, TypeOK, LockInv, StageInv
<1>4. StageInv'
  BY DEF IInv, TypeOK, StageInv, LockInv
<1>5. FateInv'
  BY DEF IInv, TypeOK, FateInv, LockInv, StageInv
<1>6. EventInv'
  BY DEF IInv, TypeOK, EventInv, EventsAreTrue, StageInv, LockInv, CodeAndDeviceTogether, FateInv
<1> QED
  BY <1>1, <1>2, <1>3, <1>4, <1>5, <1>6 DEF IInv

\* Every step preserves the invariant.
LEMMA InvariantStep == IInv /\ [Next]_vars => IInv'
<1> SUFFICES ASSUME IInv, [Next]_vars PROVE IInv'
  OBVIOUS
<1>1. CASE UNCHANGED vars
  BY <1>1 DEF vars, IInv, TypeOK, CodeAndDeviceTogether, LockInv, StageInv, FateInv,
              EventInv, EventsAreTrue
<1>2. CASE Next
  BY <1>2, IssueStep, ExpireStep, PresentStep, InsertStep, ConsumeStep, CommitStep,
     AnnounceStep, AnnounceUseStep, FindCodeStep, CancelStep, CommitCancelStep,
     AnnounceCancelStep, FailStep DEF Next, Register, CancelCode
<1> QED
  BY <1>1, <1>2

\* The invariant holds in every reachable state.
THEOREM Invariant == Spec => []IInv
<1>1. Init => IInv
  BY DEF Init, IInv, TypeOK, CodeAndDeviceTogether, LockInv, StageInv, FateInv,
         EventInv, EventsAreTrue
<1> QED
  BY <1>1, InvariantStep, PTL DEF Spec

\* Every variable of the registration protocol keeps its type.
THEOREM TypeCorrect == Spec => []TypeOK
<1>1. IInv => TypeOK
  BY DEF IInv
<1> QED
  BY <1>1, Invariant, PTL

\* Whatever races or fails, a spent code and its device always name each other.
THEOREM OneDevicePerCode == Spec => []CodeAndDeviceTogether
<1>1. IInv => CodeAndDeviceTogether
  BY DEF IInv
<1> QED
  BY <1>1, Invariant, PTL

\* A client is never told anything the rows do not bear out.
THEOREM AnswersAreAlwaysTrue == Spec => []AnswersAreTrue
<1>1. IInv => AnswersAreTrue
  BY DEF IInv, TypeOK, StageInv, FateInv, AnswersAreTrue
<1> QED
  BY <1>1, Invariant, PTL

\* No event runs ahead of the commit it tells of.
THEOREM EventsAreAlwaysTrue == Spec => []EventsAreTrue
<1>1. IInv => EventsAreTrue
  BY DEF IInv, EventInv
<1> QED
  BY <1>1, Invariant, PTL

\* The abstract fates changed at one code and nowhere else.
LEMMA FateChanges ==
    ASSUME NEW c \in Codes, NEW v, Fate'[c] = v,
           \A k \in Codes : k # c => Fate'[k] = Fate[k]
    PROVE  Fate' = [Fate EXCEPT ![c] = v]
<1>1. Fate' = [k \in Codes |-> Fate'[k]] /\ Fate = [k \in Codes |-> Fate[k]]
  BY DEF Fate
<1> HIDE DEF Fate
<1> QED
  BY <1>1

\* A commit of a registration uses one open code, or none with an admin key.
LEMMA CommitUses ==
    ASSUME IInv, NEW r \in Requests, Commit(r) PROVE Promise!Next
<1> USE DEF IInv, TypeOK, LockInv, StageInv, FateInv
<1>1. r \notin devices /\ devices' = devices \cup {r}
  BY DEF Commit
<1>2. CASE presented[r] = AdminKey
  <2>1. \A c \in Codes : lock[c] # r
    BY <1>2 DEF Commit
  <2>2. Fate' = Fate
    BY <2>1 DEF Fate, Commit
  <2> QED
    BY <1>1, <2>2 DEF Promise!Next, Promise!EnrolByKey
<1>3. CASE presented[r] # AdminKey
  <2> DEFINE c == presented[r]
  <2>1. c \in Codes /\ lock[c] = r /\ c \in issued /\ usedBy[c] = Nobody /\ c \notin cancelled
    BY <1>3 DEF Commit
  <2>2. \A k \in Codes : k # c => lock[k] # r
    BY <2>1
  <2>3. usedBy'[c] = r /\ \A k \in Codes : k # c => usedBy'[k] = usedBy[k]
    BY <2>1, <2>2 DEF Commit
  <2>4. Fate[c] = "open"
    BY <2>1 DEF Fate
  <2>5. cancelled' = cancelled /\ issued' = issued
    BY DEF Commit
  <2>6. Fate' = [Fate EXCEPT ![c] = r]
    <3>1. Fate'[c] = r /\ \A k \in Codes : k # c => Fate'[k] = Fate[k]
      BY <2>1, <2>3, <2>5 DEF Fate
    <3> QED
      BY <2>1, <3>1, FateChanges
  <2>7. Promise!Use(c, r)
    BY <1>1, <2>4, <2>6 DEF Promise!Use
  <2> QED
    BY <2>1, <2>7 DEF Promise!Next
<1> QED
  BY <1>2, <1>3

\* A cancellation commits on an open code, or on one that is cancelled already.
LEMMA CancelCancels ==
    ASSUME IInv, NEW x \in Cancels, CommitCancel(x)
    PROVE Promise!Next \/ UNCHANGED <<Fate, devices>>
<1> USE DEF IInv, TypeOK, LockInv, StageInv, FateInv
<1> DEFINE c == presented[x]
<1>1. c \in Codes /\ c \in issued /\ lock[c] = x /\ usedBy[c] = Nobody
  BY DEF CommitCancel
<1>2. usedBy' = usedBy /\ issued' = issued /\ devices' = devices /\ cancelled' = cancelled \cup {c}
  BY DEF CommitCancel
<1>3. CASE c \in cancelled
  BY <1>2, <1>3 DEF Fate
<1>4. CASE c \notin cancelled
  <2>1. Fate[c] = "open" /\ Fate'[c] = "cancelled"
    BY <1>1, <1>2, <1>4 DEF Fate
  <2>2. \A k \in Codes : k # c => Fate'[k] = Fate[k]
    BY <1>2 DEF Fate
  <2>3. Fate' = [Fate EXCEPT ![c] = "cancelled"]
    BY <1>1, <2>1, <2>2, FateChanges
  <2> QED
    BY <1>1, <1>2, <2>1, <2>3 DEF Promise!Next, Promise!Cancel
<1> QED
  BY <1>3, <1>4

\* The registration protocol implements a single-use code.
THEOREM ImplementsSingleUse == Spec => CodeIsSingleUse
<1>1. Init => Promise!Init
  BY DEF Init, Promise!Init, Fate
<1>2. IInv /\ [Next]_vars => [Promise!Next]_<<Fate, devices>>
  <2> SUFFICES ASSUME IInv, [Next]_vars PROVE Promise!Next \/ UNCHANGED <<Fate, devices>>
    OBVIOUS
  <2>1. ASSUME NEW c \in Codes, Issue(c) PROVE Promise!Next
    <3>1. Fate[c] = "unissued" /\ Fate'[c] = "open" /\ devices' = devices
      BY <2>1 DEF Issue, Fate, IInv, TypeOK, FateInv
    <3>2. \A k \in Codes : k # c => Fate'[k] = Fate[k]
      BY <2>1 DEF Issue, Fate
    <3>3. Fate' = [Fate EXCEPT ![c] = "open"]
      BY <3>1, <3>2, FateChanges
    <3> QED
      BY <3>1, <3>3 DEF Promise!Next, Promise!Issue
  <2>2. ASSUME NEW r \in Requests, Commit(r) PROVE Promise!Next
    BY <2>2, CommitUses
  <2>3. ASSUME NEW x \in Cancels, CommitCancel(x) PROVE Promise!Next \/ UNCHANGED <<Fate, devices>>
    BY <2>3, CancelCancels
  <2>4. CASE UNCHANGED <<issued, usedBy, cancelled, devices>>
    BY <2>4 DEF Fate
  <2> QED
    BY <2>1, <2>2, <2>3, <2>4
       DEF Next, vars, Register, CancelCode, Expire, Present, InsertDevice, Consume, Announce,
           AnnounceUse, FindCode, Cancel, AnnounceCancel, Fail
<1> QED
  BY <1>1, <1>2, Invariant, PTL DEF Spec, CodeIsSingleUse, Promise!Spec
=============================================================================
