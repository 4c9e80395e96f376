-------------------------- MODULE InboxSweep_proofs --------------------------
(***************************************************************************)
(* Theorems about InboxSweep, for every set of copies and passes and every *)
(* value of the tuning constants and bounds.                               *)
(***************************************************************************)
EXTENDS InboxSweep, FiniteSetTheorems, TLAPS

-----------------------------------------------------------------------------
(* Types. *)

LEMMA RowType ==
    ASSUME NEW m \in Messages, NEW at \in Times
    PROVE  RowOf(m, at) \in Rows
BY DEF RowOf, Rows, Texts

LEMMA InboxTimeType ==
    ASSUME TypeOK, NEW m \in Messages
    PROVE  InboxTime(m) \in Times
BY DEF TypeOK, InboxTime

\* The locals of a sweep, as TypeOK states them.
SweepTypes ==
    /\ pc \in [Passes -> Stages]
    /\ cutoff \in [Passes -> Times]
    /\ found \in [Passes -> SUBSET Messages]
    /\ todo \in [Passes -> SUBSET Messages]
    /\ claimed \in [Passes -> SUBSET Rows]

LEMMA EndSweepType ==
    ASSUME TypeOK, NEW p \in Passes, EndSweep(p)
    PROVE  SweepTypes'
BY ConstantsAssumption DEF TypeOK, EndSweep, SweepTypes, Goto, Stages, Times

LEMMA CutoffType ==
    ASSUME NEW from \in Int, from <= MaxClock
    PROVE  NonNegative(from - Overlap) \in Times
BY ConstantsAssumption DEF NonNegative, Times

LEMMA TypeInit == Init => TypeOK
BY ConstantsAssumption DEF Init, TypeOK, Times, Stages

LEMMA TypeWorldStep ==
    ASSUME TypeOK,
           \/ Tick
           \/ \E m \in Messages : Send(m) \/ WriteInbox(m) \/ Broadcast(m)
           \/ \E row \in Rows : Prune(row)
    PROVE  TypeOK'
<1>1. CASE Tick
    BY <1>1, ConstantsAssumption DEF Tick, TypeOK, Times, sweepVars, history
<1>2. CASE \E m \in Messages : Send(m)
    <2>1. clock \in Times
        BY DEF TypeOK, Times
    <2> QED
        BY <1>2, <2>1 DEF Send, TypeOK, sweepVars, history
<1>3. CASE \E m \in Messages : WriteInbox(m)
    <2> PICK m \in Messages : WriteInbox(m)
        BY <1>3
    <2>1. PICK at \in stamp[m]..clock : inbox' = [inbox EXCEPT ![m] = at]
        BY DEF WriteInbox
    <2>2. at \in Times
        BY <2>1, ConstantsAssumption DEF TypeOK, Times
    <2> QED
        BY <2>1, <2>2 DEF WriteInbox, TypeOK, sweepVars, history
<1>4. CASE \E m \in Messages : Broadcast(m)
    <2> PICK m \in Messages : Broadcast(m)
        BY <1>4
    <2>1. RowOf(m, stamp[m]) \in Rows
        BY RowType DEF TypeOK
    <2> QED
        BY <2>1 DEF Broadcast, TypeOK, sweepVars, worldVars
<1>5. CASE \E row \in Rows : Prune(row)
    BY <1>5 DEF Prune, TypeOK, sweepVars, worldVars, history
<1> QED
    BY <1>1, <1>2, <1>3, <1>4, <1>5

LEMMA TypeSweepStep ==
    ASSUME TypeOK, NEW p \in Passes, StartSweep(p) \/ SweepStep(p) \/ Stop(p)
    PROVE  TypeOK'
<1>1. CASE StartSweep(p)
    <2> DEFINE from == IF watermark > 0 THEN watermark ELSE clock - Lookback
    <2>1. from \in Int /\ from <= MaxClock
        BY ConstantsAssumption DEF TypeOK, Times
    <2>2. NonNegative(from - Overlap) \in Times
        BY <2>1, CutoffType
    <2>3. cutoff' = [cutoff EXCEPT ![p] = NonNegative(from - Overlap)]
        BY <1>1 DEF StartSweep
    <2> HIDE DEF from
    <2> QED
        BY <1>1, <2>2, <2>3 DEF StartSweep, TypeOK, Goto, Stages, worldVars, history
<1>2. CASE ReadInbox(p)
    <2>1. firstSweep' \in Times
        BY <1>2 DEF ReadInbox, TypeOK, Times
    <2>2. PICK read \in Since(cutoff[p]) :
              IF read = {}
              THEN EndSweep(p)
              ELSE /\ found' = [found EXCEPT ![p] = read]
                   /\ todo' = [todo EXCEPT ![p] = read]
                   /\ Goto(p, "find")
                   /\ UNCHANGED <<cutoff, claimed>>
        BY <1>2 DEF ReadInbox
    <2>3. read \subseteq Messages
        BY <2>2 DEF Since
    <2>4. SweepTypes'
        BY <2>2, <2>3, EndSweepType DEF SweepTypes, TypeOK, Goto, Stages
    <2> QED
        BY <1>2, <2>1, <2>4 DEF ReadInbox, TypeOK, SweepTypes, worldVars
<1>3. CASE \E m \in Messages : Find(p, m)
    <2> PICK m \in Messages : Find(p, m)
        BY <1>3
    <2>1. RowOf(m, InboxTime(m)) \in Rows
        BY RowType, InboxTimeType
    <2> QED
        BY <2>1 DEF Find, Claim, Examined, Goto, TypeOK, Stages, worldVars
<1>4. CASE \E m \in Messages : Match(p, m)
    <2> PICK m \in Messages : Match(p, m)
        BY <1>4
    <2>1. Free(p, m) \subseteq Rows
        BY DEF Free, Near, TypeOK
    <2>2. Text(m) \in Texts
        BY DEF Texts
    <2>3. vain' \subseteq Texts
        BY <2>2 DEF Match, TypeOK
    <2> QED
        BY <2>1, <2>3 DEF Match, Claim, Examined, Goto, TypeOK, Stages, worldVars
<1>5. CASE \E m \in Messages : Store(p, m)
    <2> PICK m \in Messages : Store(p, m)
        BY <1>5
    <2>1. RowOf(m, InboxTime(m)) \in Rows
        BY RowType, InboxTimeType
    <2> QED
        BY <2>1 DEF Store, Claim, Examined, Goto, TypeOK, Stages, worldVars
<1>6. CASE Finish(p)
    <2>1. watermark' \in Times
        BY <1>6 DEF Finish, TypeOK
    <2>2. SweepTypes'
        BY <1>6, EndSweepType DEF Finish
    <2> QED
        BY <1>6, <2>1, <2>2 DEF Finish, TypeOK, SweepTypes, worldVars, history
<1>7. CASE Stop(p)
    <2>1. SweepTypes'
        BY <1>7, EndSweepType DEF Stop
    <2> QED
        BY <1>7, <2>1 DEF Stop, TypeOK, SweepTypes, worldVars, history
<1> QED
    BY <1>1, <1>2, <1>3, <1>4, <1>5, <1>6, <1>7 DEF SweepStep

LEMMA TypeStep == TypeOK /\ [Next]_vars => TypeOK'
<1> SUFFICES ASSUME TypeOK, [Next]_vars
             PROVE  TypeOK'
    OBVIOUS
<1>1. CASE Next
    BY <1>1, TypeWorldStep, TypeSweepStep DEF Next
<1>2. CASE UNCHANGED vars
    BY <1>2 DEF vars, TypeOK
<1> QED
    BY <1>1, <1>2

\* Every variable keeps its type, whatever the constants.
THEOREM TypeCorrect == Spec => []TypeOK
BY TypeInit, TypeStep, PTL DEF Spec

-----------------------------------------------------------------------------
(* One row for each SMS, where no two copies share a text. *)

OneCopyEach == \A m, n \in Messages : Text(m) = Text(n) => m = n

\* The inbox has a copy no sooner than it was sent and at most Delay later, and
\* tells any two apart.
InboxInv ==
    /\ \A m \in Messages : inbox[m] > 0 => /\ stamp[m] > 0
                                          /\ stamp[m] <= inbox[m]
                                          /\ inbox[m] <= stamp[m] + Delay
    /\ \A m, n \in Messages : inbox[m] > 0 /\ inbox[m] = inbox[n] => m = n

\* A sweep has claimed no row of a copy it has yet to deal with, and stores an
\* undated copy only after it has looked for it in vain.
SweepInv ==
    /\ \A p \in Passes : \A m \in todo[p] : inbox[m] > 0
    /\ \A p \in Passes : pc[p] \in {"idle", "read"} => claimed[p] = {}
    /\ \A p \in Passes : \A m \in todo[p], row \in claimed[p] : row.text # Text(m)
    /\ \A p \in Passes : pc[p] = "store" =>
          \A m \in Oldest(p) : m \in Undated => Text(m) \in vain

\* A row has the service centre time of its copy or, where a sweep looked for it in
\* vain, the inbox's; and then only the inbox's, unless the broadcast came later.
RowInv ==
    /\ \A m \in Undated : Text(m) \in vain => inbox[m] > 0
    /\ \A row \in rows, m \in Messages : row.text = Text(m) =>
          /\ stamp[m] > 0
          /\ \/ row.at = stamp[m]
             \/ m \in Undated /\ Text(m) \in vain /\ row.at = inbox[m]
    /\ \A row \in rows, m \in Undated :
          row.text = Text(m) /\ Text(m) \in vain /\ m \notin late => row.at = inbox[m]

OnceInv == TypeOK /\ InboxInv /\ SweepInv /\ RowInv

LEMMA OnceInit == Init => OnceInv
BY TypeInit DEF Init, OnceInv, InboxInv, SweepInv, RowInv

LEMMA OnceWorldStep ==
    ASSUME OneCopyEach, OnceInv,
           \/ Tick
           \/ \E m \in Messages : Send(m) \/ WriteInbox(m) \/ Broadcast(m)
           \/ \E row \in Rows : Prune(row)
    PROVE  OnceInv'
<1> USE DEF OnceInv
<1>0. TypeOK' /\ ConstantsAssumption
    BY TypeWorldStep, ConstantsAssumption
<1>1. UNCHANGED <<pc, todo, claimed, vain>>
    BY DEF Tick, Send, WriteInbox, Broadcast, Prune, sweepVars, history
<1>2. CASE UNCHANGED <<inbox, rows, late>> /\ \E m \in Messages : Send(m)
    <2> PICK m \in Messages : Send(m)
        BY <1>2
    <2>1. /\ \A n \in Messages : stamp[n] > 0 => stamp'[n] = stamp[n]
          /\ clock > 0
        BY <1>0 DEF Send, TypeOK, Times
    <2>2. InboxInv'
        BY <1>2, <2>1 DEF InboxInv
    <2>3. SweepInv'
        BY <1>1, <1>2 DEF SweepInv, Oldest
    <2>4. RowInv'
        BY <1>1, <1>2, <2>1 DEF RowInv
    <2> QED
        BY <1>0, <2>2, <2>3, <2>4
<1>3. CASE \E m \in Messages : WriteInbox(m)
    <2> PICK m \in Messages : WriteInbox(m)
        BY <1>3
    <2>1. PICK at \in stamp[m]..clock :
              /\ \A n \in Messages : inbox[n] # at
              /\ inbox' = [inbox EXCEPT ![m] = at]
        BY DEF WriteInbox
    <2>2. /\ inbox[m] = 0 /\ inbox'[m] = at
          /\ stamp[m] > 0 /\ stamp[m] <= at /\ at <= stamp[m] + Delay /\ at > 0
        BY <1>0, <2>1 DEF WriteInbox, TypeOK, Times
    <2>3. \A n \in Messages : inbox[n] > 0 => inbox'[n] = inbox[n]
        BY <2>1, <2>2 DEF TypeOK
    <2>4. UNCHANGED <<stamp, rows, late>>
        BY DEF WriteInbox, history
    <2>5. InboxInv'
        <3>1. \A n \in Messages : n = m \/ inbox'[n] = inbox[n]
            BY <2>1 DEF TypeOK
        <3> QED
            BY <2>1, <2>2, <2>4, <3>1 DEF InboxInv
    <2>6. SweepInv'
        <3>1. \A p \in Passes : \A n \in todo[p] : inbox'[n] = inbox[n]
            BY <2>3 DEF SweepInv, TypeOK
        <3> QED
            BY <1>1, <3>1 DEF SweepInv, Oldest
    <2>7. RowInv'
        <3>1. \A n \in Undated : Text(n) \in vain => inbox'[n] = inbox[n]
            BY <1>0, <2>3 DEF RowInv
        <3> QED
            BY <1>1, <2>4, <3>1 DEF RowInv
    <2> QED
        BY <1>0, <2>5, <2>6, <2>7
<1>4. CASE \E m \in Messages : Broadcast(m)
    <2> PICK m \in Messages : Broadcast(m)
        BY <1>4
    <2>1. /\ UNCHANGED <<stamp, inbox>>
          /\ stamp[m] > 0
          /\ rows' = rows \cup {RowOf(m, stamp[m])}
          /\ late' = IF Text(m) \in vain THEN late \cup {m} ELSE late
        BY DEF Broadcast, worldVars
    <2>2. InboxInv' /\ SweepInv'
        BY <1>1, <2>1 DEF InboxInv, SweepInv, Oldest
    <2>3. \A n \in Messages : RowOf(m, stamp[m]).text = Text(n) => n = m
        BY DEF OneCopyEach, RowOf
    <2>4. \A row \in rows' : row \in rows \/ row = RowOf(m, stamp[m])
        BY <2>1
    <2>5. Text(m) \in vain => m \in late'
        BY <2>1
    <2>6. late \subseteq late' /\ RowOf(m, stamp[m]).at = stamp[m]
        BY <2>1 DEF RowOf
    <2>7. \A row \in rows', n \in Messages : row.text = Text(n) =>
              /\ stamp[n] > 0
              /\ \/ row.at = stamp[n]
                 \/ n \in Undated /\ Text(n) \in vain /\ row.at = inbox[n]
        BY <2>1, <2>3, <2>4, <2>6 DEF RowInv
    <2>8. \A row \in rows', n \in Undated :
              row.text = Text(n) /\ Text(n) \in vain /\ n \notin late' => row.at = inbox[n]
        BY <1>0, <2>3, <2>4, <2>5, <2>6 DEF RowInv
    <2>9. RowInv'
        BY <1>1, <2>1, <2>7, <2>8 DEF RowInv
    <2> QED
        BY <1>0, <2>2, <2>9
<1>5. CASE /\ UNCHANGED <<stamp, inbox, late>>
           /\ Tick \/ \E row \in Rows : Prune(row)
    <2>1. rows' \subseteq rows
        BY <1>5 DEF Tick, Prune
    <2> QED
        BY <1>0, <1>1, <1>5, <2>1 DEF InboxInv, SweepInv, RowInv, Oldest
<1> QED
    BY <1>2, <1>3, <1>4, <1>5 DEF Tick, Send, Prune, worldVars, history

\* A sweep that is at an undated copy which has a row finds it: the row is near
\* enough, and no other copy has claimed it.
LEMMA FindsTheRow ==
    ASSUME Delay <= MatchWindow, OnceInv, NEW p \in Passes, NEW m \in todo[p],
           m \in Undated, Free(p, m) = {},
           NEW row \in rows, row.text = Text(m)
    PROVE  FALSE
<1>1. m \in Messages /\ InboxTime(m) = inbox[m]
    BY DEF OnceInv, TypeOK, InboxTime
<1>2. inbox[m] > 0 /\ row \notin claimed[p]
    BY DEF OnceInv, SweepInv
<1>3. row.at = stamp[m] \/ row.at = inbox[m]
    BY <1>1 DEF OnceInv, RowInv
<1>4. /\ stamp[m] \in Nat /\ inbox[m] \in Nat /\ Delay \in Nat /\ MatchWindow \in Nat
      /\ stamp[m] <= inbox[m] /\ inbox[m] <= stamp[m] + Delay
    BY <1>1, <1>2, ConstantsAssumption DEF OnceInv, InboxInv, TypeOK, Times
<1>5. inbox[m] - MatchWindow <= row.at /\ row.at <= inbox[m] + MatchWindow
    BY <1>3, <1>4
<1> QED
    BY <1>1, <1>2, <1>5 DEF Free, Near

\* The next candidate of a sweep is one copy.
LEMMA OldestIsOne ==
    ASSUME OnceInv, NEW p \in Passes, NEW m \in Oldest(p), NEW n \in Oldest(p)
    PROVE  m = n
<1>1. /\ m \in Messages /\ n \in Messages
      /\ inbox[m] \in Nat /\ inbox[n] \in Nat
      /\ inbox[m] > 0
    BY DEF OnceInv, SweepInv, TypeOK, Times, Oldest
<1>2. inbox[m] = inbox[n]
    BY <1>1 DEF Oldest
<1> QED
    BY <1>1, <1>2 DEF OnceInv, InboxInv

LEMMA OnceSweepStep ==
    ASSUME OneCopyEach, Delay <= MatchWindow, OnceInv,
           NEW p \in Passes, StartSweep(p) \/ SweepStep(p) \/ Stop(p)
    PROVE  OnceInv'
<1> USE DEF OnceInv
<1>0. TypeOK' /\ ConstantsAssumption
    BY TypeSweepStep, ConstantsAssumption
<1>1. UNCHANGED <<stamp, inbox, late>>
    BY DEF StartSweep, SweepStep, Stop, ReadInbox, Find, Match, Store, Finish,
           worldVars, history
<1>2. InboxInv'
    BY <1>1 DEF InboxInv
<1>3. CASE StartSweep(p)
    <2>1. /\ UNCHANGED <<rows, vain, todo, claimed>>
          /\ pc' = [pc EXCEPT ![p] = "read"] /\ pc[p] = "idle"
        BY <1>3 DEF StartSweep, Goto, history
    <2> QED
        BY <1>0, <1>1, <1>2, <2>1 DEF SweepInv, RowInv, Oldest, TypeOK
<1>4. CASE EndSweep(p) /\ UNCHANGED <<rows, vain>>
    <2>1. /\ todo' = [todo EXCEPT ![p] = {}]
          /\ claimed' = [claimed EXCEPT ![p] = {}]
          /\ pc' = [pc EXCEPT ![p] = "idle"]
        BY <1>4 DEF EndSweep, Goto
    <2>2. SweepInv'
        BY <1>1, <1>4, <2>1 DEF SweepInv, Oldest, TypeOK
    <2> QED
        BY <1>0, <1>1, <1>2, <1>4, <2>2 DEF RowInv
<1>5. CASE ReadInbox(p)
    <2>1. PICK read \in Since(cutoff[p]) :
              IF read = {}
              THEN EndSweep(p)
              ELSE /\ found' = [found EXCEPT ![p] = read]
                   /\ todo' = [todo EXCEPT ![p] = read]
                   /\ Goto(p, "find")
                   /\ UNCHANGED <<cutoff, claimed>>
        BY <1>5 DEF ReadInbox
    <2>2. UNCHANGED <<rows, vain>> /\ pc[p] = "read"
        BY <1>5 DEF ReadInbox
    <2>3. CASE read # {}
        <3>1. \A m \in read : inbox[m] > 0
            BY <2>1 DEF Since, TypeOK, Times
        <3>2. /\ todo' = [todo EXCEPT ![p] = read]
              /\ pc' = [pc EXCEPT ![p] = "find"]
              /\ UNCHANGED claimed
              /\ claimed[p] = {}
            BY <2>1, <2>2, <2>3 DEF Goto, SweepInv
        <3>3. SweepInv'
            BY <1>1, <2>2, <3>1, <3>2 DEF SweepInv, Oldest, TypeOK
        <3> QED
            BY <1>0, <1>1, <1>2, <2>2, <3>3 DEF RowInv
    <2> QED
        BY <1>4, <2>1, <2>2, <2>3
<1>6. ASSUME NEW m \in Messages, m \in todo[p], Examined(p, m),
             UNCHANGED vain,
             NEW row, row.text = Text(m),
             UNCHANGED claimed \/ Claim(p, row)
      PROVE  SweepInv'
    <2>1. /\ todo' = [todo EXCEPT ![p] = todo[p] \ {m}]
          /\ pc' = [pc EXCEPT ![p] = "find"]
        BY <1>6 DEF Examined, Goto
    <2>2. \A n \in todo'[p] : n \in todo[p] /\ row.text # Text(n)
        BY <1>6, <2>1 DEF OneCopyEach, TypeOK
    <2>3. \A r \in claimed'[p] : r \in claimed[p] \/ r = row
        BY <1>6 DEF Claim, TypeOK
    <2>4. \A q \in Passes : q # p =>
              pc'[q] = pc[q] /\ todo'[q] = todo[q] /\ claimed'[q] = claimed[q]
        BY <1>6, <2>1 DEF Claim, TypeOK
    <2>5. pc'[p] = "find"
        BY <2>1 DEF TypeOK
    <2> QED
        BY <1>1, <1>6, <2>2, <2>3, <2>4, <2>5 DEF SweepInv, Oldest
<1>7. ASSUME NEW stage \in {"match", "store"}, Goto(p, stage), UNCHANGED <<todo, claimed>>,
             vain \subseteq vain', pc[p] # "read", pc[p] # "idle",
             stage = "store" =>
                 \A n \in Oldest(p) : n \in Undated => Text(n) \in vain'
      PROVE  SweepInv'
    <2>1. /\ pc'[p] = stage
          /\ \A q \in Passes : q # p => pc'[q] = pc[q]
        BY <1>7 DEF Goto, TypeOK
    <2> QED
        BY <1>1, <1>7, <2>1 DEF SweepInv, Oldest
<1>8. CASE \E m \in Messages : Find(p, m)
    <2> PICK m \in Messages : Find(p, m)
        BY <1>8
    <2>1. UNCHANGED <<rows, vain>> /\ m \in todo[p] /\ pc[p] = "find"
        BY DEF Find, Oldest
    <2>2. RowOf(m, InboxTime(m)).text = Text(m)
        BY DEF RowOf
    <2>3. SweepInv'
        BY <1>6, <1>7, <2>1, <2>2 DEF Find
    <2> QED
        BY <1>0, <1>1, <1>2, <2>1, <2>3 DEF RowInv
<1>9. CASE \E m \in Messages : Match(p, m)
    <2> PICK m \in Messages : Match(p, m)
        BY <1>9
    <2>1. UNCHANGED rows /\ m \in Oldest(p) /\ m \in todo[p] /\ pc[p] = "match"
        BY DEF Match, Oldest
    <2>2. CASE Free(p, m) # {}
        <3>1. PICK row \in Free(p, m) : Claim(p, row) /\ Examined(p, m)
            BY <2>2 DEF Match
        <3>2. row.text = Text(m) /\ UNCHANGED vain
            BY <2>2 DEF Match, Free, Near
        <3>3. SweepInv'
            BY <1>6, <2>1, <3>1, <3>2
        <3> QED
            BY <1>0, <1>1, <1>2, <2>1, <3>2, <3>3 DEF RowInv
    <2>3. CASE Free(p, m) = {}
        <3>1. /\ Goto(p, "store")
              /\ vain' = IF m \in Undated THEN vain \cup {Text(m)} ELSE vain
              /\ UNCHANGED <<claimed, todo>>
            BY <2>3 DEF Match
        <3>2. \A n \in Oldest(p) : n \in Undated => Text(n) \in vain'
            BY <2>1, <3>1, OldestIsOne
        <3>3. SweepInv'
            BY <1>7, <2>1, <3>1, <3>2
        <3>4. \A n \in Messages : n \in Undated /\ Text(n) \in vain' =>
                  Text(n) \in vain \/ n = m
            BY <3>1 DEF OneCopyEach
        <3>5. m \in Undated => \A row \in rows : row.text # Text(m)
            BY <2>1, <2>3, FindsTheRow
        <3>6. inbox[m] > 0
            BY <2>1 DEF SweepInv
        <3>7. RowInv'
            BY <1>0, <1>1, <2>1, <3>1, <3>4, <3>5, <3>6 DEF RowInv
        <3> QED
            BY <1>0, <1>2, <3>3, <3>7
    <2> QED
        BY <2>2, <2>3
<1>10. CASE \E m \in Messages : Store(p, m)
    <2> PICK m \in Messages : Store(p, m)
        BY <1>10
    <2> DEFINE row == RowOf(m, InboxTime(m))
    <2>1. /\ UNCHANGED vain /\ m \in Oldest(p) /\ m \in todo[p] /\ pc[p] = "store"
          /\ rows' = rows \cup {row}
        BY DEF Store, Oldest
    <2>2. row.text = Text(m) /\ row.at = InboxTime(m)
        BY DEF RowOf
    <2>3. UNCHANGED claimed \/ Claim(p, row)
        BY DEF Store
    <2>4. Examined(p, m)
        BY DEF Store
    <2>5. inbox[m] > 0 /\ stamp[m] > 0
        BY <2>1 DEF SweepInv, InboxInv
    <2>6. m \in Undated => Text(m) \in vain /\ row.at = inbox[m]
        BY <2>1, <2>2 DEF SweepInv, InboxTime
    <2>7. m \notin Undated => row.at = stamp[m]
        BY <2>2 DEF InboxTime
    <2> HIDE DEF row
    <2>8. SweepInv'
        BY <1>6, <2>1, <2>2, <2>3, <2>4
    <2>9. \A n \in Messages : row.text = Text(n) => n = m
        BY <2>2 DEF OneCopyEach
    <2>10. RowInv'
        BY <1>0, <1>1, <2>1, <2>5, <2>6, <2>7, <2>9 DEF RowInv
    <2> QED
        BY <1>0, <1>2, <2>8, <2>10
<1>11. CASE Finish(p) \/ Stop(p)
    BY <1>4, <1>11 DEF Finish, Stop, history
<1> QED
    BY <1>3, <1>5, <1>8, <1>9, <1>10, <1>11 DEF SweepStep

\* The rows of a text are among the two its copy can have, and among one of them
\* unless the copy was broadcast too late.
LEMMA OnceCounts == OneCopyEach /\ OnceInv => StoredOnce
<1> SUFFICES ASSUME OneCopyEach, OnceInv, NEW text \in Texts
             PROVE  Cardinality({row \in rows : row.text = text})
                        <= Cardinality(Sent(text)) + Cardinality(Late(text))
    BY DEF StoredOnce
<1> DEFINE mine == {row \in rows : row.text = text}
<1> PICK m \in Messages : text = Text(m)
    BY DEF Texts
<1>1. /\ stamp[m] \in Nat
      /\ \A row \in mine : row \in Rows /\ stamp[m] > 0
    BY DEF OnceInv, TypeOK, RowInv, Times
<1>2. /\ Sent(text) = IF stamp[m] > 0 THEN {m} ELSE {}
      /\ Late(text) = IF m \in late THEN {m} ELSE {}
    BY DEF Sent, Late, OneCopyEach, OnceInv, TypeOK
<1>3. /\ Cardinality(Sent(text)) = IF stamp[m] > 0 THEN 1 ELSE 0
      /\ Cardinality(Late(text)) = IF m \in late THEN 1 ELSE 0
    BY <1>2, FS_EmptySet, FS_Singleton
<1>4. \A row \in mine : row = RowOf(m, stamp[m]) \/ row = RowOf(m, inbox[m])
    BY <1>1 DEF OnceInv, RowInv, RowOf, Rows
<1>5. CASE mine = {}
    BY <1>3, <1>5, FS_EmptySet
<1>6. CASE mine # {} /\ m \in late
    <2>1. PICK r1, r2 : mine \subseteq {r1} \cup {r2}
        BY <1>4
    <2> HIDE DEF mine
    <2>2. /\ IsFiniteSet({r1}) /\ Cardinality({r1}) = 1
          /\ IsFiniteSet({r2}) /\ Cardinality({r2}) = 1
        BY FS_Singleton
    <2>3. /\ IsFiniteSet({r1} \cup {r2})
          /\ Cardinality({r1} \cup {r2}) \in Nat
          /\ Cardinality({r1} \cup {r2}) <= 2
        <3>1. Cardinality({r1} \cup {r2}) =
                  IF r2 \in {r1} THEN Cardinality({r1}) ELSE Cardinality({r1}) + 1
            BY <2>2, FS_AddElement
        <3>2. IsFiniteSet({r1} \cup {r2})
            BY <2>2, FS_AddElement
        <3> QED
            BY <2>2, <3>1, <3>2
    <2>4. Cardinality(mine) \in Nat /\ Cardinality(mine) <= 2
        BY <2>1, <2>3, FS_Subset, FS_CardinalityType
    <2>5. stamp[m] > 0
        BY <1>1, <1>6
    <2> QED
        BY <1>3, <1>6, <2>4, <2>5 DEF mine
<1>7. CASE mine # {} /\ m \notin late
    <2>1. \E at \in Times : mine \subseteq {RowOf(m, at)}
        <3>1. CASE m \in Undated /\ Text(m) \in vain
            <4>1. \A row \in mine : row = RowOf(m, inbox[m])
                BY <1>1, <1>7, <3>1 DEF OnceInv, RowInv, RowOf, Rows
            <4> QED
                BY <4>1 DEF OnceInv, TypeOK
        <3>2. CASE ~(m \in Undated /\ Text(m) \in vain)
            <4>1. \A row \in mine : row = RowOf(m, stamp[m])
                BY <1>1, <3>2 DEF OnceInv, RowInv, RowOf, Rows
            <4> QED
                BY <4>1 DEF OnceInv, TypeOK
        <3> QED
            BY <3>1, <3>2
    <2>2. PICK only : mine \subseteq {only}
        BY <2>1
    <2> HIDE DEF mine
    <2>3. IsFiniteSet({only}) /\ Cardinality({only}) = 1
        BY FS_Singleton
    <2>4. Cardinality(mine) \in Nat /\ Cardinality(mine) <= 1
        BY <2>2, <2>3, FS_Subset, FS_CardinalityType
    <2>5. stamp[m] > 0
        BY <1>1, <1>7
    <2> QED
        BY <1>3, <1>7, <2>4, <2>5 DEF mine
<1> QED
    BY <1>5, <1>6, <1>7

\* An SMS becomes one row however often the broadcast and the sweeps of both chains
\* come across it, and whatever time the two have for it, as long as the platform
\* stores it within the match window and no other SMS has its text.
THEOREM SmsIsStoredOnce ==
    ASSUME OneCopyEach, Delay <= MatchWindow
    PROVE  Spec => []StoredOnce
<1>1. OnceInv /\ [Next]_vars => OnceInv'
    <2> SUFFICES ASSUME OnceInv, [Next]_vars
                 PROVE  OnceInv'
        OBVIOUS
    <2>1. CASE Next
        BY <2>1, OnceWorldStep, OnceSweepStep DEF Next
    <2>2. CASE UNCHANGED vars
        BY <2>2 DEF vars, OnceInv, TypeOK, InboxInv, SweepInv, RowInv, Oldest
    <2> QED
        BY <2>1, <2>2
<1>2. OnceInv => StoredOnce
    BY OnceCounts
<1> QED
    BY <1>1, <1>2, OnceInit, PTL DEF Spec

-----------------------------------------------------------------------------
(* The watermark, where no copy is dated an overlap behind the clock. *)

\* What the app was there for and lies an overlap or more behind t is dealt with.
SettledBy(t, done) ==
    \A m \in Messages : (/\ firstSweep > 0
                         /\ inbox[m] > firstSweep
                         /\ inbox[m] + Overlap <= t) => m \in done

\* The strengthening of SkipsNothing: a sweep has examined, or has still to
\* examine, what lies an overlap behind any of its candidates, so the watermark it
\* will set is as safe as the one that is there.  Until a sweep has read the
\* inbox there is nothing to deal with: what is there is older than that read.
WatermarkInv ==
    /\ TypeOK
    /\ watermark <= clock
    /\ firstSweep <= clock
    /\ firstSweep = 0 => watermark = 0 /\ \A p \in Passes : found[p] = {}
    /\ \A m \in Messages : inbox[m] <= clock
    /\ \A p \in Passes : cutoff[p] = 0 \/ cutoff[p] + Overlap <= clock
    /\ \A p \in Passes : \A n \in found[p] : inbox[n] > 0
    /\ SettledBy(watermark, examined)
    /\ \A p \in Passes : cutoff[p] > 0 => SettledBy(cutoff[p] + Overlap, examined)
    /\ \A p \in Passes : \A n \in found[p] : SettledBy(inbox[n], examined \cup todo[p])

LEMMA WatermarkInit == Init => WatermarkInv
BY TypeInit, ConstantsAssumption DEF Init, WatermarkInv, SettledBy

\* A copy that reaches the inbox is dated too late to lie behind a settled time.
LEMMA NewCopyIsAhead ==
    ASSUME Lag < Overlap, TypeOK, NEW m \in Messages, WriteInbox(m),
           NEW t \in Nat, t <= clock, NEW done, SettledBy(t, done)
    PROVE  \A n \in Messages : (/\ firstSweep > 0
                                /\ inbox'[n] > firstSweep
                                /\ inbox'[n] + Overlap <= t) => n \in done
<1> PICK at \in stamp[m]..clock :
        clock <= at + Lag /\ inbox' = [inbox EXCEPT ![m] = at]
    BY DEF WriteInbox
<1>1. at \in Nat /\ clock \in Nat
    BY ConstantsAssumption DEF TypeOK, Times
<1>2. inbox'[m] + Overlap > t
    BY <1>1, ConstantsAssumption DEF TypeOK
<1>3. \A n \in Messages : n # m => inbox'[n] = inbox[n]
    BY DEF TypeOK
<1> QED
    BY <1>2, <1>3, ConstantsAssumption DEF SettledBy, TypeOK, Times

LEMMA WatermarkWorldStep ==
    ASSUME Lag < Overlap, WatermarkInv,
           \/ Tick
           \/ \E m \in Messages : Send(m) \/ WriteInbox(m) \/ Broadcast(m)
           \/ \E row \in Rows : Prune(row)
    PROVE  WatermarkInv'
<1> USE DEF WatermarkInv
<1>0. TypeOK' /\ ConstantsAssumption
    BY TypeWorldStep, ConstantsAssumption
<1>1. CASE Tick
    BY <1>0, <1>1 DEF Tick, SettledBy, TypeOK, Times, sweepVars, history
<1>2. CASE \E m \in Messages : WriteInbox(m)
    <2> PICK m \in Messages : WriteInbox(m)
        BY <1>2
    <2>1. UNCHANGED <<clock, watermark, sweepVars, history>>
        BY DEF WriteInbox
    <2>2. PICK at \in stamp[m]..clock : inbox' = [inbox EXCEPT ![m] = at]
        BY DEF WriteInbox
    <2>3. inbox[m] = 0 /\ at > 0 /\ at <= clock
        BY <2>2 DEF WriteInbox, TypeOK, Times
    <2>4. \A n \in Messages : inbox'[n] <= clock
        BY <2>2, <2>3 DEF TypeOK
    <2>5. \A p \in Passes : \A n \in found[p] : n # m /\ inbox'[n] = inbox[n]
        BY <2>2, <2>3 DEF TypeOK
    <2>6. SettledBy(watermark, examined)'
        BY <2>1, NewCopyIsAhead DEF SettledBy, TypeOK, Times, history
    <2>7. \A p \in Passes : cutoff[p] > 0 => SettledBy(cutoff[p] + Overlap, examined)'
        <3> SUFFICES ASSUME NEW p \in Passes, cutoff[p] > 0
                     PROVE  SettledBy(cutoff[p] + Overlap, examined)'
            OBVIOUS
        <3>1. cutoff[p] + Overlap \in Nat /\ cutoff[p] + Overlap <= clock
            BY <1>0 DEF TypeOK, Times
        <3> QED
            BY <2>1, <3>1, NewCopyIsAhead DEF SettledBy, sweepVars, history
    <2>8. \A p \in Passes : \A n \in found[p] : SettledBy(inbox[n], examined \cup todo[p])'
        <3> SUFFICES ASSUME NEW p \in Passes, NEW n \in found[p]
                     PROVE  SettledBy(inbox[n], examined \cup todo[p])'
            OBVIOUS
        <3>1. n \in Messages /\ inbox[n] \in Nat /\ inbox[n] <= clock
            BY DEF TypeOK, Times
        <3>2. \A k \in Messages : (/\ firstSweep > 0
                                   /\ inbox'[k] > firstSweep
                                   /\ inbox'[k] + Overlap <= inbox[n])
                  => k \in examined \cup todo[p]
            BY <3>1, NewCopyIsAhead
        <3> QED
            BY <2>1, <2>5, <3>2 DEF SettledBy, sweepVars, history
    <2> QED
        BY <1>0, <2>1, <2>3, <2>4, <2>5, <2>6, <2>7, <2>8 DEF sweepVars, history
<1>3. CASE \/ \E m \in Messages : Send(m) \/ Broadcast(m)
           \/ \E row \in Rows : Prune(row)
    <2>1. UNCHANGED <<clock, inbox, watermark, sweepVars, examined, firstSweep>>
        BY <1>3 DEF Send, Broadcast, Prune, worldVars, history
    <2> QED
        BY <1>0, <2>1 DEF SettledBy, sweepVars
<1> QED
    BY <1>1, <1>2, <1>3

LEMMA WatermarkSweepStep ==
    ASSUME Lag < Overlap, LooksBackFarEnough, WatermarkInv,
           NEW p \in Passes, StartSweep(p) \/ SweepStep(p) \/ Stop(p)
    PROVE  WatermarkInv'
<1> USE DEF WatermarkInv
<1>0. TypeOK' /\ ConstantsAssumption
    BY TypeSweepStep, ConstantsAssumption
<1>1. UNCHANGED worldVars
    BY DEF StartSweep, SweepStep, Stop, ReadInbox, Find, Match, Store, Finish
<1>2. CASE StartSweep(p)
    <2> DEFINE from == IF watermark > 0 THEN watermark ELSE clock - Lookback
    <2>1. cutoff' = [cutoff EXCEPT ![p] = NonNegative(from - Overlap)]
        BY <1>2 DEF StartSweep
    <2>2. \/ cutoff'[p] = 0
          \/ watermark > 0 /\ cutoff'[p] + Overlap = watermark
          \/ /\ watermark = 0
             /\ cutoff'[p] + Overlap <= clock
             /\ firstSweep > 0 => cutoff'[p] + Overlap <= firstSweep
        BY <1>0, <2>1 DEF NonNegative, LooksBackFarEnough, TypeOK, Times
    <2>3. \A q \in Passes : q # p => cutoff'[q] = cutoff[q]
        BY <2>1 DEF TypeOK
    <2> HIDE DEF from
    <2>4. cutoff'[p] > 0 => SettledBy(cutoff'[p] + Overlap, examined)
        BY <1>0, <2>2 DEF SettledBy, TypeOK, Times
    <2>5. \A q \in Passes : cutoff'[q] > 0 => SettledBy(cutoff'[q] + Overlap, examined)
        BY <2>3, <2>4
    <2>6. \A q \in Passes : cutoff'[q] = 0 \/ cutoff'[q] + Overlap <= clock
        BY <1>0, <2>2, <2>3 DEF TypeOK, Times
    <2> QED
        BY <1>0, <1>1, <1>2, <2>5, <2>6 DEF StartSweep, SettledBy, worldVars, history
<1>3. CASE ReadInbox(p)
    <2>1. PICK read \in Since(cutoff[p]) :
              IF read = {}
              THEN EndSweep(p)
              ELSE /\ found' = [found EXCEPT ![p] = read]
                   /\ todo' = [todo EXCEPT ![p] = read]
                   /\ Goto(p, "find")
                   /\ UNCHANGED <<cutoff, claimed>>
        BY <1>3 DEF ReadInbox
    <2>2. /\ UNCHANGED <<watermark, examined, clock, inbox>>
          /\ firstSweep' = IF firstSweep = 0 THEN clock ELSE firstSweep
        BY <1>1, <1>3 DEF ReadInbox, worldVars
    <2>3. /\ found'[p] = read /\ todo'[p] = read
          /\ \A q \in Passes : q # p => found'[q] = found[q] /\ todo'[q] = todo[q]
          /\ \A q \in Passes : cutoff'[q] \in {0, cutoff[q]}
        BY <2>1 DEF EndSweep, TypeOK
    <2>4. \A n \in read : n \in Messages /\ inbox[n] > cutoff[p]
        BY <2>1 DEF Since
    <2>5. \A q \in Passes : \A n \in found'[q] : inbox[n] > 0
        BY <2>3, <2>4 DEF TypeOK, Times
    <2>6. firstSweep' > 0 /\ firstSweep' <= clock
        BY <1>0, <2>2 DEF TypeOK, Times
    <2>7. CASE firstSweep = 0
        <3>1. \A m \in Messages : ~(inbox'[m] > firstSweep')
            BY <1>0, <2>2, <2>7 DEF TypeOK, Times
        <3>2. /\ SettledBy(watermark, examined)'
              /\ \A q \in Passes : SettledBy(cutoff[q] + Overlap, examined)'
              /\ \A q \in Passes : \A n \in found'[q] :
                    SettledBy(inbox[n], examined \cup todo[q])'
            BY <3>1 DEF SettledBy
        <3> QED
            BY <1>0, <2>2, <2>3, <2>5, <2>6, <3>2
    <2>8. CASE firstSweep # 0
        <3>0. firstSweep > 0 /\ UNCHANGED firstSweep
            BY <2>2, <2>8 DEF TypeOK, Times
        <3>1. \A n \in read, m \in Messages :
                  inbox[m] > cutoff[p] /\ m \notin read => inbox[n] <= inbox[m]
            BY <2>1 DEF Since
        <3>2. ASSUME NEW n \in read
              PROVE  SettledBy(inbox[n], examined \cup read)
            <4> SUFFICES ASSUME NEW m \in Messages, inbox[m] > firstSweep,
                                inbox[m] + Overlap <= inbox[n], m \notin read
                         PROVE  m \in examined
                BY DEF SettledBy
            <4>1. inbox[m] <= cutoff[p]
                BY <1>0, <2>4, <3>1 DEF TypeOK, Times
            <4>2. cutoff[p] > 0 /\ inbox[m] + Overlap <= cutoff[p] + Overlap
                BY <1>0, <3>0, <4>1 DEF TypeOK, Times
            <4> QED
                BY <3>0, <4>2 DEF SettledBy
        <3>3. \A q \in Passes : \A n \in found'[q] :
                  SettledBy(inbox[n], examined \cup todo'[q])
            BY <2>3, <3>2
        <3>4. \A q \in Passes : \A n \in found'[q] :
                  SettledBy(inbox[n], examined \cup todo[q])'
            BY <2>2, <3>0, <3>3 DEF SettledBy
        <3>5. SettledBy(watermark, examined)'
            BY <2>2, <3>0 DEF SettledBy
        <3>6. \A q \in Passes : cutoff'[q] > 0 => SettledBy(cutoff[q] + Overlap, examined)'
            BY <2>2, <2>3, <3>0 DEF SettledBy
        <3>7. \A q \in Passes : cutoff'[q] = 0 \/ cutoff'[q] + Overlap <= clock
            BY <2>3
        <3>8. \A q \in Passes : (cutoff[q] > 0 => SettledBy(cutoff[q] + Overlap, examined))'
            BY <3>6
        <3>9. /\ (watermark <= clock)' /\ (firstSweep <= clock)'
              /\ (\A m \in Messages : inbox[m] <= clock)'
              /\ (\A q \in Passes : cutoff[q] = 0 \/ cutoff[q] + Overlap <= clock)'
              /\ (\A q \in Passes : \A n \in found[q] : inbox[n] > 0)'
            BY <2>2, <2>5, <2>6, <3>7
        <3>10. ~ (firstSweep = 0)'
            BY <2>6
        <3> QED
            BY <1>0, <3>4, <3>5, <3>8, <3>9, <3>10
    <2> QED
        BY <2>7, <2>8
<1>4. CASE \E m \in Messages : Find(p, m) \/ Match(p, m) \/ Store(p, m)
    <2> PICK m \in Messages : Find(p, m) \/ Match(p, m) \/ Store(p, m)
        BY <1>4
    <2>1. UNCHANGED <<watermark, cutoff, found, firstSweep>>
        BY DEF Find, Match, Store
    <2>2. examined \subseteq examined'
        BY DEF Find, Match, Store, Examined
    <2>3. \A q \in Passes : examined \cup todo[q] \subseteq examined' \cup todo'[q]
        BY DEF Find, Match, Store, Examined, TypeOK
    <2> QED
        BY <1>0, <1>1, <2>1, <2>2, <2>3 DEF SettledBy, worldVars
<1>5. CASE Finish(p)
    <2>1. PICK n \in found[p] : watermark' = inbox[n]
        BY <1>5 DEF Finish
    <2>2. n \in Messages /\ firstSweep > 0 /\ SettledBy(watermark', examined)
        BY <1>0, <1>5, <2>1 DEF Finish, TypeOK, Times, SettledBy
    <2> QED
        BY <1>0, <1>1, <1>5, <2>1, <2>2
        DEF Finish, EndSweep, SettledBy, TypeOK, worldVars, history
<1>6. CASE Stop(p)
    BY <1>0, <1>1, <1>6 DEF Stop, EndSweep, SettledBy, TypeOK, worldVars, history
<1> QED
    BY <1>2, <1>3, <1>4, <1>5, <1>6 DEF SweepStep

\* The watermark never steps over a copy the app was there for, whatever the scan
\* limit cuts off, whichever sweeps fail and however two of them interleave, if the
\* overlap covers how late copies are dated and a watermark is set in time.
THEOREM WatermarkSkipsNothing ==
    ASSUME Lag < Overlap
    PROVE  Spec /\ []LooksBackFarEnough => SkipsNothing
<1>1. WatermarkInv /\ LooksBackFarEnough /\ [Next]_vars => WatermarkInv'
    <2> SUFFICES ASSUME WatermarkInv, LooksBackFarEnough, [Next]_vars
                 PROVE  WatermarkInv'
        OBVIOUS
    <2>1. CASE Next
        BY <2>1, WatermarkWorldStep, WatermarkSweepStep DEF Next
    <2>2. CASE UNCHANGED vars
        <3>1. TypeOK'
            BY <2>2 DEF vars, TypeOK, WatermarkInv
        <3> QED
            BY <2>2, <3>1 DEF vars, WatermarkInv, SettledBy
    <2> QED
        BY <2>1, <2>2
<1> DEFINE Skips == \A p \in Passes : StartSweep(p) =>
                      \A m \in Messages : (/\ firstSweep > 0
                                           /\ inbox[m] > firstSweep
                                           /\ inbox[m] <= cutoff'[p]) => m \in examined
<1>2. WatermarkInv /\ LooksBackFarEnough => Skips
    <2> SUFFICES ASSUME WatermarkInv, LooksBackFarEnough,
                        NEW p \in Passes, StartSweep(p), NEW m \in Messages,
                        firstSweep > 0, inbox[m] > firstSweep, inbox[m] <= cutoff'[p]
                 PROVE  m \in examined
        OBVIOUS
    <2> DEFINE from == IF watermark > 0 THEN watermark ELSE clock - Lookback
    <2>1. cutoff'[p] = NonNegative(from - Overlap)
        BY DEF StartSweep, WatermarkInv, TypeOK
    <2>2. inbox[m] + Overlap <= watermark
        BY <2>1, ConstantsAssumption
        DEF NonNegative, LooksBackFarEnough, WatermarkInv, TypeOK, Times
    <2> QED
        BY <2>2 DEF WatermarkInv, SettledBy
<1>3. Spec /\ []LooksBackFarEnough => []WatermarkInv
    BY <1>1, WatermarkInit, PTL DEF Spec
<1>4. Spec /\ []LooksBackFarEnough => [][Skips]_vars
    BY <1>2, <1>3, PTL DEF Spec
<1> QED
    BY <1>4 DEF SkipsNothing
=============================================================================
