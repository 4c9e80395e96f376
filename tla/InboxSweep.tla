------------------------------ MODULE InboxSweep ------------------------------
(***************************************************************************)
(* How an SMS becomes a row: the broadcast (SmsReceiver), the platform's   *)
(* own inbox (SmsInbox), and TsunagiRepository.backfill(), which compares  *)
(* the two at the start of every pass.  SyncEngine has this sweep as one   *)
(* action; here each candidate costs the DAO calls it costs in the code.   *)
(*                                                                         *)
(* A row's id is derived from its text and its timestamp, so a row is the  *)
(* pair of them.  A text stands for sender and body.  Two copies with one  *)
(* text are a message and its resend.                                      *)
(***************************************************************************)
EXTENDS Integers, FiniteSets

CONSTANTS
    Messages,    \* copies the network may deliver
    Resends,     \* the copies that all carry one text; the others have their own
    Undated,     \* copies whose DATE_SENT the inbox leaves at zero
    Passes,      \* the chains that may be sweeping
    Overlap,     \* BACKFILL_OVERLAP_MILLIS
    MatchWindow, \* BACKFILL_MATCH_WINDOW_MILLIS
    Lookback,    \* INITIAL_BACKFILL_LOOKBACK_MILLIS
    Limit,       \* BACKFILL_SCAN_LIMIT
    Retention,   \* retentionDays: the age at which a row may be pruned
    Delay,       \* bound: how late a copy is delivered to the phone
    Lag,         \* bound: how far behind the clock its DATE may be
    MaxClock     \* bound: the last moment

ASSUME ConstantsAssumption ==
    /\ Resends \subseteq Messages
    /\ Undated \subseteq Messages
    /\ IsFiniteSet(Messages)
    /\ {Overlap, MatchWindow, Lookback, Retention, Delay, Lag} \subseteq Nat
    /\ {Limit, MaxClock} \subseteq Nat \ {0}

VARIABLES
    clock,       \* now
    stamp,       \* service centre time of each copy, 0 before it is sent
    inbox,       \* DATE of each copy in the platform inbox, 0 before it is there
    heard,       \* copies whose broadcast has been stored
    rows,        \* the message table
    watermark,   \* lastBackfillAt, 0 when null
    pc,          \* where each sweep is
    cutoff,      \* the time each sweep reads from
    found,       \* the candidates of each sweep
    todo,        \* those it has not examined yet
    claimed,     \* the rows each sweep has accounted for
    ever,        \* history: rows ever stored
    examined,    \* history: copies a sweep has dealt with
    firstSweep,  \* history: when a sweep first read the inbox, 0 before
    vain,        \* history: texts of undated copies a sweep found no row for
    late         \* history: copies whose broadcast came only after that

worldVars == <<clock, stamp, inbox>>
sweepVars == <<pc, cutoff, found, todo, claimed>>
history == <<ever, examined, firstSweep, vain, late>>
vars == <<clock, stamp, inbox, heard, rows, watermark, pc, cutoff, found, todo, claimed,
          ever, examined, firstSweep, vain, late>>

Times == 0..MaxClock
Text(m) == IF m \in Resends THEN "resent" ELSE m
Texts == {Text(m) : m \in Messages}
Rows == [text : Texts, at : Times]
Stages == {"idle", "read", "find", "match", "store"}

\* MessageIdentity.of: one row per text and timestamp.
RowOf(m, at) == [text |-> Text(m), at |-> at]

\* The time the inbox reports: DATE_SENT, or DATE where that was left at zero.
InboxTime(m) == IF m \in Undated THEN inbox[m] ELSE stamp[m]

Init ==
    /\ clock = 1
    /\ stamp = [m \in Messages |-> 0]
    /\ inbox = [m \in Messages |-> 0]
    /\ heard = {}
    /\ rows = {}
    /\ watermark = 0
    /\ pc = [p \in Passes |-> "idle"]
    /\ cutoff = [p \in Passes |-> 0]
    /\ found = [p \in Passes |-> {}]
    /\ todo = [p \in Passes |-> {}]
    /\ claimed = [p \in Passes |-> {}]
    /\ ever = {}
    /\ examined = {}
    /\ firstSweep = 0
    /\ vain = {}
    /\ late = {}
-----------------------------------------------------------------------------
(* The network, the platform and retention. *)

Tick ==
    /\ clock < MaxClock
    /\ clock' = clock + 1
    /\ UNCHANGED <<stamp, inbox, heard, rows, watermark, sweepVars, history>>

Send(m) ==
    /\ stamp[m] = 0
    /\ stamp' = [stamp EXCEPT ![m] = clock]
    /\ UNCHANGED <<clock, inbox, heard, rows, watermark, sweepVars, history>>

\* The platform stores the copy, dated now or a little behind; DATE is in
\* milliseconds, which no two copies share.
WriteInbox(m) ==
    /\ stamp[m] > 0
    /\ inbox[m] = 0
    /\ clock <= stamp[m] + Delay
    /\ \E at \in stamp[m]..clock :
          /\ clock <= at + Lag
          /\ \A n \in Messages : inbox[n] # at
          /\ inbox' = [inbox EXCEPT ![m] = at]
    /\ UNCHANGED <<clock, stamp, heard, rows, watermark, sweepVars, history>>

\* captureSms from the receiver, before or after the platform stores the copy.  It
\* may never happen: no broadcast reaches a stopped app, and a process may die
\* before the write.
Broadcast(m) ==
    /\ stamp[m] > 0
    /\ m \notin heard
    /\ heard' = heard \cup {m}
    /\ rows' = rows \cup {RowOf(m, stamp[m])}
    /\ ever' = ever \cup rows'
    /\ late' = IF Text(m) \in vain THEN late \cup {m} ELSE late
    /\ UNCHANGED <<worldVars, watermark, sweepVars, examined, firstSweep, vain>>

\* A row uploaded and past retention is deleted (SyncEngine has when).
Prune(row) ==
    /\ row \in rows
    /\ clock > row.at + Retention
    /\ rows' = rows \ {row}
    /\ UNCHANGED <<worldVars, heard, watermark, sweepVars, history>>
-----------------------------------------------------------------------------
(* backfill(). *)

Goto(p, stage) == pc' = [pc EXCEPT ![p] = stage]

EndSweep(p) ==
    /\ Goto(p, "idle")
    /\ cutoff' = [cutoff EXCEPT ![p] = 0]
    /\ found' = [found EXCEPT ![p] = {}]
    /\ todo' = [todo EXCEPT ![p] = {}]
    /\ claimed' = [claimed EXCEPT ![p] = {}]

\* Faulty: no coerceAtLeast.
Unclamped(i) == i

NonNegative(i) == IF i < 0 THEN 0 ELSE i

\* Faulty: nothing already swept is read again.
StartSweepAtWatermark(p) ==
    /\ pc[p] = "idle"
    /\ LET from == IF watermark > 0 THEN watermark ELSE clock - Lookback
       IN  cutoff' = [cutoff EXCEPT ![p] = NonNegative(from)]
    /\ Goto(p, "read")
    /\ UNCHANGED <<worldVars, heard, rows, watermark, found, todo, claimed, history>>

\* Without a watermark the sweep looks back a fixed time from now.
StartSweep(p) ==
    /\ pc[p] = "idle"
    /\ LET from == IF watermark > 0 THEN watermark ELSE clock - Lookback
       IN  cutoff' = [cutoff EXCEPT ![p] = NonNegative(from - Overlap)]
    /\ Goto(p, "read")
    /\ UNCHANGED <<worldVars, heard, rows, watermark, found, todo, claimed, history>>

\* inbox.since: what was stored after `from`, oldest first, at most Limit.
Since(from) ==
    LET after == {m \in Messages : inbox[m] > from}
        size  == IF Cardinality(after) < Limit THEN Cardinality(after) ELSE Limit
    IN  {read \in SUBSET after :
            /\ Cardinality(read) = size
            /\ \A m \in read, n \in after \ read : inbox[m] <= inbox[n]}

\* recordSweep, and the early return when there is nothing to examine.
ReadInbox(p) ==
    /\ pc[p] = "read"
    /\ firstSweep' = IF firstSweep = 0 THEN clock ELSE firstSweep
    /\ \E read \in Since(cutoff[p]) :
          IF read = {}
          THEN EndSweep(p)
          ELSE /\ found' = [found EXCEPT ![p] = read]
               /\ todo' = [todo EXCEPT ![p] = read]
               /\ Goto(p, "find")
               /\ UNCHANGED <<cutoff, claimed>>
    /\ UNCHANGED <<worldVars, heard, rows, watermark, ever, examined, vain, late>>

\* The candidate a sweep is at: the oldest it has not examined.
Oldest(p) == {m \in todo[p] : \A n \in todo[p] : inbox[m] <= inbox[n]}

\* On to the next candidate, or to the end.
Examined(p, m) ==
    /\ examined' = examined \cup {m}
    /\ todo' = [todo EXCEPT ![p] = todo[p] \ {m}]
    /\ Goto(p, "find")

Claim(p, row) == claimed' = [claimed EXCEPT ![p] = claimed[p] \cup {row}]

\* find(id): the broadcast and the inbox agree on the timestamp.
Find(p, m) ==
    /\ pc[p] = "find"
    /\ m \in Oldest(p)
    /\ IF RowOf(m, InboxTime(m)) \in rows
       THEN Claim(p, RowOf(m, InboxTime(m))) /\ Examined(p, m)
       ELSE Goto(p, "match") /\ UNCHANGED <<claimed, todo, examined>>
    /\ UNCHANGED <<worldVars, heard, rows, watermark, cutoff, found, ever, firstSweep,
                   vain, late>>

\* Faulty: rows the broadcast may have stored later, but not earlier.
NearAfter(m) ==
    {row \in rows : /\ row.text = Text(m)
                    /\ InboxTime(m) <= row.at
                    /\ row.at <= InboxTime(m) + MatchWindow}

\* idsNear: rows with this text, about this time.
Near(m) ==
    {row \in rows : /\ row.text = Text(m)
                    /\ InboxTime(m) - MatchWindow <= row.at
                    /\ row.at <= InboxTime(m) + MatchWindow}

\* A row an earlier candidate has claimed cannot stand for this one too.
Free(p, m) == Near(m) \ claimed[p]

\* The oldest free row near the candidate stands for it.
Match(p, m) ==
    /\ pc[p] = "match"
    /\ m \in Oldest(p)
    /\ IF Free(p, m) # {}
       THEN /\ \E row \in Free(p, m) :
                  (\A other \in Free(p, m) : row.at <= other.at) /\ Claim(p, row)
            /\ Examined(p, m)
            /\ UNCHANGED vain
       ELSE /\ Goto(p, "store")
            /\ vain' = IF m \in Undated THEN vain \cup {Text(m)} ELSE vain
            /\ UNCHANGED <<claimed, todo, examined>>
    /\ UNCHANGED <<worldVars, heard, rows, watermark, cutoff, found, ever, firstSweep, late>>

\* captureSms: the row is claimed only if this insert was the one that stored it.
Store(p, m) ==
    /\ pc[p] = "store"
    /\ m \in Oldest(p)
    /\ rows' = rows \cup {RowOf(m, InboxTime(m))}
    /\ ever' = ever \cup rows'
    /\ IF rows' = rows THEN UNCHANGED claimed ELSE Claim(p, RowOf(m, InboxTime(m)))
    /\ Examined(p, m)
    /\ UNCHANGED <<worldVars, heard, watermark, cutoff, found, firstSweep, vain, late>>

\* The watermark moves to the newest candidate read, whatever it was before.
Finish(p) ==
    /\ pc[p] = "find"
    /\ todo[p] = {}
    /\ \E m \in found[p] :
          /\ \A n \in found[p] : inbox[n] <= inbox[m]
          /\ watermark' = inbox[m]
    /\ EndSweep(p)
    /\ UNCHANGED <<worldVars, heard, rows, history>>

\* The inbox is unreadable, the sweep fails, or the pass is stopped.
Stop(p) ==
    /\ pc[p] # "idle"
    /\ EndSweep(p)
    /\ UNCHANGED <<worldVars, heard, rows, watermark, history>>
-----------------------------------------------------------------------------
SweepStep(p) ==
    \/ ReadInbox(p)
    \/ \E m \in Messages : Find(p, m) \/ Match(p, m) \/ Store(p, m)
    \/ Finish(p)

Next ==
    \/ Tick
    \/ \E m \in Messages : Send(m) \/ WriteInbox(m) \/ Broadcast(m)
    \/ \E row \in Rows : Prune(row)
    \/ \E p \in Passes : StartSweep(p) \/ SweepStep(p) \/ Stop(p)

Spec == Init /\ [][Next]_vars
-----------------------------------------------------------------------------
(* Types. *)

\* Every variable has its type (Entities.kt, SettingsStore.kt, locals of backfill).
TypeOK ==
    /\ clock \in 1..MaxClock
    /\ stamp \in [Messages -> Times]
    /\ inbox \in [Messages -> Times]
    /\ heard \subseteq Messages
    /\ rows \subseteq Rows
    /\ watermark \in Times
    /\ pc \in [Passes -> Stages]
    /\ cutoff \in [Passes -> Times]
    /\ found \in [Passes -> SUBSET Messages]
    /\ todo \in [Passes -> SUBSET Messages]
    /\ claimed \in [Passes -> SUBSET Rows]
    /\ ever \subseteq Rows
    /\ examined \subseteq Messages
    /\ firstSweep \in Times
    /\ vain \subseteq Texts
    /\ late \subseteq Messages
-----------------------------------------------------------------------------
(* Safety. *)

Sent(text) == {m \in Messages : Text(m) = text /\ stamp[m] > 0}
Late(text) == {m \in late : Text(m) = text}

\* An SMS seen by the broadcast and by the sweeps of both chains becomes one row,
\* whatever time the two have for it: a text never has more rows than copies of it
\* were sent.  The one thing that doubles a row is a broadcast that comes only after
\* a sweep has looked for an undated copy in vain.
StoredOnce ==
    \A text \in Texts :
        Cardinality({row \in rows : row.text = text})
            <= Cardinality(Sent(text)) + Cardinality(Late(text))

Stored(text) == {row \in ever : row.text = text}

\* The copies of a text that were broadcast or that a sweep has dealt with, one for
\* each timestamp.
Seen(text) == {stamp[m] : m \in {n \in heard \cup examined : Text(n) = text}}

\* A resend with identical text is never swallowed by the copy ahead of it: every
\* copy the app has seen got a row of its own (storeIfMissing, and the comment of
\* idsNear).
ResendsKeptApart ==
    \A text \in Texts : Cardinality(Stored(text)) >= Cardinality(Seen(text))

\* A sweep starts behind everything no sweep has examined yet: the watermark
\* never steps over a copy stored after the app first looked.
SkipsNothing ==
    [][\A p \in Passes : StartSweep(p) =>
         \A m \in Messages : (/\ firstSweep > 0
                              /\ inbox[m] > firstSweep
                              /\ inbox[m] <= cutoff'[p]) => m \in examined]_vars

\* What SkipsNothing needs of a phone that has not set a watermark yet: it is not
\* longer since the app first looked than a sweep looks back.
LooksBackFarEnough == firstSweep > 0 /\ watermark = 0 => clock <= firstSweep + Lookback
=============================================================================
