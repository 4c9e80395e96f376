--------------------------- MODULE MessageQueries ---------------------------
(***************************************************************************)
(* Reading many messages while others write: GET /messages/export streams  *)
(* chunk after chunk by keyset, and a client of GET /messages or /search   *)
(* walks the pages by offset (MessageRepository.iter_filtered, list).      *)
(* Every chunk and every page is a statement of its own, and at READ       *)
(* COMMITTED sees what is committed by then: uploads, backlogs with old    *)
(* received_at among them, and clear_messages.                             *)
(***************************************************************************)
EXTENDS Naturals, FiniteSets

CONSTANTS
    Messages,    \* ids, as numbers: the second key of every order
    ReceivedAt,  \* messages.received_at of each; texts of one second tie
    Device,      \* the device of each
    Matching,    \* those the filters of the request let through
    Chunk        \* rows of one chunk of an export, and of one page

ASSUME QueriesAssumption ==
    /\ IsFiniteSet(Messages) /\ Messages \subseteq Nat
    /\ ReceivedAt \in [Messages -> Nat]
    /\ Matching \subseteq Messages
    /\ Chunk \in Nat \ {0}

VARIABLES
    table,    \* committed rows
    reader,   \* what is being read, or has been
    cursor,   \* an export's last row, none before the first chunk
    offset,   \* a walk's offset
    given,    \* what the client has been given
    again,    \* something was given twice, or out of order
    steady,   \* history: rows that have been there since the reading began
    shrunk    \* history: rows were deleted while it lasted

vars == <<table, reader, cursor, offset, given, again, steady, shrunk>>

None == {}  \* no cursor yet; otherwise a set of one row

Init ==
    /\ table \in SUBSET Messages
    /\ reader = "idle" /\ cursor = None /\ offset = 0
    /\ given = {} /\ again = FALSE /\ steady = {} /\ shrunk = FALSE

\* Oldest first, ties by id.
Before(m, n) ==
    ReceivedAt[m] < ReceivedAt[n] \/ (ReceivedAt[m] = ReceivedAt[n] /\ m < n)

\* Newest first, ties by id.
Above(m, n) ==
    ReceivedAt[m] > ReceivedAt[n] \/ (ReceivedAt[m] = ReceivedAt[n] /\ m < n)
-----------------------------------------------------------------------------
(* The writers. *)

\* An upload commits one row or several; one at a time is as good.
Upload(m) ==
    /\ m \notin table
    /\ table' = table \cup {m}
    /\ UNCHANGED <<reader, cursor, offset, given, again, steady, shrunk>>

\* delete_for_device.
Clear(d) ==
    LET gone == {m \in table : Device[m] = d} IN
    /\ gone # {}
    /\ table' = table \ gone
    /\ steady' = steady \ gone
    /\ shrunk' = TRUE
    /\ UNCHANGED <<reader, cursor, offset, given, again>>
-----------------------------------------------------------------------------
(* The readers. *)

Start(what) ==
    /\ reader = "idle"
    /\ reader' = what
    /\ steady' = table /\ shrunk' = FALSE
    /\ UNCHANGED <<table, cursor, offset, given, again>>

\* Faulty: the cursor compares received_at alone.
AfterByTime == {m \in table \cap Matching : \A c \in cursor : ReceivedAt[m] > ReceivedAt[c]}

\* The keyset condition: (received_at, id) > cursor.
After == {m \in table \cap Matching : \A c \in cursor : Before(c, m)}

First(rows) == {m \in rows : Cardinality({n \in rows : Before(n, m)}) < Chunk}

Give(rows) ==
    /\ given' = given \cup rows
    /\ again' = (again \/ \E m \in rows : \E n \in given : ~ Before(n, m))

\* Faulty: the whole chunk becomes the cursor.
ExportChunkByAll ==
    /\ reader = "export"
    /\ LET rows == First(After) IN
        /\ Give(rows)
        /\ IF Cardinality(rows) < Chunk THEN reader' = "exported" /\ UNCHANGED cursor
           ELSE /\ cursor' = rows
                /\ UNCHANGED reader
    /\ UNCHANGED <<table, offset, steady, shrunk>>

\* One turn of iter_filtered; a chunk that is not full is the last.
ExportChunk ==
    /\ reader = "export"
    /\ LET rows == First(After) IN
        /\ Give(rows)
        /\ IF Cardinality(rows) < Chunk THEN reader' = "exported" /\ UNCHANGED cursor
           ELSE /\ cursor' = {m \in rows : \A n \in rows : ~ Before(m, n)}
                /\ UNCHANGED reader
    /\ UNCHANGED <<table, offset, steady, shrunk>>

\* Faulty: the filters are applied to the page, not to the table.
PageThenFilter ==
    Matching \cap {m \in table : Cardinality({n \in table : Above(n, m)}) \in offset..(offset + Chunk - 1)}

\* MessageRepository.list, newest first.
Page ==
    LET rows == table \cap Matching IN
    {m \in rows : Cardinality({n \in rows : Above(n, m)}) \in offset..(offset + Chunk - 1)}

\* Faulty: a full page is followed by the same page.
WalkInPlace ==
    /\ reader = "walk"
    /\ given' = given \cup Page
    /\ reader' = IF Cardinality(Page) < Chunk THEN "walked" ELSE "walk"
    /\ UNCHANGED <<table, cursor, offset, again, steady, shrunk>>

\* The client goes on to the next offset until a page is not full.
WalkPage ==
    /\ reader = "walk"
    /\ given' = given \cup Page
    /\ IF Cardinality(Page) < Chunk THEN reader' = "walked" /\ UNCHANGED offset
       ELSE offset' = offset + Chunk /\ UNCHANGED reader
    /\ UNCHANGED <<table, cursor, again, steady, shrunk>>

Next ==
    \/ \E m \in Messages : Upload(m)
    \/ \E d \in {Device[m] : m \in Messages} : Clear(d)
    \/ \E what \in {"export", "walk"} : Start(what)
    \/ ExportChunk \/ WalkPage

Spec == Init /\ [][Next]_vars

\* The server streams as long as the client reads; the client asks for page after page.
FairSpec == Spec /\ WF_vars(ExportChunk) /\ WF_vars(WalkPage)
-----------------------------------------------------------------------------
(* Properties. *)

\* Every variable has its type.
TypeOK ==
    /\ table \subseteq Messages /\ given \subseteq Messages /\ steady \subseteq Messages
    /\ reader \in {"idle", "export", "exported", "walk", "walked"}
    /\ cursor \subseteq Messages /\ Cardinality(cursor) <= 1
    /\ offset \in Nat /\ again \in BOOLEAN /\ shrunk \in BOOLEAN

\* "A message arriving mid-export cannot shift rows onto a page already sent"
\* (repositories.py, iter_filtered): an export gives every matching row that was
\* there throughout, oldest first and none twice, whatever is stored or deleted
\* while it runs.
ExportIsComplete ==
    /\ reader \in {"export", "exported"} => ~ again
    /\ reader = "exported" => steady \cap Matching \subseteq given

\* A walk over the pages may give a row twice, but misses none that was there
\* throughout, unless rows were deleted meanwhile.
WalkMissesNothing ==
    reader = "walked" /\ ~ shrunk => steady \cap Matching \subseteq given

\* Reads that race with uploads and deletions end: every chunk and every page gets the
\* client on.  That needs the uploads to end, as they do here, where Messages is
\* finite: an export has no upper bound (iter_filtered), and new rows push a walk's
\* old ones ahead of its offset, so beside endless uploads neither need end.
EveryReadEnds == reader \in {"export", "walk"} ~> reader \in {"exported", "walked"}
=============================================================================
