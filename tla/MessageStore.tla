---------------------------- MODULE MessageStore ----------------------------
(***************************************************************************)
(* The phone's message table (data/local/Daos.kt, Entities.kt): one        *)
(* operator per statement of MessageDao.  A statement is atomic; whatever  *)
(* is interleaved is interleaved between statements.                       *)
(*                                                                         *)
(* A table is a function from messages to a status.  ABSENT and PRUNED are *)
(* the two ways of having no row: never captured, and captured and later   *)
(* deleted by retention.  A statement "WHERE id IN (:ids)" changes nothing *)
(* for an id that has no row, and sets the status whatever it was before.  *)
(***************************************************************************)
EXTENDS Naturals, FiniteSets

CONSTANT Messages

SyncStatus == {"PENDING", "UPLOADING", "SYNCED", "FAILED", "QUARANTINED", "EXCLUDED"}
NoRow == {"ABSENT", "PRUNED"}
Tables == [Messages -> SyncStatus \cup NoRow]

\* The rows pendingBatch, excludeReceivedBetween and pendingCount look at.
Queued(rows) == {m \in Messages : rows[m] \in {"PENDING", "FAILED"}}

\* The UPDATE all four status statements come down to.
SetStatus(rows, ids, status) ==
    [m \in Messages |-> IF m \in ids /\ rows[m] \notin NoRow THEN status ELSE rows[m]]

\* INSERT OR IGNORE: a row already stored under this id wins.
Insert(rows, m) == IF rows[m] \in NoRow THEN [rows EXCEPT ![m] = "PENDING"] ELSE rows

\* The oldest `limit` queued rows; rows with one timestamp come in any order.
PendingBatches(rows, receivedAt, limit) ==
    LET queue == Queued(rows)
        size  == IF Cardinality(queue) < limit THEN Cardinality(queue) ELSE limit
    IN  {batch \in SUBSET queue :
            /\ Cardinality(batch) = size
            /\ \A m \in batch, n \in queue \ batch : receivedAt[m] <= receivedAt[n]}

\* Faulty: writes a status the enum does not have.
MarkFailedMisspelt(rows, ids) == SetStatus(rows, ids, "ERROR")

MarkUploading(rows, ids) == SetStatus(rows, ids, "UPLOADING")
MarkSynced(rows, ids)    == SetStatus(rows, ids, "SYNCED")
MarkFailed(rows, ids)    == SetStatus(rows, ids, "FAILED")
Quarantine(rows, ids)    == SetStatus(rows, ids, "QUARANTINED")

\* Faulty: leaves out the message received the moment the pause began.
ExcludeReceivedAfter(rows, receivedAt, from, to) ==
    SetStatus(rows, {m \in Queued(rows) : from < receivedAt[m] /\ receivedAt[m] <= to},
              "EXCLUDED")

ExcludeReceivedBetween(rows, receivedAt, from, to) ==
    SetStatus(rows, {m \in Queued(rows) : from <= receivedAt[m] /\ receivedAt[m] <= to},
              "EXCLUDED")

\* Faulty: never recovers a stranded row.
RequeueNothing(rows) == rows

\* Faulty: takes every row that is not final for a stranded one.
RequeueUnfinished(rows) ==
    SetStatus(rows, {m \in Messages : rows[m] \notin {"SYNCED", "QUARANTINED"}}, "PENDING")

RequeueStranded(rows) ==
    SetStatus(rows, {m \in Messages : rows[m] = "UPLOADING"}, "PENDING")

\* Only SYNCED rows, and of those the ones old enough: `expired` names which.
DeleteSyncedBefore(rows, expired) ==
    [m \in Messages |-> IF m \in expired /\ rows[m] = "SYNCED" THEN "PRUNED" ELSE rows[m]]
=============================================================================
