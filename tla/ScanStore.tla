------------------------------ MODULE ScanStore ------------------------------
(***************************************************************************)
(* What a scan session promises those who read its cache: the result table *)
(* of ScanCacheDB only ever grows at its end, a whole transaction at a     *)
(* time, while the session is open; once the session is marked complete    *)
(* the table is final until a new scan reopens the session.                *)
(***************************************************************************)
EXTENDS Naturals, Sequences

CONSTANTS Files, FlushThreshold

VARIABLES
  rows,     \* scan_result of the session, in id order
  status    \* "new" (no progress row), "open" or "complete"

storeVars == <<rows, status>>

Init == rows = <<>> /\ status = "new"

\* create_session, for a first scan or for another one.
Open == status' = "open" /\ UNCHANGED rows

\* insert_files_bulk: one transaction, never longer than a full batch.
Commit(batch) ==
  /\ status = "open"
  /\ Len(batch) <= FlushThreshold
  /\ rows' = rows \o batch
  /\ UNCHANGED status

\* save_progress with is_complete set.
Complete == status = "open" /\ status' = "complete" /\ UNCHANGED rows

Batches == UNION {[1..n -> Files] : n \in 0..FlushThreshold}

Next == Open \/ (\E batch \in Batches : Commit(batch)) \/ Complete

Spec == Init /\ [][Next]_storeVars
=============================================================================
