------------------------------ MODULE MftParser ------------------------------
(***************************************************************************)
(* MftParser: the records of an NTFS volume's MFT, read in batches, one by *)
(* one when a batch cannot be read, and the runs of each file decoded.     *)
(* QuickScan composes it with the detection of the filesystem.             *)
(***************************************************************************)
EXTENDS Integers, Sequences, SequencesExt

CONSTANTS
  BatchRecords,   \* BATCH_RECORDS (64)
  RecordSectors,  \* sectors_per_record
  ClusterSectors, \* sectors_per_cluster_
  FallbackCount,  \* entries assumed when $MFT does not say (256K)
  Digit,          \* values of one byte of a run offset (256)
  WordBytes       \* bytes of a run offset that fill 64 bits (8)

VARIABLES
  vol,   \* what is on the disk: never changes
  pc,    \* where the scan is
  stop,  \* stop_requested_
  files, \* the files handed to on_file, up to a stop
  count, \* mft_entry_count_
  start, \* batch_start
  index  \* the record of the batch that comes next

MftInit == count = 0 /\ start = 0 /\ index = 0

ReadResults(S) ==
  {ok \in BOOLEAN : /\ ok => S \cap vol.dead = {}
                    /\ ~ok => S \cap (vol.dead \cup vol.flaky) # {}}

\* The MFT is read as if it were one run of sectors.
RecordsAt(i, n) ==
  (vol.mft + i * RecordSectors) .. (vol.mft + (i + n) * RecordSectors - 1)

BatchEnd == IF start + BatchRecords < count THEN start + BatchRecords ELSE count

NoRecord == [file |-> FALSE, dir |-> FALSE, inUse |-> FALSE, attrs |-> <<>>]
RecordAt(i) == IF i < Len(vol.records) THEN vol.records[i + 1] ELSE NoRecord

----------------------------------------------------------------------------
(* decode_data_runs.  A run is its length and the bytes of its offset,     *)
(* lowest first; a sparse run has none.                                    *)

Weight[k \in 0..WordBytes] == IF k = 0 THEN 1 ELSE Digit * Weight[k - 1]

Unsigned(bytes) ==
  LET read[k \in 0..Len(bytes)] ==
        IF k = 0 THEN 0 ELSE read[k - 1] + bytes[k] * Weight[k - 1]
  IN read[Len(bytes)]

\* The highest bit of the last byte is the sign.
IsNegative(bytes) == 2 * Last(bytes) >= Digit

DeltaWithoutSign(bytes) == Unsigned(bytes)
\* An offset that fills all 64 bits has its sign already, and the shift by 64
\* that the code takes away from a negative one is undefined: x86-64 shifts by
\* none, so that it becomes 1 less than it was.
Delta(bytes) ==
  Unsigned(bytes)
    - IF ~IsNegative(bytes) THEN 0
      ELSE Weight[Len(bytes)] + IF Len(bytes) = WordBytes THEN 1 ELSE 0

\* Runs are decoded up to the first that is sparse; one that leads to
\* cluster 0 or before it is passed over.
ReadRun(acc, r) ==
  IF acc.over \/ r.bytes = <<>> THEN [acc EXCEPT !.over = TRUE]
  ELSE LET c == acc.cluster + Delta(r.bytes)
       IN [acc EXCEPT !.cluster = c,
             !.extents = IF c > 0
               THEN Append(@, [start |-> c * ClusterSectors,
                               count |-> r.length * ClusterSectors])
               ELSE @]
Decoded(runs) ==
  LET read[k \in 0..Len(runs)] ==
        IF k = 0 THEN [cluster |-> 0, over |-> FALSE, extents |-> <<>>]
        ELSE ReadRun(read[k - 1], runs[k])
  IN read[Len(runs)].extents

\* parse_mft_record: the last name counts; the runs of all the
\* non-resident data attributes are put together.
NamesIn(r) == SelectSeq(r.attrs, LAMBDA a : a.type = "name")
DataIn(r) == SelectSeq(r.attrs, LAMBDA a : a.type = "data" /\ ~a.resident)
FragmentsOf(r) ==
  FlattenSeq([k \in DOMAIN DataIn(r) |-> Decoded(DataIn(r)[k].runs)])

\* process_mft_record: deleted files are included, directories are not.
IsRecoverable(r) ==
  /\ r.file /\ ~r.dir
  /\ NamesIn(r) # <<>> /\ FragmentsOf(r) # <<>>

FileOf(i) ==
  LET r == RecordAt(i)
  IN [mft_id |-> i, name |-> Last(NamesIn(r)).name,
      damaged |-> ~r.inUse, extents |-> FragmentsOf(r)]

Reported(i) ==
  IF IsRecoverable(RecordAt(i)) /\ ~stop THEN Append(files, FileOf(i))
  ELSE files

----------------------------------------------------------------------------
(* parse_boot_sector and enumerate_mft.                                    *)

\* The record of $MFT gives the size of the MFT, if it can be read.
ParseMftBootSector ==
  /\ pc = "ntfs"
  /\ \E ok \in ReadResults({0}) :
       IF ok /\ vol.boot
         THEN /\ pc' = "batch"
              /\ \E first \in ReadResults(RecordsAt(0, 1)) :
                   count' = IF first /\ RecordAt(0).file THEN Len(vol.records)
                            ELSE FallbackCount
         ELSE pc' = "done" /\ UNCHANGED count
  /\ UNCHANGED <<vol, stop, files, start, index>>

ReadBatchOrSkip ==
  /\ pc = "batch" /\ start < count /\ ~stop
  /\ \E ok \in ReadResults(RecordsAt(start, BatchEnd - start)) :
       /\ pc' = IF ok THEN "records" ELSE "batch"
       /\ start' = IF ok THEN start ELSE BatchEnd
  /\ index' = start
  /\ UNCHANGED <<vol, stop, files, count>>

ReadBatch ==
  /\ pc = "batch" /\ start < count /\ ~stop
  /\ \E ok \in ReadResults(RecordsAt(start, BatchEnd - start)) :
       pc' = IF ok THEN "records" ELSE "singles"
  /\ index' = start
  /\ UNCHANGED <<vol, stop, files, count, start>>

EnumerationStops ==
  /\ pc = "batch" /\ (start >= count \/ stop)
  /\ pc' = "done"
  /\ UNCHANGED <<vol, stop, files, count, start, index>>

ProcessRecord ==
  /\ pc = "records" /\ index < BatchEnd /\ ~stop
  /\ files' = Reported(index) /\ index' = index + 1
  /\ UNCHANGED <<vol, pc, stop, count, start>>

\* A record that cannot be read on its own either is passed over.
ProcessSingleRecord ==
  /\ pc = "singles" /\ index < BatchEnd /\ ~stop
  /\ \E ok \in ReadResults(RecordsAt(index, 1)) :
       files' = IF ok THEN Reported(index) ELSE files
  /\ index' = index + 1
  /\ UNCHANGED <<vol, pc, stop, count, start>>

BatchDone ==
  /\ pc \in {"records", "singles"} /\ (index >= BatchEnd \/ stop)
  /\ start' = start + BatchRecords /\ pc' = "batch"
  /\ UNCHANGED <<vol, stop, files, count, index>>

MftNext ==
  \/ ParseMftBootSector \/ ReadBatch \/ EnumerationStops
  \/ ProcessRecord \/ ProcessSingleRecord \/ BatchDone
=============================================================================
