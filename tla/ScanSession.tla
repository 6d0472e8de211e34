----------------------------- MODULE ScanSession -----------------------------
(***************************************************************************)
(* One scan session of ScanManager: the application thread (start_scan,    *)
(* resume_scan, pause_scan, resume_from_pause, stop_scan), the scan thread *)
(* (scan_thread_func with its on_file and on_scan_progress callbacks and   *)
(* the sector loop of SignatureScanner::scan) and the rows of the SQLite   *)
(* cache the two of them leave behind.  The process may die at any moment; *)
(* only the cache survives.                                                *)
(*                                                                         *)
(* A file is an abstract value: its dedup key, where it starts, how far it *)
(* reaches and whether the metadata parsers or the signature scanner       *)
(* report it are functions of the file.                                    *)
(***************************************************************************)
EXTENDS Integers, Sequences, FiniteSets, Functions

CONSTANTS
  Files,           \* everything the parsers and the scanner can report
  MetaFiles,       \* the files enumerate_mft / enumerate_root_dir report
  Videos,          \* RAW files of FileType::Video, held back until the end
  Key,             \* the MFT record number, or the first fragment's sector
  Pos,             \* the sector at which a RAW file's signature is
  Size,            \* sectors a RAW file claims
  Follows,         \* <<u, v>>: merge_video_fragments appends v after u
  StartSector, EndSector,  \* the range of Config
  MetaEnd,         \* metadata_end_sector when a boot sector was parsed
  HasMeta,         \* detect_filesystem says NTFS or FAT
  Batch, Overlap,  \* BATCH_SECTORS (8192) and the 64 sectors re-read
  Word,            \* size of the type a distance is cast to (2^32)
  FlushThreshold,  \* FLUSH_THRESHOLD (1000)
  Modes,           \* the modes this user scans with
  Faults,          \* what may go wrong: "crash", "insert", "save", "boot",
                   \* "open", "db"
  NoRow,           \* the absence of the session's scan_progress row
  MaxRuns          \* bound of the model: scan threads started

RawFiles == Files \ MetaFiles

ASSUME FilesAssumption ==
  /\ MetaFiles \subseteq Files
  /\ Videos \subseteq RawFiles
  /\ Key  \in [Files -> Nat]
  /\ Pos  \in [RawFiles -> Nat]
  /\ Size \in [RawFiles -> Nat \ {0}]
  /\ Follows \subseteq Videos \X Videos

ASSUME RangeAssumption ==
  /\ StartSector \in Nat
  /\ EndSector \in Nat
  /\ MetaEnd \in Nat
  /\ HasMeta \in BOOLEAN

ASSUME TuningAssumption ==
  /\ Batch \in Nat \ {0}
  /\ Word \in Nat \ {0}
  /\ Overlap \in Nat
  /\ FlushThreshold \in Nat \ {0}
  /\ MaxRuns \in Nat
  /\ Modes \subseteq {"quick", "deep", "full"}

\* A row of scan_progress, and its absence.
Progress == [phase : 0..2, resume : Nat, complete : BOOLEAN]
Zero     == [phase |-> 0, resume |-> 0, complete |-> FALSE]

ASSUME NoRowAssumption == NoRow \notin Progress

Steps == {"none", "open", "abandon", "load", "meta", "phase1", "phase2",
          "raw", "batch", "report", "wait", "merge", "lastReport", "lastWait",
          "finish", "complete", "notify"}

VARIABLES
  rows,      \* scan_result, in id order
  prog,      \* the session's row of scan_progress
  scanning, paused, stop,   \* the atomics
  progress,  \* progress_
  pending,   \* pending_files_
  keys,      \* existing_keys of the scan thread
  pc,        \* where the scan thread is
  mode,      \* Config::mode of the running scan
  todo,      \* metadata files not yet enumerated
  low,       \* metadata_end_sector
  from,      \* resume_from_sector
  sector, cur, claimed,     \* the loop of SignatureScanner::scan
  scanned,   \* its progress.sectors_scanned
  origin,    \* its config.start_sector
  videos,    \* its video_files
  runs,      \* scan threads started so far
  lost       \* history: files discarded by a crash, a failed insert or an
             \* enumeration that was given up

saveVars == <<prog, progress>>
flagVars == <<scanning, paused, stop>>
fileVars == <<rows, pending, keys, lost>>
loopVars == <<sector, cur, claimed, scanned, origin, videos>>
planVars == <<mode, todo, low, from>>
vars == <<rows, prog, scanning, paused, stop, progress, pending, keys, pc,
          mode, todo, low, from, sector, cur, claimed, scanned, origin,
          videos, runs, lost>>

MinOf(a, b) == IF a <= b THEN a ELSE b
MaxOf(a, b) == IF a <= b THEN b ELSE a
Stored == Range(rows)
Held   == Range(pending) \cup Range(videos)

Init ==
  /\ rows = <<>> /\ prog = NoRow
  /\ scanning = FALSE /\ paused = FALSE /\ stop = FALSE
  /\ progress = Zero
  /\ pending = <<>> /\ keys = {} /\ pc = "none"
  /\ mode = "deep" /\ todo = {} /\ low = 0 /\ from = 0
  /\ sector = 0 /\ cur = 0 /\ claimed = 0 /\ scanned = 0 /\ origin = 0
  /\ videos = <<>>
  /\ runs = 0 /\ lost = {}

----------------------------------------------------------------------------
(* ScanCacheDB, for the one session.                                       *)

\* INSERT OR REPLACE of the session's row, with the columns at their default.
CreateSession == prog' = Zero

\* No caller looks at the result of save_progress.
SaveProgress(p) == prog' = p \/ ("save" \in Faults /\ UNCHANGED prog)

\* load_progress found a row.
HasSaved == prog # NoRow

LoadFileKeys == {Key[f] : f \in Stored}

\* insert_files_bulk is one transaction.
InsertBulk(batch) ==
  \/ /\ rows' = rows \o batch
     /\ UNCHANGED lost
  \/ /\ "insert" \in Faults /\ batch # <<>>
     /\ lost' = lost \cup Range(batch)
     /\ UNCHANGED rows

----------------------------------------------------------------------------
(* The application thread.  A call that returns false changes nothing.     *)

\* start_scan joins the previous thread, so it goes on only once that one
\* is gone.  The rows of an earlier scan of the session stay.
StartScan(m) ==
  /\ ~scanning /\ pc = "none" /\ runs < MaxRuns
  /\ scanning' = TRUE /\ paused' = FALSE /\ stop' = FALSE
  /\ progress' = Zero
  /\ CreateSession
  /\ mode' = m /\ pc' = "open" /\ runs' = runs + 1
  /\ UNCHANGED <<fileVars, loopVars, todo, low, from>>

\* The cache cannot be opened: the flags have been reset all the same.
StartScanNoCache ==
  /\ "db" \in Faults
  /\ ~scanning /\ pc = "none"
  /\ paused' = FALSE /\ stop' = FALSE /\ progress' = Zero
  /\ UNCHANGED <<fileVars, prog, scanning, loopVars, planVars, pc, runs>>

\* resume_scan wants a saved session that is not complete.
ResumableAny == HasSaved
Resumable == HasSaved /\ ~prog.complete

ResumeScan(m) ==
  /\ ~scanning /\ pc = "none" /\ runs < MaxRuns
  /\ Resumable
  /\ scanning' = TRUE /\ paused' = FALSE /\ stop' = FALSE
  /\ progress' = prog
  /\ mode' = m /\ pc' = "open" /\ runs' = runs + 1
  /\ UNCHANGED <<prog, fileVars, loopVars, todo, low, from>>

PauseScan ==
  /\ paused' = TRUE
  /\ UNCHANGED <<fileVars, saveVars, scanning, stop, pc, planVars,
                 loopVars, runs>>

ResumeFromPause ==
  /\ paused' = FALSE
  /\ UNCHANGED <<fileVars, saveVars, scanning, stop, pc, planVars,
                 loopVars, runs>>

\* The store of stop_scan; the join after it is the wait for pc = "none".
StopScan ==
  /\ stop' = TRUE
  /\ UNCHANGED <<fileVars, saveVars, scanning, paused, pc, planVars,
                 loopVars, runs>>

----------------------------------------------------------------------------
(* What the scan thread does with a reported file.                         *)

\* flush_cache: pending_files_ is swapped out first and the result of the
\* transaction is not looked at.
Flush(batch) == pending' = <<>> /\ InsertBulk(batch)

KnownRawOnly(f) == f \notin MetaFiles /\ Key[f] \in keys
Known(f) == Key[f] # 0 /\ Key[f] \in keys

IsFullLate(n) == n > FlushThreshold
IsFull(n) == n >= FlushThreshold

OnFile(f) ==
  \/ /\ stop \/ Known(f)
     /\ UNCHANGED fileVars
  \/ /\ ~stop /\ ~Known(f)
     /\ keys' = keys \cup {Key[f]}
     /\ IF IsFull(Len(pending) + 1)
        THEN Flush(Append(pending, f))
        ELSE /\ pending' = Append(pending, f)
             /\ UNCHANGED <<rows, lost>>

----------------------------------------------------------------------------
(* The scan thread up to the RAW scan.                                     *)

OpenDiskKeepsFlag ==
  /\ pc = "open"
  /\ pc' = "load" \/ ("open" \in Faults /\ pc' = "abandon")
  /\ UNCHANGED <<fileVars, saveVars, flagVars, planVars, loopVars, runs>>

OpenDisk ==
  /\ pc = "open"
  /\ \/ pc' = "load" /\ UNCHANGED scanning
     \/ "open" \in Faults /\ pc' = "abandon" /\ scanning' = FALSE
  /\ UNCHANGED <<fileVars, saveVars, paused, stop, planVars, loopVars,
                 runs>>

\* Closing the cache and the last callback after a failed open.
Abandon ==
  /\ pc = "abandon" /\ pc' = "none"
  /\ UNCHANGED <<fileVars, saveVars, flagVars, planVars, loopVars, runs>>

\* Where SignatureScanner::scan over first..EndSector-1 picks up, and from
\* which count.
ResumeSectorNoCheck(first, resume) == resume - Overlap
ResumeSector(first, resume) ==
  IF resume > first /\ resume >= Overlap
  THEN MaxOf(first, resume - Overlap) ELSE first

ResumeCountFresh(first, resume) == 0
ResumeCount(first, resume) ==
  IF resume > first /\ resume - first >= Overlap
  THEN resume - first - Overlap ELSE 0

BeginRaw(first, resume) ==
  /\ origin' = first
  /\ sector' = ResumeSector(first, resume)
  /\ scanned' = ResumeCount(first, resume)
  /\ cur' = sector' /\ claimed' = 0 /\ videos' = <<>>
  /\ pc' = "raw"

SkipMetadata == HasSaved /\ prog.phase >= 1

\* load_progress, load_file_keys and the switch over the mode.
Load ==
  /\ pc = "load"
  /\ keys' = LoadFileKeys
  /\ \/ /\ stop
        /\ pc' = "finish"
        /\ UNCHANGED <<loopVars, todo, low, from>>
     \/ /\ ~stop /\ mode = "full"
        /\ BeginRaw(StartSector,
                    IF prog.resume > StartSector THEN prog.resume ELSE 0)
        /\ UNCHANGED <<todo, low, from>>
     \/ /\ ~stop /\ mode = "quick" /\ ~HasMeta
        /\ BeginRaw(StartSector, 0)
        /\ UNCHANGED <<todo, low, from>>
     \/ /\ ~stop /\ HasMeta /\ (mode = "deep" => ~SkipMetadata) /\ mode # "full"
        /\ pc' = "meta" /\ todo' = MetaFiles /\ low' = 0 /\ from' = 0
        /\ UNCHANGED loopVars
     \/ /\ ~stop /\ mode = "deep" /\ ~HasMeta /\ ~SkipMetadata
        /\ pc' = "phase1" /\ low' = StartSector /\ from' = 0
        /\ UNCHANGED <<loopVars, todo>>
     \/ /\ ~stop /\ mode = "deep" /\ SkipMetadata
        /\ pc' = "phase2" /\ low' = 0
        /\ from' = IF prog.phase >= 2 THEN prog.resume ELSE 0
        /\ UNCHANGED <<loopVars, todo>>
  /\ UNCHANGED <<rows, saveVars, flagVars, pending, lost, mode, runs>>

AfterMeta == IF mode = "deep" THEN "phase1" ELSE "finish"

\* parse_boot_sector fails: nothing is enumerated.
BootUnreadable ==
  /\ pc = "meta" /\ todo = MetaFiles /\ "boot" \in Faults
  /\ pc' = AfterMeta
  /\ lost' = lost \cup (MetaFiles \ Stored)
  /\ UNCHANGED <<rows, saveVars, flagVars, pending, keys, planVars,
                 loopVars, runs>>

MetaFile(f) ==
  /\ pc = "meta" /\ f \in todo
  /\ OnFile(f)
  /\ todo' = todo \ {f}
  /\ UNCHANGED <<saveVars, flagVars, pc, mode, low, from, loopVars, runs>>

\* The enumeration is over, or its should_stop made it give up.
MetaEnds ==
  /\ pc = "meta" /\ (todo = {} \/ stop)
  /\ pc' = AfterMeta
  /\ low' = MetaEnd
  /\ UNCHANGED <<fileVars, saveVars, flagVars, mode, todo, from, loopVars,
                 runs>>

\* "Mark phase 1 complete and save", whether or not it was completed.
SavePhaseOne ==
  /\ pc = "phase1"
  /\ progress' = [progress EXCEPT !.phase = 1]
  /\ SaveProgress(progress')
  /\ lost' = IF stop THEN lost \cup (MetaFiles \ (Stored \cup Range(pending)))
                     ELSE lost
  /\ pc' = "phase2"
  /\ UNCHANGED <<rows, flagVars, pending, keys, planVars, loopVars, runs>>

EnterPhaseTwo ==
  /\ pc = "phase2"
  /\ progress' = [progress EXCEPT !.phase = 2]
  /\ \/ /\ low < EndSector /\ ~stop
        /\ BeginRaw(low, IF from > low THEN from ELSE 0)
     \/ /\ ~(low < EndSector /\ ~stop)
        /\ pc' = "finish"
        /\ UNCHANGED loopVars
  /\ UNCHANGED <<fileVars, prog, flagVars, planVars, runs>>

----------------------------------------------------------------------------
(* The RAW scan.                                                           *)

BatchCountShort == MinOf(Batch, (EndSector - sector) % Word) - 1

\* The distance to the end is cast to 32 bits before the minimum is taken;
\* the loop goes on by a whole batch all the same.
BatchCount == MinOf(Batch, (EndSector - sector) % Word)

\* Files whose signature is in the rest of the batch and not inside a file
\* already taken.
Hits == {f \in RawFiles : /\ Pos[f] >= MaxOf(cur, claimed)
                          /\ Pos[f] < sector + BatchCount}

RawLoop ==
  /\ pc = "raw"
  /\ pc' = IF sector < EndSector /\ ~stop THEN "batch" ELSE "merge"
  /\ cur' = sector
  /\ UNCHANGED <<fileVars, saveVars, flagVars, planVars, sector, claimed,
                 scanned, origin, videos, runs>>

RawHit(f) ==
  /\ pc = "batch" /\ f \in Hits
  /\ \A g \in Hits : Pos[f] <= Pos[g]
  /\ cur' = Pos[f] + 1
  /\ claimed' = Pos[f] + Size[f]
  /\ \/ /\ f \in Videos
        /\ videos' = Append(videos, f)
        /\ UNCHANGED fileVars
     \/ /\ f \notin Videos
        /\ OnFile(f)
        /\ UNCHANGED videos
  /\ UNCHANGED <<saveVars, flagVars, pc, planVars, sector, scanned,
                 origin, runs>>

NextSector == sector + Batch

\* Whether on_progress is called depends on the clock.
BatchEnds ==
  /\ pc = "batch" /\ Hits = {}
  /\ scanned' = scanned + BatchCount
  /\ sector' = NextSector
  /\ pc' \in {"raw", "report"}
  /\ UNCHANGED <<fileVars, saveVars, flagVars, planVars, cur, claimed,
                 origin, videos, runs>>

\* merge_video_fragments makes the longest run of videos that follow one
\* another fragments of the first, which is then reported.
RunAhead(n) ==
  /\ \A i \in 1..n - 1 : <<videos[i], videos[i + 1]>> \in Follows
  /\ n < Len(videos) => <<videos[n], videos[n + 1]>> \notin Follows

MergeVideo ==
  /\ pc = "merge" /\ videos # <<>>
  /\ \/ /\ ~stop /\ OnFile(Head(videos))
     \/ /\ stop                       \* on_file returns: the video is gone
        /\ lost' = lost \cup {Head(videos)}
        /\ UNCHANGED <<rows, pending, keys>>
  /\ \E n \in 1..Len(videos) :
       RunAhead(n) /\ videos' = SubSeq(videos, n + 1, Len(videos))
  /\ UNCHANGED <<saveVars, flagVars, pc, planVars, sector, cur, claimed,
                 scanned, origin, runs>>

MergeEnds ==
  /\ pc = "merge" /\ videos = <<>>
  /\ pc' = "lastReport"
  /\ UNCHANGED <<fileVars, saveVars, flagVars, planVars, loopVars, runs>>

\* on_scan_progress, entered; its first line looks at stop_requested_.
AfterReport == IF pc \in {"report", "wait"} THEN "raw" ELSE "finish"

EnterReport ==
  /\ pc \in {"report", "lastReport"}
  /\ pc' = IF stop THEN AfterReport
           ELSE IF pc = "report" THEN "wait" ELSE "lastWait"
  /\ UNCHANGED <<fileVars, saveVars, flagVars, planVars, loopVars, runs>>

\* ... and once no longer paused it saves, even if stopped meanwhile.
WaitingDeaf == paused
Waiting == paused /\ ~stop

ResumePointAhead == scanned + Batch
ResumePoint == scanned

SaveReport ==
  /\ pc \in {"wait", "lastWait"}
  /\ ~Waiting
  /\ progress' = [progress EXCEPT !.resume = ResumePoint]
  /\ SaveProgress(progress')
  /\ pc' = AfterReport
  /\ UNCHANGED <<fileVars, flagVars, planVars, loopVars, runs>>

----------------------------------------------------------------------------
(* The end of scan_thread_func: always reached, stopped or not.            *)

FinalFlushForgotten ==
  /\ pc = "finish"
  /\ pc' = "complete"
  /\ UNCHANGED <<fileVars, saveVars, flagVars, planVars, loopVars, runs>>

FinalFlush ==
  /\ pc = "finish"
  /\ Flush(pending)
  /\ pc' = "complete"
  /\ UNCHANGED <<saveVars, flagVars, keys, planVars, loopVars, runs>>

MarkComplete ==
  /\ pc = "complete"
  /\ progress' = [progress EXCEPT !.complete = TRUE]
  /\ SaveProgress(progress')
  /\ scanning' = FALSE
  /\ pc' = "notify"
  /\ UNCHANGED <<fileVars, paused, stop, planVars, loopVars, runs>>

Notify ==
  /\ pc = "notify" /\ pc' = "none"
  /\ UNCHANGED <<fileVars, saveVars, flagVars, planVars, loopVars, runs>>

----------------------------------------------------------------------------
\* Power loss, a second Ctrl-C, or the end of the process: what is in memory
\* is gone, the cache stays.
Crash ==
  /\ "crash" \in Faults
  /\ lost' = lost \cup Held
  /\ scanning' = FALSE /\ paused' = FALSE /\ stop' = FALSE
  /\ progress' = Zero
  /\ pending' = <<>> /\ keys' = {} /\ pc' = "none"
  /\ mode' = "deep" /\ todo' = {} /\ low' = 0 /\ from' = 0
  /\ sector' = 0 /\ cur' = 0 /\ claimed' = 0 /\ scanned' = 0 /\ origin' = 0
  /\ videos' = <<>>
  /\ UNCHANGED <<rows, prog, runs>>

ScanThread ==
  \/ OpenDisk \/ Abandon \/ Load
  \/ BootUnreadable \/ (\E f \in MetaFiles : MetaFile(f)) \/ MetaEnds
  \/ SavePhaseOne \/ EnterPhaseTwo
  \/ RawLoop \/ (\E f \in RawFiles : RawHit(f)) \/ BatchEnds
  \/ MergeVideo \/ MergeEnds \/ EnterReport \/ SaveReport
  \/ FinalFlush \/ MarkComplete \/ Notify

Application ==
  \/ \E m \in Modes : StartScan(m) \/ ResumeScan(m)
  \/ StartScanNoCache
  \/ PauseScan \/ ResumeFromPause \/ StopScan

Next == ScanThread \/ Application \/ Crash

Spec == Init /\ [][Next]_vars

\* The operating system keeps running the scan thread.
FairSpec == Spec /\ WF_vars(ScanThread)

----------------------------------------------------------------------------
(* Properties.                                                             *)

FileTypeOK == /\ rows \in Seq(Files) /\ pending \in Seq(Files)
              /\ keys \subseteq Nat /\ lost \subseteq Files
SaveTypeOK == prog \in Progress \cup {NoRow} /\ progress \in Progress
FlagTypeOK == scanning \in BOOLEAN /\ paused \in BOOLEAN /\ stop \in BOOLEAN
PlanTypeOK == /\ mode \in {"quick", "deep", "full"}
              /\ todo \subseteq MetaFiles /\ low \in Nat /\ from \in Nat
LoopTypeOK == /\ sector \in Nat /\ cur \in Nat /\ claimed \in Nat
              /\ scanned \in Nat /\ origin \in Nat
              /\ videos \in Seq(RawFiles)

\* The type invariant.
TypeOK == /\ pc \in Steps /\ runs \in Nat
          /\ FileTypeOK /\ SaveTypeOK /\ FlagTypeOK /\ PlanTypeOK /\ LoopTypeOK

\* However often a session is started, resumed, stopped, killed or started
\* again, no two rows of scan_result carry the same non-zero key: the key set
\* loaded from the cache and extended by on_file covers the rows and the
\* files waiting to become rows (scan_manager.cpp, "Dedup").
NoDuplicateRows ==
  \A i, j \in DOMAIN rows :
    (Key[rows[i]] # 0 /\ Key[rows[i]] = Key[rows[j]]) => i = j

\* The inductive invariant behind NoDuplicateRows and the refinement below.
\* A scan thread runs on an open session, a batch lies inside the range, and
\* only the scanner holds videos.
ThreadInv ==
  /\ pc # "none" => prog # NoRow
  /\ pc \notin {"none", "abandon", "notify"} => ~prog.complete /\ ~progress.complete
  /\ pc = "batch" => sector < EndSector
  /\ pc \notin {"raw", "batch", "report", "wait", "merge"} => videos = <<>>

Idle == {"none", "open", "abandon", "load"}

\* Rows and pending files differ in their keys, among themselves and from
\* each other, and the scan thread knows all of these keys.
Distinct(s) ==
  \A i, j \in DOMAIN s : (Key[s[i]] # 0 /\ Key[s[i]] = Key[s[j]]) => i = j
KeysInv ==
  /\ Distinct(rows) /\ Distinct(pending)
  /\ \A i \in DOMAIN rows, j \in DOMAIN pending :
       Key[rows[i]] # 0 => Key[rows[i]] # Key[pending[j]]
  /\ pc \notin Idle \cup {"notify"} =>
       \A i \in DOMAIN rows : Key[rows[i]] \in keys
  /\ \A j \in DOMAIN pending : Key[pending[j]] \in keys
  /\ pc \in Idle \cup {"complete", "notify"} => pending = <<>>
  /\ Len(pending) < FlushThreshold

IInv == TypeOK /\ ThreadInv /\ KeysInv

\* The cast cuts the batch at s short.
CutAt(s) == EndSector - s >= Word /\ (EndSector - s) % Word < Batch

\* x is less than a batch away from where the distance to the end is a
\* multiple of Word: the cast may have cut it off its batch.
Cut(x) ==
  /\ EndSector - x > Word - Batch
  /\ (EndSector - x) % Word = 0 \/ (EndSector - x) % Word > Word - Batch

\* A RAW file that no other RAW file reaches into.
TopLevel ==
  {f \in RawFiles : \A g \in RawFiles :
                      ~(Pos[g] < Pos[f] /\ Pos[f] < Pos[g] + Size[g])}

\* f is in the set, or a fragment, at the end of a chain of merges, of a video
\* of the set: it is in every set that holds these videos and what follows.
Closed(T) == \A p \in Follows : p[1] \in T => p[2] \in T
CoveredBy(S, f) ==
  f \in S \/ \A T \in SUBSET Videos : (S \cap Videos \subseteq T /\ Closed(T)) => f \in T

\* From here on every RAW scan of this user looks for signatures.
RawLow == IF ~HasMeta THEN StartSector
          ELSE IF Modes \subseteq {"deep"} THEN MetaEnd
          ELSE MaxOf(StartSector, MetaEnd)

\* What every RAW scan finds up to a sector, unless it is cut off.
Due(x) == {f \in TopLevel : /\ RawLow <= Pos[f] /\ Pos[f] < MinOf(x, EndSector)
                            /\ ~Cut(Pos[f])}

Accounted(f) == CoveredBy(Stored \cup Held \cup lost, f)

\* The scan loop leaves nothing behind but what the 32-bit cast cuts off: any
\* other signature below the sector it has reached is a row, is in memory on
\* its way to being one, or was discarded by a fault, whatever combination of
\* fresh and resumed runs, which cut their batches elsewhere, got it there.
ScannedIsAccounted ==
  (pc \in {"raw", "batch", "report", "wait", "merge"} /\ ~stop) =>
    \A f \in Due(sector) : Accounted(f)

\* A resumed RAW scan may skip what lies below the saved resume point: all of
\* it has been seen, but for what the cast cuts off.  The point counts the
\* sectors read from the start of the scan that saved it, so that taking it
\* for a sector address can only make it too low.
ResumePointIsCovered ==
  (prog # NoRow /\ ~prog.complete) => \A f \in Due(prog.resume) : Accounted(f)

\* What a scan in this mode owes the user, and can give in spite of the cast.
Owed ==
  (IF HasMeta /\ mode \in {"quick", "deep"} THEN MetaFiles ELSE {})
  \cup (IF mode = "quick" /\ HasMeta THEN {} ELSE Due(EndSector))

\* When a scan that nobody stopped is marked complete, every file it owes is
\* in the cache, apart from those a fault discarded.
CompleteScanStoresAll ==
  (pc = "notify" /\ ~stop) => \A f \in Owed : CoveredBy(Stored \cup lost, f)

\* What dies with the process, although the resume point may lie behind it, is
\* less than one transaction, apart from the videos the RAW scan holds back;
\* and a thread that ends leaves nothing that could die.
CrashLosesFew ==
  [][pc' = "none" =>
       /\ Cardinality((lost' \ lost) \ Range(videos)) < FlushThreshold
       /\ pc \in {"none", "notify"} => lost' = lost]_vars

\* The saved phase and the saved resume point only move forward until
\* create_session starts the session over: no resumed run takes back what an
\* earlier one had saved, or, when the batch it resumes with is cut, more of it
\* than the overlap.
SavedProgressAdvances ==
  [][(prog # NoRow /\ prog' # prog /\ runs' = runs) =>
       /\ prog'.phase >= prog.phase
       /\ \/ prog'.resume >= prog.resume
          \/ /\ CutAt(MaxOf(0, prog.resume - Overlap))
             /\ prog'.resume + Overlap >= prog.resume
       /\ ~prog.complete]_vars

\* stop_scan's join returns, also from a pause.
StopEndsTheThread == stop ~> (pc = "none" \/ ~stop)

\* A scan ends by itself unless it stays paused.
ScanEnds == scanning ~> (~scanning \/ paused)

\* The abstract specification of the session's cache, and what its status is.
Status == IF prog = NoRow THEN "new" ELSE IF prog.complete THEN "complete" ELSE "open"
Store == INSTANCE ScanStore WITH status <- Status
StoreSpec == Store!Spec

----------------------------------------------------------------------------
(* What the documents say, and the code does not do.                       *)

\* README.md: "scan recovery: an interrupted scan can be continued, progress
\* is saved automatically".  A session marked complete is refused by
\* resume_scan, so only a scan that is over may be marked.
CompleteMeansScanned ==
  (pc = "notify") => \A f \in Owed : CoveredBy(Stored \cup lost, f)
=============================================================================
