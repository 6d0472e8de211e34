------------------------------- MODULE RawScan -------------------------------
(***************************************************************************)
(* Reading a damaged disk and carving it: SignatureScanner::scan with      *)
(* try_recover_file and merge_video_fragments, on top of the SectorReader  *)
(* with its BadSectorManager (the scan manager) or of the                  *)
(* BufferedSectorReader (the scan-and-recover manager).  The user may ask  *)
(* for a stop at any moment, also while a failed batch is being split.     *)
(*                                                                         *)
(* A sector holds one token: nothing a signature matches ("blank"), the    *)
(* header of a file, or the marker that ends one.  Sizes are in sectors.   *)
(***************************************************************************)
EXTENDS Integers, Sequences, FiniteSets, FiniteSetsExt

CONSTANTS
  Disk,          \* what is written in the sectors that are not blank
  Ends,          \* config.end_sector, the size of the disk
  Damage,        \* which sectors can never be read
  Flaky,         \* sectors a read of which may fail or succeed
  Readers,       \* the caller and its BadSectorPolicy
  Resumes,       \* config.resume_from_sector
  Wanted,        \* scan_images, scan_videos: the headers that are wanted
  Confidence,    \* of the match of a header
  Heuristic,     \* parse_file_size of a header, 0 if it gives none
  Ended,         \* headers whose validator sees an end marker (HasFooter) in
                 \* the one sector it is given
  Batch,         \* BATCH_SECTORS (8192)
  Word,          \* size of the type a distance is cast to (2^32)
  BadLimit,      \* fully bad batches before the adaptive skip (4)
  SkipLen,       \* sectors it skips (1024)
  Overlap,       \* sectors a resumed scan goes back (64)
  HeaderLen,     \* HEADER_SECTORS (4)
  FooterChunk,   \* CHUNK_SECTORS of the footer search (256)
  ImageCap,      \* 50 MB
  Probe,         \* PROBE_CHUNK and the first probe (64)
  VideoReach,    \* MAX_VIDEO_SEARCH_SECTORS (204800)
  DefaultImage, DefaultVideo,  \* sizes when nothing else is known
  BlockChunks,   \* chunks of Batch sectors in the prefetch buffer (4)
  Gap            \* VIDEO_MERGE_GAP_DEFAULT (2048 sectors)

Images  == {"jpg", "png", "gif"}
Videos  == {"mp4", "avi"}
Headers == Images \cup Videos
Tokens  == Headers \cup {"eoi", "iend", "trailer", "blank"}
Footer(c) ==
  CASE c = "jpg" -> "eoi" [] c = "png" -> "iend" [] OTHER -> "trailer"

ASSUME DiskAssumption ==
  /\ Ends \subseteq Nat /\ Flaky \subseteq Nat /\ Damage \subseteq SUBSET Nat
  /\ \A x \in DOMAIN Disk : x \in Nat /\ Disk[x] \in Tokens
  /\ Readers \subseteq [app : {"scan", "recover"},
                        policy : {"skip", "retry", "force"}]
  /\ Resumes \subseteq Nat /\ Wanted \subseteq Headers
  /\ Confidence \in [Headers -> 0..100] /\ Heuristic \in [Headers -> Nat]
  /\ Ended \subseteq Images
ASSUME SizeAssumption ==
  /\ {Batch, BadLimit, SkipLen, HeaderLen, FooterChunk, ImageCap, Probe,
      DefaultImage, DefaultVideo, BlockChunks, Word} \subseteq Nat \ {0}
  /\ {Overlap, VideoReach, Gap} \subseteq Nat
  /\ SkipLen <= Batch

VARIABLES
  end, dead, reader, resume,   \* the disk and the call: never change
  stop,                        \* what should_stop() answers
  pc,                          \* where scan() is
  sector, count,               \* the batch: its first sector and its size
  todo, bads, buf,             \* the ranges still to read, out_bad_count,
                               \* batch_buf
  known,                       \* BadSectorManager::bad_sectors_
  block,                       \* the prefetch buffer
  next,                        \* the sector of the batch to match next
  claimed, badRun,             \* claimed_end_sector, consecutive_bad_batches
  scanned, badHit,             \* progress.sectors_scanned, bad_sectors_hit
  videos, merged,              \* video_files, the result of merging
  taken,                       \* files the caller accepted
  found                        \* history: the ranges try_recover_file gave

callVars == <<end, dead, reader, resume>>
readVars == <<todo, bads, buf, known, block>>
progVars == <<scanned, badHit>>
fileVars == <<videos, merged, taken, found>>
vars == <<callVars, stop, pc, sector, count, readVars, next, claimed, badRun,
          progVars, fileVars>>

MinOf(a, b) == IF a < b THEN a ELSE b
MaxOf(a, b) == IF a > b THEN a ELSE b

Span(s, n) == s..(s + n - 1)
At(x) == IF x \in DOMAIN Disk THEN Disk[x] ELSE "blank"

ScanStart == IF resume >= Overlap THEN resume - Overlap ELSE 0

Init ==
  /\ end \in Ends /\ dead \in Damage /\ reader \in Readers /\ resume \in Resumes
  /\ stop = FALSE /\ pc = "loop" /\ sector = ScanStart /\ count = 0
  /\ todo = <<>> /\ bads = 0 /\ buf = [j \in 0..(Batch - 1) |-> "blank"]
  /\ known = {} /\ block = [from |-> 0, valid |-> FALSE, good |-> 0]
  /\ next = 0 /\ claimed = 0 /\ badRun = 0
  /\ scanned = ScanStart /\ badHit = 0
  /\ videos = <<>> /\ merged = <<>> /\ taken = <<>> /\ found = {}

RequestStop ==
  /\ ~stop /\ pc # "done"
  /\ stop' = TRUE
  /\ UNCHANGED <<callVars, pc, sector, count, readVars, next, claimed, badRun,
                 progVars, fileVars>>

----------------------------------------------------------------------------
(* SectorReader.                                                           *)

\* ReadFile on these sectors gives all of them; up is the set of flaky
\* sectors that answer this time.
Readable(s, n, up) ==
  \A x \in Span(s, n) : x < end /\ x \notin dead /\ (x \in Flaky => x \in up)

\* Only the scan manager's reader has a BadSectorManager.
Record(S) == IF reader.app = "scan" THEN known \cup S ELSE known
Skips == reader.policy = "skip"

\* read_sectors_checked.
CheckedOk(s, n, up) ==
  /\ ~(Skips /\ s \in known)
  /\ Readable(s, n, up)

----------------------------------------------------------------------------
(* Reading a batch.                                                        *)

BatchCountPastEnd == MinOf(Batch, Word - 1)

\* The distance to the end is cast to 32 bits before the minimum is taken.
BatchCount == MinOf(Batch, (end - sector) % Word)

\* The batch lies inside the prefetch buffer.
Cached(n) ==
  /\ reader.app = "recover" /\ block.valid
  /\ sector >= block.from /\ sector + n <= block.from + BlockChunks * Batch

\* What a position of the prefetch buffer holds: nothing from the first
\* chunk on that could not be read.
InBlock(x) == IF x < block.from + block.good THEN At(x) ELSE "blank"

NextBatch ==
  /\ pc = "loop" /\ sector < end /\ ~stop
  /\ count' = BatchCount
  /\ bads' = 0 /\ next' = 0
  /\ pc' = "read"
  /\ \/ /\ Cached(BatchCount)
        /\ buf' = [j \in DOMAIN buf |->
                     IF j < BatchCount THEN InBlock(sector + j) ELSE buf[j]]
        /\ todo' = <<>>
     \/ /\ ~Cached(BatchCount)
        /\ todo' = IF BatchCount = 0 THEN <<>> ELSE <<<<sector, BatchCount>>>>
        /\ UNCHANGED buf
  /\ UNCHANGED <<callVars, stop, sector, known, block, claimed, badRun,
                 progVars, fileVars>>

LoopEndsExactly ==
  /\ pc = "loop" /\ (sector = end \/ stop)
  /\ pc' = "merge"
  /\ UNCHANGED <<callVars, stop, sector, count, readVars, next, claimed,
                 badRun, progVars, fileVars>>
LoopEnds ==
  /\ pc = "loop" /\ (sector >= end \/ stop)
  /\ pc' = "merge"
  /\ UNCHANGED <<callVars, stop, sector, count, readVars, next, claimed,
                 badRun, progVars, fileVars>>

\* The range read_sectors_split_impl is called for next, and batch_buf after
\* it has copied the range from the disk or filled it with zeros.
First == todo[1][1]
Size  == todo[1][2]
Copied == [j \in DOMAIN buf |->
             IF sector + j \in Span(First, Size) THEN At(sector + j) ELSE buf[j]]
Zeroed == [j \in DOMAIN buf |->
             IF sector + j \in Span(First, Size) THEN "blank" ELSE buf[j]]
Reading == pc = "read" /\ todo # <<>>
KnownBad == Skips /\ Span(First, Size) \cap known # {}
readFrame == <<callVars, stop, pc, sector, count, block, next, claimed,
               badRun, progVars, fileVars>>

\* should_stop: the range is left as it is in the buffer, and is not bad.
StopSplit ==
  /\ Reading /\ stop
  /\ todo' = Tail(todo)
  /\ UNCHANGED <<bads, buf, known, readFrame>>

SkipKnown ==
  /\ Reading /\ ~stop /\ KnownBad
  /\ buf' = Zeroed /\ bads' = bads + Size /\ todo' = Tail(todo)
  /\ UNCHANGED <<known, readFrame>>

\* Under Retry the range may have been recorded by an attempt before.
ReadRange(up) ==
  /\ Reading /\ ~stop /\ ~KnownBad
  /\ Readable(First, Size, up)
  /\ buf' = Copied /\ todo' = Tail(todo)
  /\ known' \in {known} \cup
       (IF reader.policy = "retry" /\ Span(First, Size) \cap Flaky # {}
        THEN {Record(Span(First, Size))} ELSE {})
  /\ UNCHANGED <<bads, readFrame>>

FailSector(up) ==
  /\ Reading /\ ~stop /\ ~KnownBad /\ Size = 1
  /\ ~Readable(First, Size, up)
  /\ known' = Record({First})
  /\ buf' = Zeroed /\ bads' = bads + 1 /\ todo' = Tail(todo)
  /\ UNCHANGED readFrame

\* read_sectors records the whole range before it is split.
SplitRange(up) ==
  /\ Reading /\ ~stop /\ ~KnownBad /\ Size > 1
  /\ ~Readable(First, Size, up)
  /\ known' = Record(Span(First, Size))
  /\ todo' = <<<<First, Size \div 2>>,
               <<First + Size \div 2, Size - Size \div 2>>>> \o Tail(todo)
  /\ UNCHANGED <<bads, buf, readFrame>>

\* read_into_buffer: chunk after chunk until one cannot be read.
Prefetch(up) ==
  LET failed == {k \in 0..(BlockChunks - 1) :
                   ~Readable(sector + k * Batch, Batch, up)}
      chunks == IF failed = {} THEN BlockChunks ELSE Min(failed)
  IN [from |-> sector, valid |-> chunks > 0, good |-> chunks * Batch]

TooManyBadLate == badRun > BadLimit
TooManyBad == badRun + 1 >= BadLimit

\* The batch is read.  (After a stop the prefetch depends on where the stop
\* came; nothing reads the buffer then.)
BatchRead(up) ==
  /\ pc = "read" /\ todo = <<>>
  /\ block' = IF reader.app = "recover" /\ ~block.valid /\ bads = 0 /\ count > 0
              THEN Prefetch(up) ELSE block
  /\ \/ /\ bads = count /\ TooManyBad
        /\ pc' = "skip" /\ UNCHANGED badRun
     \/ /\ ~(bads = count /\ TooManyBad)
        /\ badRun' = IF bads = count THEN badRun + 1 ELSE 0
        /\ pc' = "match"
  /\ UNCHANGED <<callVars, stop, sector, count, todo, bads, buf, known, next,
                 claimed, progVars, fileVars>>

\* The subtraction and the += of the loop together move on by the skip, from
\* the start of the last bad batch; its 64 bits wrap around and back.
Skipped == MinOf(SkipLen, end - sector)
SkipTargetPastBatch == sector + Batch + Skipped
SkipTarget == sector + Skipped
AdaptiveSkip ==
  /\ pc = "skip"
  /\ scanned' = scanned + Skipped /\ badHit' = badHit + Skipped
  /\ sector' = SkipTarget
  /\ badRun' = 0 /\ pc' = "loop"
  /\ UNCHANGED <<callVars, stop, count, readVars, next, claimed, fileVars>>

----------------------------------------------------------------------------
(* try_recover_file: how far a file reaches and how damaged it seems.      *)

HeaderOk(s, up) == CheckedOk(s, HeaderLen, up)

\* search_image_footer reads a range twice the estimate, up to the first
\* chunk that fails, and takes the last EOI of a JPEG or trailer byte of a GIF,
\* the first IEND of a PNG; the marker may be in the sector of the header.
Estimate(c) == IF Heuristic[c] = 0 THEN DefaultImage ELSE Heuristic[c]
SearchLen(c) == MinOf(2 * Estimate(c), ImageCap)
ChunkAt(s, c, p) == MinOf(FooterChunk, s + SearchLen(c) - p)
ChunkStarts(s, c) == {s + k * FooterChunk : k \in 0..((SearchLen(c) - 1) \div FooterChunk)}
FailedChunks(s, c, up) == {p \in ChunkStarts(s, c) : ~CheckedOk(p, ChunkAt(s, c, p), up)}
SearchedSkippingOver(s, c, up) ==
  {x \in Span(s, SearchLen(c)) :
     \A p \in FailedChunks(s, c, up) : x \notin Span(p, FooterChunk)}
Searched(s, c, up) ==
  {x \in Span(s, SearchLen(c)) : \A p \in FailedChunks(s, c, up) : x < p}
Ending(s, c, up) ==
  LET marks == {x \in Searched(s, c, up) : IF x = s THEN c \in Ended
                                            ELSE At(x) = Footer(c)}
  IN IF ~HeaderOk(s, up) \/ marks = {} THEN 0
     ELSE (IF c = "png" THEN Min(marks) ELSE Max(marks)) - s + 1

ImageLen(s, c, up) ==
  IF Ending(s, c, up) > 0 THEN MinOf(Ending(s, c, up), ImageCap)
  ELSE MinOf(IF HeaderOk(s, up) THEN Estimate(c) ELSE DefaultImage, ImageCap)

\* The probes of a video end at a chunk that fails or at the next header.
Probes(s) == {s + k * Probe : k \in 1..(VideoReach \div Probe)} \cap (s..(s + VideoReach - 1))
Barriers(s, up) ==
  {p \in Probes(s) : ~CheckedOk(p, Probe, up)}
  \cup UNION {{x \in Span(p, Probe) : At(x) \in Headers} : p \in Probes(s)}
VideoLen(s, c, up) ==
  IF Barriers(s, up) # {} THEN Min(Barriers(s, up)) - s
  ELSE IF HeaderOk(s, up) /\ Heuristic[c] > 0 THEN Heuristic[c] ELSE DefaultVideo

\* assess_corruption, CorruptionLevel as its number: None, Minor, Moderate,
\* Severe.  Every validator sets HasHeader; an end marker that the validator
\* saw counts although the search may not have got there.
HasFooter(s, c, up) == c \in Ended \/ (c \in Images /\ Ending(s, c, up) > 0)
Level(ok, ended, conf) ==
  IF ~ok THEN 3
  ELSE IF ended THEN (IF conf >= 60 THEN 0 ELSE 1)
  ELSE IF conf >= 60 THEN 1 ELSE IF conf >= 30 THEN 2 ELSE 3

FileAt(s, c, up) ==
  [ext    |-> c,
   frags  |-> <<<<s, IF c \in Images THEN ImageLen(s, c, up) ELSE VideoLen(s, c, up)>>>>,
   level  |-> Level(HeaderOk(s, up), HasFooter(s, c, up), Confidence[c]),
   conf   |-> Confidence[c],
   starts |-> {s}]

\* What the failed reads of a call record as bad.
Noted(s, c, up) ==
  (IF Readable(s, HeaderLen, up) THEN {} ELSE Span(s, HeaderLen))
  \cup (IF c \in Images
        THEN UNION {Span(p, ChunkAt(s, c, p)) :
                      p \in {q \in FailedChunks(s, c, up) :
                               HeaderOk(s, up) /\ q = Min(FailedChunks(s, c, up))}}
        ELSE {x \in Span(Min(Barriers(s, up) \cup {s}), Probe) :
                Barriers(s, up) # {} /\ ~CheckedOk(Min(Barriers(s, up)), Probe, up)})

----------------------------------------------------------------------------
(* The callers' on_file callbacks.                                         *)

\* Both return at once after a stop; the scan-and-recover manager counts a
\* file of any corruption as failed and does not recover it.
AcceptsAfterStop(f) == reader.app = "recover" => f.level = 0
Accepts(f) == ~stop /\ (reader.app = "recover" => f.level = 0)

OnFile(f) == taken' = IF Accepts(f) THEN Append(taken, f) ELSE taken

----------------------------------------------------------------------------
(* Matching a batch.                                                       *)

Matches == {j \in next..(count - 1) :
              sector + j >= claimed /\ buf[j] \in Wanted}

LastSector(f) == Max({g[1] + g[2] : g \in {f.frags[k] : k \in DOMAIN f.frags}})

TakeFile(up) ==
  /\ pc = "match" /\ Matches # {}
  /\ LET j == Min(Matches)
         f == FileAt(sector + j, buf[j], up)
     IN /\ next' = j + 1
        /\ claimed' = LastSector(f)
        /\ known' = Record(known \cup Noted(sector + j, buf[j], up))
        /\ found' = found \cup {[from |-> sector + j, upto |-> LastSector(f),
                                level |-> f.level]}
        /\ \/ /\ buf[j] \in Videos
              /\ videos' = Append(videos, f)
              /\ UNCHANGED taken
           \/ /\ buf[j] \in Images
              /\ OnFile(f)
              /\ UNCHANGED videos
  /\ UNCHANGED <<callVars, stop, pc, sector, count, todo, bads, buf, block,
                 badRun, progVars, merged>>

BatchEnds ==
  /\ pc = "match" /\ Matches = {}
  /\ scanned' = scanned + count /\ badHit' = badHit + bads
  /\ sector' = sector + Batch
  /\ pc' = "loop"
  /\ UNCHANGED <<callVars, stop, count, readVars, next, claimed, badRun,
                 fileVars>>

----------------------------------------------------------------------------
(* merge_video_fragments, over videos that are in disk order already, and  *)
(* the report of its result.                                               *)

Last == merged[Len(merged)]
Between(f, g) == MaxOf(0, g.frags[1][1] - LastSector(f))

\* get_extension keeps the dot, so video_merge_gap_bytes always answers with
\* the default gap.
Joins(f, g) == f.ext = g.ext /\ Between(f, g) <= Gap

JoinedWithoutGap(f, g) ==
  [f EXCEPT !.frags  = @ \o g.frags,
            !.starts = @ \cup g.starts]
Joined(f, g) ==
  LET gap == Between(f, g)
      seam == IF f.conf >= 50 /\ g.conf >= 50 /\ gap <= Gap \div 4 THEN 1
              ELSE IF gap <= Gap \div 2 THEN 2 ELSE 3
  IN [ext    |-> f.ext,
      frags  |-> (IF gap > 0 THEN Append(f.frags, <<LastSector(f), gap>>) ELSE f.frags)
                 \o g.frags,
      level  |-> MaxOf(f.level, seam),
      conf   |-> (f.conf + g.conf) \div 2,
      starts |-> f.starts \cup g.starts]

MergeNext ==
  /\ pc = "merge" /\ videos # <<>>
  /\ LET g == Head(videos)
     IN merged' = IF merged # <<>> /\ Joins(Last, g)
                  THEN [merged EXCEPT ![Len(merged)] = Joined(Last, g)]
                  ELSE Append(merged, g)
  /\ videos' = Tail(videos)
  /\ UNCHANGED <<callVars, stop, pc, sector, count, readVars, next, claimed,
                 badRun, progVars, taken, found>>

MergeEnds ==
  /\ pc = "merge" /\ videos = <<>>
  /\ pc' = "report"
  /\ UNCHANGED <<callVars, stop, sector, count, readVars, next, claimed,
                 badRun, progVars, fileVars>>

ReportMerged ==
  /\ pc = "report" /\ merged # <<>>
  /\ OnFile(Head(merged))
  /\ merged' = Tail(merged)
  /\ UNCHANGED <<callVars, stop, pc, sector, count, readVars, next, claimed,
                 badRun, progVars, videos, found>>

ScanEnds ==
  /\ pc = "report" /\ merged = <<>>
  /\ pc' = "done"
  /\ UNCHANGED <<callVars, stop, sector, count, readVars, next, claimed,
                 badRun, progVars, fileVars>>

----------------------------------------------------------------------------
Scan ==
  \/ NextBatch \/ LoopEnds \/ StopSplit \/ SkipKnown \/ AdaptiveSkip
  \/ BatchEnds \/ MergeNext \/ MergeEnds \/ ReportMerged \/ ScanEnds
  \/ \E up \in SUBSET Flaky :
       \/ ReadRange(up) \/ FailSector(up) \/ SplitRange(up)
       \/ BatchRead(up) \/ TakeFile(up)

Next == Scan \/ RequestStop
Spec == Init /\ [][Next]_vars

\* The scan thread keeps running: it holds no lock and every read returns.
FairSpec == Spec /\ WF_vars(Scan)
----------------------------------------------------------------------------
(* Properties.                                                             *)

Steps == {"loop", "read", "skip", "match", "merge", "report", "done"}
Ranges == Nat \X Nat

File == [ext : Headers, frags : Seq(Ranges) \ {<<>>}, level : 0..3,
         conf : 0..100, starts : SUBSET Nat]

\* The type invariant.
TypeOK ==
  /\ stop \in BOOLEAN /\ pc \in Steps
  /\ sector \in Nat /\ count \in 0..Batch /\ next \in 0..Batch
  /\ todo \in Seq(Ranges) /\ bads \in 0..Batch
  /\ buf \in [0..(Batch - 1) -> Tokens] /\ known \subseteq Nat
  /\ block \in [from : Nat, valid : BOOLEAN, good : Nat]
  /\ claimed \in Nat /\ badRun \in 0..(BadLimit - 1)
  /\ scanned \in Nat /\ badHit \in Nat
  /\ videos \in Seq(File) /\ merged \in Seq(File) /\ taken \in Seq(File)

\* A stop in the middle of a split leaves the rest of the buffer as the last
\* batch had it, and the matching goes on over it; still no file is accepted
\* that does not begin with a header on the disk.
AcceptedIsReal ==
  \A k \in DOMAIN taken : \A x \in taken[k].starts : At(x) \in Headers

\* A file that is accepted as undamaged can be read in its first HeaderLen
\* sectors, and in all of its sectors unless its validator took a marker in the
\* sector of the header for its end: no read that failed, of the header or in
\* the search for the end, is forgotten (assess_corruption).
IntactIsReadable ==
  \A k \in DOMAIN taken :
    taken[k].level = 0 =>
      \A n \in DOMAIN taken[k].frags :
        LET s == taken[k].frags[n][1]
        IN /\ Span(s, HeaderLen) \cap dead = {}
           /\ taken[k].ext \notin Ended =>
                Span(s, taken[k].frags[n][2]) \cap dead = {}

\* x is less than a batch away from where the distance to the end is a
\* multiple of Word: the cast may have cut its batch.
Cut(x) ==
  /\ end - x > Word - Batch
  /\ (end - x) % Word = 0 \/ (end - x) % Word > Word - Batch

Missed == {x \in ScanStart..(end - 1) :
             /\ At(x) \in Wanted /\ x \notin dead \cup Flaky /\ ~Cut(x)
             /\ \A f \in found : x \notin f.from..(f.upto - 1)}

\* A reader without prefetch that is not told to skip bad sectors isolates
\* them: the scan misses no readable header through split reads, the adaptive
\* skip or the claimed ranges, but for the batches the 32-bit cast cuts.
SplitMissesNothing ==
  (pc = "done" /\ ~stop /\ reader.app = "scan" /\ ~Skips) => Missed = {}

Behind == ScanStart..(MinOf(sector, end) - 1)

\* The reported position never runs ahead of the sectors read, which a resume
\* starts from, and lags only by the sectors of cut batches; the bad sectors
\* of a reader that isolates them are counted once each, also over the
\* overlap an adaptive skip leaves, and nothing else is but what a cut hides
\* from a batch that is skipped.
ProgressIsExact ==
  (pc = "loop" /\ ~stop) =>
    /\ scanned <= MinOf(sector, MaxOf(end, ScanStart))
    /\ MinOf(sector, end) - scanned <= Cardinality({x \in Behind : Cut(x)})
    /\ (reader.app = "scan" /\ ~Skips) =>
         /\ badHit <= Cardinality({x \in Behind : x \in dead \cup Flaky \/ Cut(x)})
         /\ Cardinality({x \in Behind \cap dead : ~Cut(x)}) <= badHit

\* Every file the scan found is in exactly one of the files it reports, which
\* are single ranges on the disk, through the merging of videos and the gaps
\* that fill them.
FoundIsReportedOnce ==
  (pc = "done" /\ ~stop) =>
    /\ \A f \in found :
         (reader.app = "recover" => f.level = 0) =>
           Cardinality({k \in DOMAIN taken :
              /\ f.from \in taken[k].starts
              /\ f.from >= taken[k].frags[1][1]
              /\ f.upto <= LastSector(taken[k])}) = 1
    /\ \A k \in DOMAIN taken : \A n \in 2..Len(taken[k].frags) :
         taken[k].frags[n][1] = taken[k].frags[n - 1][1] + taken[k].frags[n - 1][2]

\* The loop ends, although the adaptive skip moves it back and forward, and
\* after a stop too.
ScanTerminates == <>(pc = "done")

----------------------------------------------------------------------------
(* What a comment in the code says, and the code does not do.              *)

\* sector_reader.hpp: "on batch read failure, recursively splits in half to
\* isolate bad sectors".  Only what cannot be read is lost.
BadSectorsAreIsolated == (pc = "done" /\ ~stop) => Missed = {}

=============================================================================
