# A TLA+ verification project for disk-recover

disk-recover scans a damaged or emptied Windows disk for lost pictures and
videos and copies them to other disks. What is hard to test in it is not the
file formats but what goes on for hours around them: a scan or a recovery runs
in a thread of its own, is paused, stopped, resumed, killed and started again;
it leaves its state in an SQLite cache, in files on nearly full disks and in a
window; and it reads sectors that fail, from structures that may be damaged.
This project models those parts, checks them with TLC on small instances, and
proves the main facts with TLAPS for all values of the parameters.

`src/...` below is relative to the source tree, file names without a directory
are under `src/src/`. `PROJECT.json` maps every definition to its lines.

## 1. Inventory

| component | state | operations | called by / calls |
|---|---|---|---|
| `ScanManager` (`business/scan_manager.cpp`) | `scanning_`, `paused_`, `stop_requested_`, `progress_`, `pending_files_`, the thread's keys | `start_scan`, `resume_scan`, `pause_scan`, `resume_from_pause`, `stop_scan`; the scan thread | command line / parsers, `SignatureScanner`, `ScanCacheDB` |
| `SignatureScanner` (`filesystem/raw/`) | loop position, claimed end, bad run, held videos | `scan`, `try_recover_file`, `merge_video_fragments` | both scans / readers; calls back `on_file`, `on_progress`, `should_stop` |
| `ScanCacheDB` | tables `scan_result`, `scan_progress`, `recovery_progress`, `bad_sectors` | create, save, load, bulk insert, paged query | both managers |
| `RecoveryManager` | flags, statistics, `last_file_index_`, folder counters, current path | `start/pause/resume/stop_recovery`; the recovery thread | command line / cache, `MultiTargetWriter` |
| `MultiTargetWriter` | targets, current one, free space | `add_target`, `refresh_space_info`, `has_space`, `switch_to_next_target` | both recovering workers |
| `ScanAndRecoverManager` | flags, `progress_`, worker | `start`, `pause`, `resume`, `stop`, `stop_request_only`; the worker | window, command line / parsers, scanner; posts window messages |
| `MainWindow` (`ui/gui/main_window.cpp`) | `state_`, controls, list, `manager_` | button and message handlers | message queue; joins the worker |
| `SaveDirsDialog`, `disk_info.cpp` | chosen directories, excluded letters | add, remove, accept, cancel; drives, letters and disks | window |
| `SectorReader`, `BufferedSectorReader`, `BadSectorManager` | known bad sectors, one prefetched block | reads under skip, retry, force, with a split | everything that reads the disk |
| NTFS and FAT parsers | boot sector fields, table cache | enumerate files with callbacks | scan thread, worker |
| command line (`ui/cli/main.cpp`) | options, `g_scan_manager`, `g_interrupted` | subcommands, polling loops, SIGINT handler | all managers |
| exFAT parser, signatures, validators, preview, logger | little or none | | |

Components interact in four ways: calls that start and join a thread; atomics
that a caller sets and a thread polls (in pause loops within callbacks too); the
tables of the cache, which outlive the process; and posted window messages.

What is hard, and where it bites, is listed line by line in `PROJECT.json` under
`hazards`. In short:

* **Crash and restart.** Rows are written in batches, progress in a row of its
  own, the end in a mark; a resumed run trusts all three.
* **Interleaving.** Every manager has a caller and a thread; a stop must get out
  of every wait. `pause_recovery` writes the cache from the caller's thread, and
  `stop_scan` may run in two threads at once.
* **Messages without an owner.** Window messages do not say which run posted
  them, and runs follow each other without draining the queue.
* **Bad sectors.** Reads fail in the middle of a batch, a split, a footer search
  or a cluster chain, and what a buffer, a cache or a prefetched block holds
  afterwards is used further on.
* **Numbers.** The resume point is a count used as an address, a batch length is
  cast to 32 bits, the adaptive skip moves an unsigned loop variable back,
  offsets of data runs are signed.
* **Space and disks.** Targets fill and empty; nothing may be written to the
  disk that is scanned.

What makes each component correct:

* scan session: no two rows for a file; a resume point hides no unread sector; a
  completed scan stored what it found; a stop returns; readers of the cache see
  whole batches and a final table.
* sector loop: only real headers are accepted, a file called intact was readable,
  every readable header is looked at, progress is exact, the loop ends.
* parsers: extents are the file's own sectors in order, one bad sector costs only
  what lies on it, names belong to their entry, the enumeration ends.
* recovery: no half files; what is counted is on disk; the index counts rows; a
  stop returns.
* window and dialog: what is shown agrees with the worker; a join never hangs;
  the end of a run is seen; targets lie on distinct disks, off the source.
* command line: the process ends after Ctrl-C, and not before the scan thread.

## 2. Modules

A module `MC<X>` gives `<X>` a small instance, `<X>Proofs` holds its theorems.

### `ScanSession`, with `ScanStore`

One session of `ScanManager`: its calls, the scan thread, the cache rows. `pc` is
where the thread is; a step runs up to the next point where another thread can
look. The calls are `StartScan`, `ResumeScan`, `PauseScan`, `ResumeFromPause`,
`StopScan` (its join waits for `pc = "none"`). The thread opens the disk
(`OpenDisk`), loads the keys (`Load`), enumerates metadata (`MetaFile`,
`MetaEnds`, `SavePhaseOne`), runs the sector loop (`BeginRaw`, `RawLoop`,
`RawHit`, `BatchEnds`), reports and waits (`EnterReport`, `Waiting`,
`SaveReport`), merges (`MergeVideo`), flushes, marks and ends (`FinalFlush`,
`MarkComplete`, `Notify`). `Crash` may come anywhere and leaves only `rows` and
`prog`. A file is what the parsers and the scanner would make of it: `Key`,
`Pos`, `Size`, `Follows`. The history `lost` accounts for what a crash, a failed
insert or a stop takes; `CrashLosesFew` bounds what a crash may take. The length
of a batch is cast to `Word` as in the code (`BatchCount`), so that a batch near a
multiple of `Word` from the end is cut short while the loop goes on by a whole
one. What the properties say of sectors excepts those the cast may have cut off
(`Cut`, `CutAt`), and no others.

`ScanStore` is the promise to readers of the cache: rows are only appended, in
batches of at most `FlushThreshold`, while the session is open; nothing follows
the mark. `ScanSession` implements it (`StoreSpec`).

### `RawScan`

The sector loop in full, on a disk with dead and flaky sectors, through either
reader: `NextBatch`, the recursive split of a failed read as a list `todo` of
ranges (`StopSplit`, `SkipKnown`, `ReadRange`, `FailSector`, `SplitRange`), the
prefetched block (`Prefetch`), the count of bad batches and the skip
(`BatchRead`, `AdaptiveSkip`), matching and `try_recover_file` (`TakeFile`, with
the footer search, the probes, the corruption level), merging and reporting
(`MergeNext`, `MergeEnds`, `ReportMerged`). An action that reads takes the set
`up` of flaky sectors that answer this time. Casts keep their width
(`% Word`). A sector holds one token, sizes are in sectors. Validators may report
a footer of their own: for the kinds in `Ended` they see one in the sector of the
header, and `HasFooter` then holds whatever the footer search met, so that
`IntactIsReadable` only claims the header of such files.

### `QuickScan`, with `FatParser` and `MftParser`

The metadata scan: `DetectFilesystem` and then the parser of the volume.
`FatParser` follows chains through the cached table (`FollowChain`,
`ChainOfFileEnds`, `DirectoryChainEnds`) and directories entry by entry
(`LongNameEntry`, `DirectoryEntry`, `FileEntry`, `OtherEntry`, `DirectoryDone`);
the recursion of `enumerate_directory` is the variable `stack`. The sector of a
cluster is computed modulo `Word`, as in 32 bits, and what a directory reads
there is what the disk holds there. A cycle of the table is followed until the
memory for the extents is used up (`OutOfMemory`), which ends the process.
`MftParser` reads batches of records with the fallback to single ones
(`ReadBatch`, `ProcessSingleRecord`) and decodes data runs from their signed bytes
(`Decoded`); for an offset that fills all bytes of a word the code takes away what a shift by
the whole width gives, which is undefined and 1 on x86-64 (`Delta`).
The properties compare with what the volume says: link by link with the table
(`Leads`, `Ends`; an entry that lies in two sectors may lead to whatever the byte
behind it makes of it, `Junk`), with the files in the listings of its sound
directories (`SoundListings`, `SoundFiles`), with the extents written beside each
record. Three cases in which the code does go wrong are excepted by name, each
with a volume of the run that needs the exception: a chain that leads to a cluster
whose sector wraps (`IsConfined`), a negative offset of the full width
(`HasWideOffset`), a cycle (`HasCycle`). `SoundFilesAreReported` has three parts:
`SoundEntriesAreReported` (at least once, FAT), `NoneTwice` (FAT) and
`SoundRecordsAreReported` (NTFS).

### `Recovery`

`RecoveryManager` and its thread, `MultiTargetWriter` as it uses it, the
`recovery_progress` row, the files on the targets. The thread opens and loads
(`OpenCache`, `LoadState`, `QueryFileCount`, `OpenDisk`), and for every page
(`LoadPage`) and row (`NextRow`) looks for space (`CheckSpace`, `NoSpace`,
`CheckSpaceAgain`, `SkipRow`), copies buffer by buffer (`CreateOutput`,
`CopyBuffer`, `GiveUpCopy`), counts and saves (`Tally`, `Advance`, ...).
`PauseSaves` is the caller's write of the cache. Around it targets fill and
empty, rows are added, the process crashes. `handled`, `everHandled`, `good`,
`attempts`, `base` and `torn` are histories.

### `ScanRecoverGui`

`MainWindow` and `ScanAndRecoverManager` with the message queue between them.
`gui` says whether the GUI thread is in its loop or in one of the three joins.
The queue holds the messages that change something; status texts are the step
`Report`, which posts and never waits. Windows hands out posted messages before
input, so a click needs an empty queue (`MayClick`). The run of a row is a
history: messages in the code carry none. `create_directories` may throw for a
target or for the folder of a file, which nothing in the worker catches
(`CannotCreateDirectory`): the process is over, with `gui = "terminated"`.

### `SaveDirs`

Choosing the drive and the save directories: `SelectDrive`, the dialog with
adding, removing, accepting, cancelling, and the start of a run, over volumes
that span disks, letters that do not answer and shares. `LettersOf` and
`PhysicalDrive` are the two queries of `disk_info.cpp`, which differ in how many
extents of a volume they look at.

### `CliScan`

The process of `disk-recover scan`: main (`PrepareScan`, `Refuse`, `SpawnScan`,
`Poll`, `Wake`, `Return`, `Exit`), the thread Windows runs the SIGINT handler on
(`Interrupt`), both in `stop_scan` (`RequestStop`, `CheckJoinable`, `Join`, and
`JoinAgain`, the undefined second join), and the scan thread reduced to which
files are pending or stored (`OpenDisk` ... `LogEnd`). `LateLog` is a line logged
through the destroyed `Logger`. A second Ctrl-C kills the process, which is the
`Crash` of `ScanSession`.

### How they fit

`QuickScan` composes the two parsers. `ScanSession` and `CliScan` take over what
`RawScan` and `QuickScan` say of the scanners: files at positions, found in
order. `Recovery` reads rows as `ScanStore` promises them (`ScanAppends`).
`ScanRecoverGui` takes the job `SaveDirs` ends with, and a scan as `RawScan` and
`QuickScan` describe it.

## 3. Runs

| run | question | instance | states |
|---|---|---|---|
| `scan_deep` | what a deep scan leaves in the cache, whatever interrupts it | 8 files on 10 sectors, a word of 6, 3 runs; crash, failed insert, bad boot sector, failed opens | 2.7 M |
| `scan_live` | a stop returns, a scan ends, the cache implements `ScanStore`; all modes, changing between runs | 8 files, 2 runs; crash, failed save, failed open | 183 k |
| `recovery` | files and indexes across crashes and restarts, with every other fault; a stop returns, a recovery ends | 2 rows on 2 pages, 2 targets, 2 runs; crash, cache, disk, create and copy errors | 0.6 M |
| `gui` | the window and its worker | 3 files (1 damaged), 2 targets, 3 runs; failed open, write and directory | 0.4 M |
| `raw_scan` | what the sector loop finds, loses and counts | 2 disk sizes, 5 kinds of damage, 6 readers, a flaky sector, fresh and resumed | 43 k |
| `quick_scan` | what the parsers report | 4 odd volumes, loops of directories, cycles of the table, links that wrap, split names, 3 FATs and an NTFS with dead and flaky sectors at each level, a file that begins in a bad cluster | 17 k |
| `save_dirs` | which disks a run writes to | 4 disks, a spanned volume, a silent letter, a share | 409 k |
| `cli_scan` | how the process ends | 3 files, Ctrl-C at any moment, 3 faults | 2 k |

Runs that end in a violation, each of a sentence the repository states:

| run | what happens |
|---|---|
| `scan_stop` | a stopped scan is saved as complete, and a complete session cannot be resumed: the rest of the disk is lost to the session |
| `recovery_resume` | a resumed recovery counts from the saved index but reads from the first row: the last rows are never handled |
| `gui_stale` | Start while a stopped worker is busy: its late completion message stops and joins the *new* worker |
| `raw_skip` | a failed read is recorded as bad as a whole before it is split, so under Skip, the default, one dead sector loses its batch |

**Bounds.** In the scan runs a batch is 3 sectors, the overlap 1 and the
threshold 2, so that batches straddle the end, re-reads happen, and a flush falls
into a batch, on its end and on the end of the scan. The files lie at the
boundaries: below the metadata end, a video with a picture inside its claim and
two behind it to merge with, one after the other, so that a merged video is
merged again, one in the last sector. With a disk of 10 sectors and a `Word` of
6 the cast cuts batches at two places, whichever sector a resume starts its
batches from. Three runs allow "killed,
resumed, killed, resumed". In `recovery` a page holds one row and a folder one
file, so both change; one file takes two buffers, one has no fragments, and two
runs let the second load what the first saved. A save that fails leaves what a
crash before it leaves. `recovery_resume` has 5 rows on pages of 2.
In `gui` messages of one run meet the next two. In `raw_scan` a batch is 4
sectors and two fully bad ones trigger the skip; `Word` is 16, so that on the
disk of 18 sectors the cast wraps as it does beyond 2 TiB in the code; files lie
across batches and a footer across a search chunk. In `quick_scan` the table's
cache holds 2 sectors of a longer table, directories nest one deeper than
allowed, and runs have offsets of one to five digits with both signs, five being
the width of a word (`WordBytes`, 8 in the code). `Word` is 44, more than the
volumes have sectors, so that only the clusters behind them wrap; `MaxExtents`,
the memory, is more than the longest chain without a cycle needs. `MaxRuns`
stands in the guards of the starting actions; every other bound is a constant of
a configuration. `CHECK_DEADLOCK FALSE` is set where the system does stop: a
closed window, a finished scan or process. In the others
deadlock is checked.

**Fairness.** A thread that can run is scheduled: weak fairness of the scan
thread (`ScanSession`, `RawScan`), the parser, the recovery thread, the worker,
the GUI thread, and of a join whose thread is gone. Nothing is assumed of the
user, of free space or of faults, hence `ScanEnds` and `RecoveryEnds` except a
paused thread. In `CliScan` main and the handler are fair and so is winding up
(`WindUp`), but not the scan itself, which may take for ever unless it is
stopped: `InterruptEnds` holds all the same.

## 4. Proofs

A theorem holds for all values of the constants under the named assumptions of
its module; each module has an inductive invariant `IInv`, lemmas that settle its
data once, and `THEOREM Inductive` or its like, from which the properties follow.

**`ScanSessionProofs`** (`FilesAssumption`, `RangeAssumption`,
`TuningAssumption`, `NoRowAssumption`): `TypeCorrect`, `NoDuplicates`,
`CrashLoses` (`CrashLosesFew`), and `Refinement` (`Spec => StoreSpec`).
`IInv == TypeOK /\ ThreadInv /\ KeysInv`. That rows are distinct is not inductive:
a pending file might have the key of a row, or the thread might not know it.
`KeysInv` says that the keys of rows and pending files are distinct among and
between them, that the thread knows them all from loading to its end, and that
nothing is pending outside that window. `ThreadInv` adds that a running thread
has an open session (a `Commit` of `ScanStore` needs it) and that a batch lies
in the range. Everything that touches files goes through `Flush` or `OnFile`:
`JoinKeys`, `AppendKeys`, `FlushKeys`, `OnFileKeys` for the keys, `FlushCommits`
and `OnFileCommits` for the refinement, `FilesUntouched` for the rest.

**`ScanSessionCoverProofs`** extends it: `Scanned` (`ScannedIsAccounted`),
`ResumePointCovered` and `CompleteStoresAll`, under the hypothesis `FilesApart`:
no two files have the same key and no two signatures the same sector. It is
needed: the code keeps record numbers and sector addresses in one set, and a
collision does drop a file (section 5). They hold for every `Word` and except what
the cast may cut off (`Due`): a sector below the end of a batch that the batch does
not reach is `Cut`, wherever the runs before began their batches.

`CoverInv` adds to `IInv` that a resume
point, saved or in memory, vouches for the sectors below it (`PointOK`), a phase
for the metadata (`MetaOK`), and the place of the loop for what is behind it,
where what a file claims belongs to a file that began there (`LoopOK`); and that
the thread turns a file away only for the key of one that went through `on_file`
(`QueueOK`). A video that was merged is covered by the one that took it, which
may be taken in turn, so "covered" is a chain of merges (`CoveredBy`, `Closed`).
`Advances` (`SavedProgressAdvances`) also assumes `DeepOnly`, sessions in mode
deep and an overlap of at most a batch: in the other modes a resumed scan counts
from zero and takes the saved point back. It excepts a run whose first batch is
cut: its first save may lie behind the saved point, by no more than the overlap.

**`RecoveryProofs`** (`RowsAssumption`, `LimitAssumption`): `TypeCorrect`,
`LeavesNoHalfFile`, `SavedWasHandled`, `IndexCounts`, `FreshHandlesAll`, and
`RecoveredStays`, which assumes distinct names.
`IInv == TypeOK /\ LoopOK /\ SavedOK /\ NoHalfFiles`. `LoopOK` relates the place of
the thread to its counters: the page holds the rows after the cursor without a
gap (`PageOK`), the row in hand is the next (`WorkOK`), the rows handled are those
up to the cursor and the index is as many ahead of `base` (`CountOK`), all rows are
handled when the loop is over (`DoneOK`), and an unfinished file is the current
one (`FileOK`). `SavedOK` bounds the saved row, which the caller may write
between any two steps. `RecoveredStays` adds `DiskOK`; `ReplacedIsNotGood` says
that `CREATE_ALWAYS` only meets files of the same name.

**`ScanRecoverGuiProofs`** (`FilesAssumption`, `DirsAssumption`,
`RunsAssumption`): `TypeCorrect`, which includes that the counts add up,
`IdleStopped`, `PauseShown`. `IInv == TypeOK /\ FileInv /\ IdleMeansStopped /\
PausedIsShown`: `FileInv` says that a file in hand is found and not yet counted
and that a worker has a run. `PostKeepsPause` and `TakeKeepsPause` say that a
pause message stays queued until it is handled; `LeastNat` keeps the switch of
targets within the list.

On it rest `WrittenIsListed` and `CountIsWritten`, from `IInv /\ FilesInv`. That
the count is right between two files is not inductive; `FilesInv` follows the
file in hand: until `WriteSucceeds` no file of the run on a disk has its number
(`HandOK`), from then until `Count` the disks are one ahead of the count
(`CountOK`), and until `PostRecovered` it is the only file whose row is in
neither list nor queue (`ListOK`). A new run starts with no file of its own
because runs are numbered upwards (`RunsOK`).

**`RawScanProofs`** (`DiskAssumption`, `SizeAssumption`): `TypeCorrect`,
`AcceptedAreReal`, and on it four more, each with an invariant of its own.
`IInv == TypeOK /\ CallOK /\ BatchOK /\ RealOK`. The list `todo`
always tiles the rest of the batch (`Tiles`; `TailTiles`, `SplitTiles`,
`TakeRange`), which bounds the count of bad sectors; what is settled of the
buffer is what the disk holds or blank (`Settled`), so that only a real header
can be matched, and after a stop inside a split nothing is accepted (`Real`).

* `IntactReadable` (`IntactIsReadable`, from `SoundInv`): what is called intact
  lies on readable sectors (`Sound`), and where the validator saw the end in the
  header (`Ended`) its header does. `EndingReadable` says that the search read
  every chunk up to the ending it found.
* `NothingMissed` (`SplitMissesNothing`, from `MissInv`): every readable header
  behind the place of the loop is in a file that was found, and what is claimed
  belongs to such a file (`Reached`, `Claims`); what has been read of the batch is
  what the disk holds, and a batch counted as bad throughout has no sector to rely
  on (`Exact`, `AllBad`). `LeftOutIsCut` says that what a batch leaves out up to
  the next is what the cast to 32 bits cuts off.
* `ProgressExact` (`ProgressIsExact`, from `CountInv == MissInv /\ CountOK`): what
  is counted bad lies between the numbers of sectors that must and that may be
  (`MustBeBad`, `MayBeBad`). The proof corrected the property: sectors the cast
  cuts off a batch are skipped with it and counted as bad though nothing read
  them, which the values of the runs do not show.
* `ReportedOnce` (`FoundIsReportedOnce`, from `OnceInv`): no two
  files of `videos`, `merged` and `taken` share a header (`Distinct`), what is
  found is in one of them (`Has`), each is one range, the videos in the order of
  the disk (`Whole`, `InOrder`), and all end before what is claimed does
  (`Before(claimed)`), so that a new file cannot share anything with them.

**`QuickScanProofs`** (`SizesAssumption`, `VolumesAssumption`,
`EntriesAssumption`): `TypeCorrect`, `OwnExtents` (`ExtentsAreTheFile`), `OwnNames`
(`NamesAreOwn`) and `SoundFilesReported` (`SoundFilesAreReported`).
`IInv == TypesOK /\ CacheOK /\ DepthOK /\ WalkOK`. `CacheOK` says that the order
names each cached sector once, which touching, inserting and evicting keep
(`OrderAdd` and its like). `DepthOK` says that a directory is as deep as the stack
below it, also the one whose chain is still being followed. `WalkOK` says that the
extents so far, with the run not yet closed, lead from the first cluster to the
one in hand (`IsPath`), where a link is what the table says unless its entry lies
in two sectors or in one that was not read; the end of the walk makes that the
chain of the property (`IsChain`). Nothing is assumed of the table, cycles, marks
and numbers outside the volume included; the property itself excepts files from
which the table leads to a cluster whose sector wraps. For NTFS the hypothesis
`RunsEncode` says that the runs of a record are its extents as NTFS writes them,
run by run, each offset the two's complement of the distance in as many bytes as
it takes (`Writes`). That the code reads this distance back, by adding up the bytes
and taking away the sign, is proved (`DeltaReads`), except for a negative one of
the full width; `DecodeRuns` then proves that `Decoded` finds these extents and
stops at the hole behind them. `FlattenType`, `DeltaReads` and `DecodeExists` take
the least counterexample in place of an induction. The record with several data
attributes, whose runs the code puts together, is left to TLC.

The other theorems assume of the volume what its structure must be for the
property to make sense, never that a sector can be read:

* `OwnNames`, from `NamesAreWhole`: there is a set of clusters, those of
  directories and those the table may lead to from them, in which the first part
  of a long name stands directly before its file, also across the end of a
  cluster. Without it a part that lost its file would be taken for the next one.
  `NamesInv` relates the long name in hand to the entry just passed (`FrameOK`)
  and follows it into `walk.file` and `files`.
* `RecordsReported`, from `MftFits`: the code knows the size of the MFT from its
  first record or falls back on `FallbackCount`, and records beyond that are
  never looked at. `RecordsInv` says what lies before the place reached: all of
  it that is sound was reported, once, and nothing behind it was.
* `SoundEntriesReported`, from `TableIsWhole`: a cluster of the table is one of
  the volume, with a sector that 32 bits can number, and so is the one it leads
  to. `ReachInv` is about the set of
  directories gone through, each with its depth: what one of them lists is
  reported or is itself a directory gone through (`Covered`), as is what lies
  behind in every open one, and a directory that can be read is read as it is
  (`FrameSound`, `SoundAhead`). `NestOK` says which entry each open directory
  waits for. Loops are allowed: the depth bounds them, and the set is by depth.
* `ReportedOnce`, from `IsTree`: if no directory leads back to one above it, the
  entries and clusters can be numbered as a walk would pass them (`IsNumbering`),
  what is in a directory between its own two numbers. Entries that share a
  cluster have no numbering, and the code does report what is in it twice.
  `OrderInv` keeps the files in ascending order and before all that is ahead in
  the open directories, each of which lies within the one below it. Whatever is
  damaged: a read that fails only shortens what is ahead.

All volumes of the run satisfy `MftFits`, and each of the other three hypotheses all
but the one made to fail it: `NamesAreWhole` not the one with a directory at a
cluster that wraps, `TableIsWhole` not the one with a link to such a cluster, and
`IsTree` not the one with a cycle in the chain of a directory, where the
enumeration does not end.

**`SaveDirsProofs`** (`DisksAssumption`): `DistinctTargets` and `SparedDrive`.
`IInv == TypeOK /\ DialogIsCurrent /\ TargetsOnDistinctDisks /\ Spares(saveDirs,
asked)`; the dialog works on a copy, so the invariant speaks of both.
`ExcludedIsEnough` says why excluding the letters with any extent on the drive
suffices, though the test looks at first extents.

**`CliScanProofs`** (no assumption is used): `ExitIsSafe` and
`FinishIsStored`. `IInv == TypeOK /\ OwnedOK /\ MainOK /\ ExitKeepsFiles`: a thread
that is not over is joinable, files are pending only while it works or until it
has flushed, and what main knows of the thread from where it stands. The second
join needs no case of its own beyond `OwnedOK`: the thread is not joinable, so it
is over. `FinishIsStored` says that when main's loop ends by its condition, which
is when it rightly reports the scan as complete, all it found is in the database.

`FinishIsStored` and the types of `Recovery` and `CliScan` are proved and in no
run. Every safety property and action property of a passing run has a theorem;
only model-checked is everything under fairness (`StopEndsTheThread`, `ScanEnds`,
`StopRecoveryReturns`, `RecoveryEnds`, `HandlerReturns`, `EndIsShown`,
`ScanTerminates`, `EnumerationEnds`, `InterruptEnds`).
Liveness, `ENABLED` and induction over data are out of the provers' reach.

## 5. Disagreements without a run

Met while modelling; either no property of a run is about them, or no single
sentence of the repository states the opposite:

* A power loss loses files: the resume point is saved ahead of the pending files
  (`scan_manager.cpp:244`), against
  `docs/superpowers/specs/2026-05-28-disk-recover-design.md:156`.
* Record numbers and sector addresses share one key set (`scan_manager.cpp:204`):
  a collision drops a new file.
* After a switch of targets the file still goes to the full disk
  (`scan_recover_manager.cpp:159-160`, `365`).
* A drive chosen after the directories is not compared with them
  (`main_window.cpp:384-387`), against `save_dirs_dialog.cpp:178` and
  `README.md:245`.
* The long name of more than 13 characters loses its rest and its extension
  (`fat_parser.cpp:260-266`).
* The cast to 32 bits cuts one batch per 2 TiB (`signature_scanner_impl.hpp:386`);
  `README.md:228` promises disks of 5 TB and more. The properties of `ScanSession`
  and `RawScan` except the sectors it cuts off.
* A file is undamaged if its validator saw a footer in the header's chunk,
  whatever the footer search could not read (`signature_scanner_impl.hpp:294`).
* A cycle of the FAT is followed until memory runs out (`fat_parser.cpp:195`),
  clusters of a damaged FAT32 wrap to other sectors (`fat_parser.cpp:94-97`), and
  a negative run offset of 8 bytes is shifted by 64 (`mft_parser.cpp:285`).
* `create_directories` throws in the worker of the window and ends the program
  (`scan_recover_manager.cpp:101`, `335`); a folder cannot be created on a target
  that was pulled out or is full.
* The window never recovers what NTFS calls deleted: the parser says Minor, the
  worker takes None only (`scan_recover_manager.cpp:352`, `README.md:9`).
* `--filter` of `recover` is parsed and never used (`main.cpp:328`,
  `README.md:178`), and `recover` polls for ever when all targets are full
  (`main.cpp:363`).
* `--no-images` and `--no-videos` are flags bound to variables that are true
  already (`main.cpp:243`, `252-253`), so that they change nothing, against
  `README.md:164-165`.
* After Ctrl-C main prints that the scan is complete while it may still run
  (`main.cpp:311-315`); the `Logger` is destroyed before the scan thread that
  logs through it is joined.

Facts the models keep and no property objects to: failed probes and footer reads
are recorded as bad and spoil later batches; a block prefetched in part counts
as valid; pictures closer than twice the estimated size may be taken for one;
merged videos swallow what lies in the gap, which is the default for every
type; `should_stop` is not looked at by the FAT parser; directories deeper than
10 are lost, and one dead sector loses the rest of an extent of a directory;
`$MFT` is read as one run, resident files are not reported, streams are
concatenated and a hole ends the list; cancelling the dialog empties the
directories but not the label; drives behind three that do not open are not
listed.

## 6. Not modelled

* Signatures and validators: pure functions over file formats. What they give is
  in constants (`Confidence`, `Heuristic`, `Pos`, `Size`).
* Preview: decodes with WIC and FFmpeg; no decision depends on it.
* The exFAT parser: decodes a boot sector into fields nothing reads.
* The logger, except its lifetime, string helpers, build scripts.
* The `bad_sectors` table and the listing commands, which print it and the rows;
  the `recover` and `scan-recover` commands, which only poll their manager.
* What a directory reads from sectors that are no cluster of the volume: no
  entries here. Run offsets of more than 8 bytes, which the header of a run could
  announce and NTFS does not write. The NTFS fixup, a mismatch of which goes
  unnoticed.
* `progress_` and `stats_` as the user sees them; no decision reads them. The
  start sector of a range, which `scan_manager.cpp` always leaves at 0 for a new
  scan, is a constant of `ScanSession`.
* In the window the sector range, the filters and the status texts.

## 7. Plan

Done: all modules above, and a proof of every safety property of a passing run.
What would add most next: an `IsTree` that asks nothing of directories deeper than
`MaxDepth`; a
composition of `SaveDirs` with `ScanRecoverGui` that keeps the target disk of each
file.
