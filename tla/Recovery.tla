------------------------------ MODULE Recovery ------------------------------
(***************************************************************************)
(* RecoveryManager: the caller (start_recovery, pause_recovery,            *)
(* resume_recovery, stop_recovery), the recovery thread                    *)
(* (recovery_thread_func with recover_single_file, build_output_path and   *)
(* check_space_and_switch), the MultiTargetWriter it asks for a target,    *)
(* the recovery_progress row it leaves in the cache and the files it       *)
(* writes.  Other programs fill and empty the target disks, a scan may add *)
(* rows, and the process may die at any moment.                            *)
(*                                                                         *)
(* A row of scan_result is its position in id order.  The fragments of a   *)
(* file are the number of buffers it takes to copy them.                   *)
(***************************************************************************)
EXTENDS Integers, Sequences, FiniteSets, Functions

CONSTANTS
  MaxRows,      \* bound of the model: rows of scan_result
  Ext, Name,    \* extension and file name of a row
  Chunks,       \* buffers to copy; 0 for a row without fragments
  SaveDirs,     \* RecoveryConfig::save_dirs
  PageSize,     \* PAGE_SIZE (1000)
  FolderLimit,  \* files before the next subfolder (1000)
  Faults,       \* what may go wrong: "crash", "db", "disk", "create",
                \* "copy", "save"
  NoRow,        \* the absence of a recovery_progress row
  MaxRuns       \* bound of the model: recovery threads started

Rows == 1..MaxRows
Dirs == Range(SaveDirs)
Exts == Range(Ext)

ASSUME RowsAssumption ==
  /\ MaxRows \in Nat
  /\ DOMAIN Ext = Rows /\ DOMAIN Name = Rows
  /\ Chunks \in [Rows -> Nat]
  /\ SaveDirs \in Seq(Dirs)
ASSUME LimitAssumption ==
  PageSize \in Nat \ {0} /\ FolderLimit \in Nat \ {0} /\ MaxRuns \in Nat

VARIABLES
  rows,         \* rows of scan_result
  saved,        \* the session's recovery_progress row
  out,          \* files on the target disks
  roomy,        \* target directories with at least min_free_space_ left
  app,          \* the call the caller is in
  recovering, paused, stop,         \* the atomics
  pc,           \* where the recovery thread is
  dbOpen,       \* cache_db_ is open
  total,        \* stats_.total_files
  recovered, failed,                \* the other stats_
  index,        \* last_file_index_
  cursor,       \* last_db_id
  page,         \* rows of the page not yet handled
  path, left, success,              \* of recover_single_file
  counters,     \* ext_counters_ and ext_subfolder_
  targets, current,                 \* of writer_
  runs,         \* recovery threads started
  base,         \* history: the index this thread began with
  handled, good,  \* history: rows this thread tallied, and recovered
  everHandled,  \* history: rows some thread tallied
  attempts,     \* history: rows tallied by all threads, repeats counted
  torn          \* history: paths a crash left half written

flagVars  == <<recovering, paused, stop>>
statVars  == <<total, recovered, failed, index>>
loopVars  == <<cursor, page>>
fileVars  == <<path, left, success>>
writeVars == <<counters, targets, current>>
histVars  == <<base, handled, good, everHandled, attempts, torn>>
envVars   == <<rows, roomy>>
vars == <<rows, saved, out, roomy, app, recovering, paused, stop, pc, dbOpen,
          total, recovered, failed, index, cursor, page, path, left, success,
          counters, targets, current, runs, base, handled, good, everHandled,
          attempts, torn>>

NoPath == <<>>
NoCounters == [k \in Dirs \X Exts |-> [count |-> 0, sub |-> 1]]

Init ==
  /\ rows \in 0..MaxRows /\ saved = NoRow /\ out = {} /\ roomy = Dirs
  /\ app = "idle"
  /\ recovering = FALSE /\ paused = FALSE /\ stop = FALSE
  /\ pc = "none" /\ dbOpen = FALSE
  /\ total = 0 /\ recovered = 0 /\ failed = 0 /\ index = 0
  /\ cursor = 0 /\ page = <<>>
  /\ path = NoPath /\ left = 0 /\ success = FALSE
  /\ counters = NoCounters /\ targets = <<>> /\ current = 1
  /\ runs = 0
  /\ base = 0 /\ handled = {} /\ good = {} /\ everHandled = {} /\ attempts = 0
  /\ torn = {}

----------------------------------------------------------------------------
(* The recovery_progress row.                                              *)

\* save_recovery_progress_state, from either thread.  It fails silently when
\* cache_db_ is not open.  The counters go through JSON and come back as
\* they were.
SaveState ==
  \/ /\ dbOpen
     /\ saved' = [index |-> index, recovered |-> recovered, counters |-> counters]
  \/ /\ ~dbOpen \/ "save" \in Faults
     /\ UNCHANGED saved

----------------------------------------------------------------------------
(* The caller.                                                             *)

StartRecovery ==
  /\ app = "idle" /\ ~recovering /\ pc = "none" /\ runs < MaxRuns
  /\ stop' = FALSE /\ paused' = FALSE /\ recovering' = TRUE
  /\ total' = 0 /\ recovered' = 0 /\ failed' = 0 /\ index' = 0
  /\ counters' = NoCounters
  /\ base' = 0 /\ handled' = {} /\ good' = {}
  /\ pc' = "open" /\ runs' = runs + 1
  /\ UNCHANGED <<envVars, saved, out, app, dbOpen, loopVars, fileVars,
                 targets, current, everHandled, attempts, torn>>

PauseRecovery ==
  /\ app = "idle" /\ recovering
  /\ paused' = TRUE /\ app' = "pausing"
  /\ UNCHANGED <<envVars, saved, out, recovering, stop, pc, dbOpen, statVars,
                 loopVars, fileVars, writeVars, runs, histVars>>

\* pause_recovery saves in the caller's thread, whatever the recovery thread
\* is doing meanwhile.
PauseSaves ==
  /\ app = "pausing" /\ app' = "idle"
  /\ SaveState
  /\ UNCHANGED <<envVars, out, flagVars, pc, dbOpen, statVars, loopVars,
                 fileVars, writeVars, runs, histVars>>

ResumeRecovery ==
  /\ app = "idle" /\ recovering
  /\ paused' = FALSE
  /\ UNCHANGED <<envVars, saved, out, app, recovering, stop, pc, dbOpen,
                 statVars, loopVars, fileVars, writeVars, runs, histVars>>

StopRecovery ==
  /\ app = "idle" /\ app' = "stopping"
  /\ stop' = TRUE /\ paused' = FALSE
  /\ UNCHANGED <<envVars, saved, out, recovering, pc, dbOpen, statVars,
                 loopVars, fileVars, writeVars, runs, histVars>>

\* The join is over.
StopReturns ==
  /\ app = "stopping" /\ pc = "none" /\ app' = "idle"
  /\ recovering' = FALSE
  /\ UNCHANGED <<envVars, saved, out, paused, stop, pc, dbOpen, statVars,
                 loopVars, fileVars, writeVars, runs, histVars>>

----------------------------------------------------------------------------
(* The recovery thread up to its loop.                                     *)

OpenCacheKeepsFlag ==
  /\ pc = "open"
  /\ \/ dbOpen' = TRUE /\ pc' = "load"
     \/ "db" \in Faults /\ pc' = "none" /\ UNCHANGED dbOpen
  /\ UNCHANGED <<envVars, saved, out, app, flagVars, statVars, loopVars,
                 fileVars, writeVars, runs, histVars>>

OpenCache ==
  /\ pc = "open"
  /\ \/ dbOpen' = TRUE /\ pc' = "load" /\ UNCHANGED recovering
     \/ "db" \in Faults /\ pc' = "none" /\ recovering' = FALSE /\ UNCHANGED dbOpen
  /\ UNCHANGED <<envVars, saved, out, app, paused, stop, statVars, loopVars,
                 fileVars, writeVars, runs, histVars>>

\* load_recovery_progress_state.
LoadState ==
  /\ pc = "load" /\ pc' = "count"
  /\ \/ saved = NoRow /\ UNCHANGED <<index, recovered, counters>>
     \/ /\ saved # NoRow
        /\ index' = saved.index /\ recovered' = saved.recovered
        /\ counters' = saved.counters
  /\ base' = index'
  /\ UNCHANGED <<envVars, saved, out, app, flagVars, dbOpen, total, failed,
                 loopVars, fileVars, targets, current, runs, handled, good,
                 everHandled, attempts, torn>>

QueryFileCount ==
  /\ pc = "count"
  /\ total' = rows
  /\ pc' = IF rows = 0 THEN "close" ELSE "disk"
  /\ UNCHANGED <<envVars, saved, out, app, flagVars, dbOpen, recovered, failed,
                 index, loopVars, fileVars, writeVars, runs, histVars>>

\* The targets are added again by every thread of the same manager.
OpenDisk ==
  /\ pc = "disk"
  /\ targets' = targets \o SaveDirs
  /\ cursor' = 0 /\ page' = <<>>
  /\ pc' = "page" \/ ("disk" \in Faults /\ pc' = "close")
  /\ UNCHANGED <<envVars, saved, out, app, flagVars, dbOpen, statVars,
                 fileVars, counters, current, runs, histVars>>

----------------------------------------------------------------------------
(* The loop over the rows.                                                 *)

\* query_files_after_id.
PageAfter(id) ==
  [i \in 1..(IF rows - id < PageSize THEN rows - id ELSE PageSize) |-> id + i]

LoadPage ==
  /\ pc = "page"
  /\ \/ /\ index < total /\ ~stop
        /\ page' = PageAfter(cursor)
        /\ pc' = IF page' = <<>> THEN "save" ELSE "row"
     \/ /\ index >= total \/ stop
        /\ pc' = "save"
        /\ UNCHANGED page
  /\ UNCHANGED <<envVars, saved, out, app, flagVars, dbOpen, statVars, cursor,
                 fileVars, writeVars, runs, histVars>>

NextRow ==
  /\ pc = "row"
  /\ \/ page = <<>> /\ pc' = "page"
     \/ page # <<>> /\ stop /\ pc' = "save"
     \/ page # <<>> /\ ~paused /\ ~stop /\ pc' = "space"
  /\ UNCHANGED <<envVars, saved, out, app, flagVars, dbOpen, statVars,
                 loopVars, fileVars, writeVars, runs, histVars>>

\* has_space, and switch_to_next_target going round the targets.
HasSpace == current <= Len(targets) /\ targets[current] \in roomy
After(i) == ((current - 1 + i) % Len(targets)) + 1
Fitting  == {i \in 1..Len(targets) : targets[After(i)] \in roomy}
SwitchTarget ==
  \E i \in Fitting : (\A j \in Fitting : i <= j) /\ current' = After(i)

\* check_space_and_switch, going on at yes or at no.
CheckSpaceAndSwitch(yes, no) ==
  /\ \/ /\ HasSpace
        /\ pc' = yes
        /\ UNCHANGED <<current, paused, saved>>
     \/ /\ ~HasSpace
        /\ SwitchTarget
        /\ pc' = yes
        /\ UNCHANGED <<paused, saved>>
     \/ /\ ~HasSpace /\ Fitting = {}
        /\ paused' = TRUE
        /\ SaveState
        /\ pc' = no
        /\ UNCHANGED current
  /\ UNCHANGED <<envVars, out, app, recovering, stop, dbOpen, statVars,
                 loopVars, fileVars, counters, targets, runs, histVars>>

CheckSpace == pc = "space" /\ CheckSpaceAndSwitch("create", "noSpace")

NoSpaceDeaf ==
  /\ pc = "noSpace" /\ ~paused /\ pc' = "recheck"
  /\ UNCHANGED <<envVars, saved, out, app, flagVars, dbOpen, statVars,
                 loopVars, fileVars, writeVars, runs, histVars>>

NoSpace ==
  /\ pc = "noSpace"
  /\ \/ stop /\ pc' = "save"
     \/ ~stop /\ ~paused /\ pc' = "recheck"
  /\ UNCHANGED <<envVars, saved, out, app, flagVars, dbOpen, statVars,
                 loopVars, fileVars, writeVars, runs, histVars>>

CheckSpaceAgain == pc = "recheck" /\ CheckSpaceAndSwitch("create", "skip")

Handle(r) ==
  /\ handled' = handled \cup {r} /\ everHandled' = everHandled \cup {r}
  /\ attempts' = attempts + 1

\* Still no space after a resume: the row is given up, and paused_ stays set.
SkipRowFallsThrough ==
  /\ pc = "skip" /\ pc' = "create"
  /\ failed' = failed + 1 /\ index' = index + 1
  /\ UNCHANGED <<envVars, saved, out, app, flagVars, dbOpen, total, recovered,
                 loopVars, fileVars, writeVars, runs, histVars>>

SkipRow ==
  /\ pc = "skip" /\ pc' = "row"
  /\ failed' = failed + 1 /\ index' = index + 1
  /\ cursor' = Head(page) /\ page' = Tail(page)
  /\ Handle(Head(page))
  /\ UNCHANGED <<envVars, saved, out, app, flagVars, dbOpen, total, recovered,
                 fileVars, writeVars, runs, base, good, torn>>

----------------------------------------------------------------------------
(* recover_single_file.                                                    *)

Without(p) == {o \in out : o.path # p}

\* build_output_path: a full folder is followed by a numbered one for one
\* file; the count then starts again, and with it the first folder.
BuildOutputPath(r, k) ==
  LET c == counters[k] IN
  \/ /\ c.count < FolderLimit
     /\ path' = <<k, 1, Name[r]>>
     /\ counters' = [counters EXCEPT ![k] = [count |-> c.count + 1, sub |-> c.sub]]
  \/ /\ c.count >= FolderLimit
     /\ path' = <<k, c.sub + 1, Name[r]>>
     /\ counters' = [counters EXCEPT ![k] = [count |-> 1, sub |-> c.sub + 1]]

\* CREATE_ALWAYS truncates what is there.
CreateOutput ==
  LET r == Head(page) IN
  /\ pc = "create"
  /\ \/ /\ Chunks[r] = 0
        /\ success' = FALSE /\ pc' = "tally"
        /\ UNCHANGED <<path, left, out, counters>>
     \/ /\ Chunks[r] > 0
        /\ BuildOutputPath(r, <<targets[current], Ext[r]>>)
        /\ \/ /\ out' = Without(path') \cup
                        {[path |-> path', row |-> r, whole |-> FALSE]}
              /\ left' = Chunks[r] /\ pc' = "copy"
              /\ UNCHANGED success
           \/ /\ "create" \in Faults
              /\ success' = FALSE /\ pc' = "tally"
              /\ UNCHANGED <<out, left>>
  /\ UNCHANGED <<envVars, saved, app, flagVars, dbOpen, statVars, loopVars,
                 targets, current, runs, histVars>>

CopyBuffer ==
  /\ pc = "copy" /\ ~stop
  /\ left' = left - 1
  /\ IF left > 1
     THEN UNCHANGED <<pc, success, out>>
     ELSE /\ success' = TRUE /\ pc' = "tally"
          /\ out' = Without(path) \cup
                    {[path |-> path, row |-> Head(page), whole |-> TRUE]}
  /\ UNCHANGED <<envVars, saved, app, flagVars, dbOpen, statVars, loopVars,
                 path, writeVars, runs, histVars>>

\* Stopped, or a sector cannot be read, or the write fails: the output is
\* deleted and the row counts as failed.
GiveUpCopyKeepsFile ==
  /\ pc = "copy" /\ (stop \/ "copy" \in Faults)
  /\ success' = FALSE /\ pc' = "tally"
  /\ UNCHANGED <<envVars, saved, out, app, flagVars, dbOpen, statVars,
                 loopVars, path, left, writeVars, runs, histVars>>

GiveUpCopyReportsSuccess ==
  /\ pc = "copy" /\ (stop \/ "copy" \in Faults)
  /\ out' = Without(path)
  /\ success' = (left < Chunks[Head(page)]) /\ pc' = "tally"
  /\ UNCHANGED <<envVars, saved, app, flagVars, dbOpen, statVars,
                 loopVars, path, left, writeVars, runs, histVars>>

GiveUpCopy ==
  /\ pc = "copy" /\ (stop \/ "copy" \in Faults)
  /\ out' = Without(path)
  /\ success' = FALSE /\ pc' = "tally"
  /\ UNCHANGED <<envVars, saved, app, flagVars, dbOpen, statVars,
                 loopVars, path, left, writeVars, runs, histVars>>

\* The statistics first, then the index: a save may come between them.
Tally ==
  /\ pc = "tally" /\ pc' = "advance"
  /\ IF success THEN /\ recovered' = recovered + 1
                     /\ good' = good \cup {Head(page)}
                     /\ UNCHANGED failed
                ELSE failed' = failed + 1 /\ UNCHANGED <<recovered, good>>
  /\ Handle(Head(page))
  /\ UNCHANGED <<envVars, saved, out, app, flagVars, dbOpen, total, index,
                 loopVars, fileVars, writeVars, runs, base, torn>>

AdvanceForgetsCursor ==
  /\ pc = "advance" /\ pc' = "row"
  /\ index' = index + 1
  /\ cursor' = (IF success THEN Head(page) ELSE cursor) /\ page' = Tail(page)
  /\ UNCHANGED <<envVars, saved, out, app, flagVars, dbOpen, total, recovered,
                 failed, fileVars, writeVars, runs, histVars>>

Advance ==
  /\ pc = "advance" /\ pc' = "row"
  /\ index' = index + 1
  /\ cursor' = Head(page) /\ page' = Tail(page)
  /\ UNCHANGED <<envVars, saved, out, app, flagVars, dbOpen, total, recovered,
                 failed, fileVars, writeVars, runs, histVars>>

----------------------------------------------------------------------------
(* The end of the thread.                                                  *)

SaveFinal ==
  /\ pc = "save" /\ pc' = "close"
  /\ SaveState
  /\ UNCHANGED <<envVars, out, app, flagVars, dbOpen, statVars, loopVars,
                 fileVars, writeVars, runs, histVars>>

CloseCache ==
  /\ pc = "close" /\ pc' = "end"
  /\ dbOpen' = FALSE
  /\ UNCHANGED <<envVars, saved, out, app, flagVars, statVars, loopVars,
                 fileVars, writeVars, runs, histVars>>

ThreadEnds ==
  /\ pc = "end" /\ pc' = "none"
  /\ recovering' = FALSE
  /\ UNCHANGED <<envVars, saved, out, app, paused, stop, dbOpen, statVars,
                 loopVars, fileVars, writeVars, runs, histVars>>

----------------------------------------------------------------------------
(* The world around the process.                                           *)

\* Other programs, and the files just written, use up the targets.
TargetSpace(S) ==
  /\ S # roomy /\ roomy' = S
  /\ UNCHANGED <<rows, saved, out, app, flagVars, pc, dbOpen, statVars,
                 loopVars, fileVars, writeVars, runs, histVars>>

\* A scan of the session in another process.
ScanAppends ==
  /\ rows < MaxRows /\ rows' = rows + 1
  /\ UNCHANGED <<saved, out, roomy, app, flagVars, pc, dbOpen, statVars,
                 loopVars, fileVars, writeVars, runs, histVars>>

Crash ==
  /\ "crash" \in Faults /\ pc # "none"
  /\ torn' = IF pc = "copy" THEN torn \cup {path} ELSE torn
  /\ app' = "idle" /\ recovering' = FALSE /\ paused' = FALSE /\ stop' = FALSE
  /\ pc' = "none" /\ dbOpen' = FALSE
  /\ total' = 0 /\ recovered' = 0 /\ failed' = 0 /\ index' = 0
  /\ cursor' = 0 /\ page' = <<>>
  /\ path' = NoPath /\ left' = 0 /\ success' = FALSE
  /\ counters' = NoCounters /\ targets' = <<>> /\ current' = 1
  /\ base' = 0 /\ handled' = {} /\ good' = {}
  /\ UNCHANGED <<envVars, saved, out, runs, everHandled, attempts>>

RecoveryThread ==
  \/ OpenCache \/ LoadState \/ QueryFileCount \/ OpenDisk
  \/ LoadPage \/ NextRow \/ CheckSpace \/ NoSpace \/ CheckSpaceAgain \/ SkipRow
  \/ CreateOutput \/ CopyBuffer \/ GiveUpCopy \/ Tally \/ Advance
  \/ SaveFinal \/ CloseCache \/ ThreadEnds

Caller == \/ StartRecovery \/ PauseRecovery \/ PauseSaves
          \/ ResumeRecovery \/ StopRecovery \/ StopReturns

Next == \/ RecoveryThread \/ Caller
        \/ (\E S \in SUBSET Dirs : TargetSpace(S)) \/ ScanAppends \/ Crash

Spec == Init /\ [][Next]_vars

\* The operating system runs the thread and wakes the caller's join.
FairSpec == Spec /\ WF_vars(RecoveryThread) /\ WF_vars(StopReturns)

----------------------------------------------------------------------------
(* Properties.                                                             *)

Counter == [count : 0..FolderLimit, sub : Nat \ {0}]
Saved   == [index : Nat, recovered : Nat, counters : [Dirs \X Exts -> Counter]]
Steps   == {"none", "open", "load", "count", "disk", "page", "row", "space",
            "noSpace", "recheck", "skip", "create", "copy", "tally",
            "advance", "save", "close", "end"}

CallTypeOK == /\ app \in {"idle", "pausing", "stopping"}
              /\ recovering \in BOOLEAN /\ paused \in BOOLEAN /\ stop \in BOOLEAN
              /\ pc \in Steps /\ dbOpen \in BOOLEAN /\ success \in BOOLEAN
RowTypeOK  == /\ rows \in 0..MaxRows /\ total \in 0..MaxRows
              /\ saved = NoRow \/ saved \in Saved
              /\ recovered \in Nat /\ failed \in Nat /\ index \in Nat
              /\ cursor \in 0..MaxRows /\ page \in Seq(Rows)
FileTypeOK == /\ left \in Nat
              /\ counters \in [Dirs \X Exts -> Counter]
              /\ targets \in Seq(Dirs) /\ current \in Nat \ {0}
HistTypeOK == /\ base \in Nat /\ attempts \in Nat /\ runs \in Nat
              /\ handled \subseteq Rows /\ good \subseteq Rows
              /\ everHandled \subseteq Rows

\* The type invariant.
TypeOK == CallTypeOK /\ RowTypeOK /\ FileTypeOK /\ HistTypeOK

\* Whatever interrupts recover_single_file (a stop, a bad sector, a full
\* disk), it leaves no half written file behind; only a crash does.
NoHalfFiles ==
  \A o \in out : o.whole \/ o.path \in torn \/ (pc = "copy" /\ o.path = path)

\* With distinct file names, what the statistics of this thread count as
\* recovered is on a target disk, whole: no later row, switch of the target or
\* turn of the folder counter overwrites or deletes it.
RecoveredIsOnDisk ==
  \A r \in good : \E o \in out : o.row = r /\ o.whole

\* A thread handles no row twice, whichever way it leaves a row: the index it
\* reports has moved by the number of rows handled.
IndexCountsRows ==
  pc \in {"row", "page", "save"} =>
    /\ index = base + Cardinality(handled)
    /\ cursor \in handled \cup {0}

\* A recovery that began with the first row and was not stopped has handled
\* every row it found in the cache, across its pages, skips and pauses.
FreshRunHandlesAll ==
  (pc = "save" /\ base = 0 /\ ~stop) => 1..total \subseteq handled

\* What a pause, a stop or a power loss after them remembers as handled was
\* handled: the saved index is at most the number of rows ever tallied.
SavedIsHandled == saved # NoRow => saved.index <= attempts

\* stop_recovery returns, also when the thread is paused, out of space or in
\* the middle of a file.
StopRecoveryReturns == (app = "stopping") ~> (app = "idle")

\* A recovery ends by itself unless it is paused, by the caller or for lack
\* of space.
RecoveryEnds == recovering ~> (~recovering \/ paused)

----------------------------------------------------------------------------
(* What comments in the code say, and the code does not do.                *)

\* recovery_manager.cpp: "Load recovery progress if exists (for resume)".  A
\* resumed recovery that runs to its end has, with the one it resumes,
\* handled every row.
ResumeReachesAll ==
  (pc = "save" /\ ~stop) => 1..total \subseteq everHandled
=============================================================================
