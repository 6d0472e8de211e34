--------------------------- MODULE ScanRecoverGui ---------------------------
(***************************************************************************)
(* The window of the GUI program and the scan-and-recover worker it        *)
(* starts.  MainWindow runs on the GUI thread: it takes button clicks and  *)
(* posted messages, and joins the worker in some of its handlers.          *)
(* ScanAndRecoverManager::worker_thread scans the disk, writes each file   *)
(* it finds to a target directory at once and posts what happened.         *)
(*                                                                         *)
(* A file is its position in the order the scan finds files; the three     *)
(* scan modes differ in what they find and in how often they report.       *)
(* Status texts and the progress bar change nothing else and are left out  *)
(* of the queue; posting them is the step Report.                          *)
(***************************************************************************)
EXTENDS Integers, Sequences, FiniteSets, Functions

CONSTANTS
  MaxFiles,     \* bound of the model: files the scan finds
  Intact,       \* the files whose corruption_level is None
  SaveDirs,     \* Config::output_dirs, never empty (main_window.cpp:337)
  Faults,       \* what may go wrong: "open", "directory", "create", "write"
  MaxRuns       \* bound of the model: runs the user starts

Files == 1..MaxFiles
Dirs == Range(SaveDirs)

ASSUME FilesAssumption == MaxFiles \in Nat /\ Intact \subseteq Files
ASSUME DirsAssumption == SaveDirs \in Seq(Dirs) /\ SaveDirs # <<>>
ASSUME RunsAssumption == MaxRuns \in Nat

VARIABLES
  state,        \* MainWindow::state_
  stopButton,   \* the Stop button is enabled
  gui,          \* what the GUI thread is in: its message loop, a join, or
                \* nothing any more ("closed", "terminated")
  queue,        \* posted messages not yet handled
  list,         \* rows of the list of recovered files
  running, paused, stop,    \* the atomics of *manager_
  thread,       \* where the worker is
  next,         \* the next file the scan finds
  dir,          \* output_dir of the file in hand
  current,      \* writer_.current_
  success,      \* what recover_file returns
  found, recovered, failed, \* progress_
  disk,         \* files on the target disks
  roomy,        \* directories with at least min_free_space
  run           \* runs started; 0 while manager_ is null

windowVars  == <<state, stopButton, gui, list>>
flagVars    == <<running, paused, stop>>
fileVars    == <<next, dir, current, success>>
countVars   == <<found, recovered, failed>>
managerVars == <<flagVars, thread, fileVars, countVars, run>>
vars == <<state, stopButton, gui, queue, list, running, paused, stop, thread,
          next, dir, current, success, found, recovered, failed, disk, roomy,
          run>>

NoDir == ""
Dead == thread \in {"none", "exited", "terminated"}
Over == {"closed", "terminated"}
Joining == {"joinStart", "joinComplete", "joinDestroy"}

Recovered(f) == [kind |-> "recovered", row |-> <<run, f>>]
PausedMsg    == [kind |-> "paused"]
CompleteMsg  == [kind |-> "complete"]

Post(m) == queue' = Append(queue, m)

Init ==
  /\ state = "Idle" /\ stopButton = FALSE /\ gui = "loop"
  /\ queue = <<>> /\ list = <<>>
  /\ running = FALSE /\ paused = FALSE /\ stop = FALSE /\ thread = "none"
  /\ next = 1 /\ dir = NoDir /\ current = 1 /\ success = FALSE
  /\ found = 0 /\ recovered = 0 /\ failed = 0
  /\ disk = {} /\ roomy = Dirs /\ run = 0

----------------------------------------------------------------------------
(* The user.  The system hands a thread its posted messages before the     *)
(* mouse, so a click is seen when none is waiting.                         *)

MayClick == gui = "loop" /\ queue = <<>>

\* on_start_pause in state Idle: the list is cleared, then the old manager is
\* destroyed, which stops and joins its worker on the GUI thread.
ClickStart ==
  /\ MayClick /\ state = "Idle" /\ run < MaxRuns
  /\ list' = <<>>
  /\ gui' = "joinStart"
  /\ stop' = TRUE /\ paused' = FALSE
  /\ UNCHANGED <<state, stopButton, queue, running, thread, fileVars,
                 countVars, disk, roomy, run>>

SpawnKeepsCounts ==
  /\ running' = TRUE /\ paused' = FALSE /\ stop' = FALSE /\ thread' = "open"
  /\ next' = 1 /\ dir' = NoDir /\ current' = 1 /\ success' = FALSE
  /\ UNCHANGED countVars
  /\ run' = run + 1

\* A new manager, with a writer of its own, and its worker.
Spawn ==
  /\ running' = TRUE /\ paused' = FALSE /\ stop' = FALSE /\ thread' = "open"
  /\ next' = 1 /\ dir' = NoDir /\ current' = 1 /\ success' = FALSE
  /\ found' = 0 /\ recovered' = 0 /\ failed' = 0
  /\ run' = run + 1

\* The join returns and the new manager starts its worker.  Messages of the
\* old worker stay in the queue.
StartJoined ==
  /\ gui = "joinStart" /\ Dead
  /\ Spawn
  /\ state' = "Running" /\ stopButton' = TRUE /\ gui' = "loop"
  /\ UNCHANGED <<list, queue, disk, roomy>>

ClickPause ==
  /\ MayClick /\ state = "Running"
  /\ paused' = TRUE /\ state' = "Paused"
  /\ UNCHANGED <<stopButton, gui, queue, list, running, stop, thread, fileVars,
                 countVars, disk, roomy, run>>

ClickContinue ==
  /\ MayClick /\ state = "Paused"
  /\ paused' = FALSE /\ state' = "Running"
  /\ UNCHANGED <<stopButton, gui, queue, list, running, stop, thread, fileVars,
                 countVars, disk, roomy, run>>

\* on_stop does not wait for the worker.
ClickStop ==
  /\ MayClick /\ stopButton
  /\ stop' = TRUE /\ paused' = FALSE
  /\ state' = "Idle" /\ stopButton' = FALSE
  /\ UNCHANGED <<gui, queue, list, running, thread, fileVars, countVars, disk,
                 roomy, run>>

\* The window is closed: WM_DESTROY stops and joins the worker.
CloseWindow ==
  /\ MayClick
  /\ gui' = "joinDestroy" /\ stop' = TRUE /\ paused' = FALSE
  /\ UNCHANGED <<state, stopButton, queue, list, running, thread, fileVars,
                 countVars, disk, roomy, run>>

DestroyJoined ==
  /\ gui = "joinDestroy" /\ Dead
  /\ gui' = "closed"
  /\ UNCHANGED <<state, stopButton, queue, list, managerVars, disk, roomy>>

----------------------------------------------------------------------------
(* Posted messages, in the order they were posted.                         *)

Arrives(kind) == gui = "loop" /\ queue # <<>> /\ Head(queue).kind = kind

HandleRecoveredIfRunning ==
  /\ Arrives("recovered")
  /\ queue' = Tail(queue)
  /\ \/ state = "Running" /\ list' = Append(list, Head(queue).row)
     \/ state # "Running" /\ UNCHANGED list
  /\ UNCHANGED <<state, stopButton, gui, managerVars, disk, roomy>>

HandleRecovered ==
  /\ Arrives("recovered")
  /\ queue' = Tail(queue) /\ list' = Append(list, Head(queue).row)
  /\ UNCHANGED <<state, stopButton, gui, managerVars, disk, roomy>>

\* The window shows "Continue", in whatever state it was.
HandlePaused ==
  /\ Arrives("paused")
  /\ queue' = Tail(queue) /\ state' = "Paused"
  /\ UNCHANGED <<stopButton, gui, list, managerVars, disk, roomy>>

HandleCompleteIdles ==
  /\ Arrives("complete")
  /\ queue' = Tail(queue) /\ state' = "Idle"
  /\ UNCHANGED <<stopButton, gui, list, managerVars, disk, roomy>>

\* The handler stops and joins whatever manager_ is by now.
HandleComplete ==
  /\ Arrives("complete")
  /\ queue' = Tail(queue)
  /\ gui' = "joinComplete" /\ stop' = TRUE /\ paused' = FALSE
  /\ UNCHANGED <<state, stopButton, list, running, thread, fileVars, countVars,
                 disk, roomy, run>>

CompleteJoined ==
  /\ gui = "joinComplete" /\ Dead
  /\ state' = "Idle" /\ gui' = "loop"
  /\ UNCHANGED <<stopButton, queue, list, managerVars, disk, roomy>>

GuiThread ==
  \/ HandleRecovered \/ HandlePaused \/ HandleComplete
  \/ StartJoined \/ CompleteJoined \/ DestroyJoined

----------------------------------------------------------------------------
(* The worker.                                                             *)

Goto(l) == thread' = l

\* The loops that sleep while the user has paused, until resumed or stopped.
Awake == ~paused \/ stop

OpenDiskSilent ==
  /\ thread = "open"
  /\ \/ Goto("scan") /\ UNCHANGED running
     \/ "open" \in Faults /\ Goto("exit") /\ running' = FALSE
  /\ UNCHANGED <<windowVars, queue, paused, stop, fileVars, countVars, disk,
                 roomy, run>>

OpenDisk ==
  /\ thread = "open"
  /\ \/ Goto("scan") /\ UNCHANGED running
     \/ "open" \in Faults /\ Goto("report") /\ running' = FALSE
  /\ UNCHANGED <<windowVars, queue, paused, stop, fileVars, countVars, disk,
                 roomy, run>>

\* create_directories throws, for a target when the worker begins or for the
\* folder of a file: nothing in the thread catches it, and the process ends
\* with its window.
CannotCreateDirectory ==
  /\ thread \in {"open", "read"} /\ "directory" \in Faults
  /\ Goto("terminated") /\ gui' = "terminated"
  /\ UNCHANGED <<state, stopButton, queue, list, flagVars, fileVars, countVars,
                 disk, roomy, run>>

\* on_file_found: damaged files are counted, the others go to what is the
\* current target now.  A scan that was asked to stop may still deliver
\* files, which are dropped.
OnFileFound ==
  /\ thread = "scan" /\ next <= MaxFiles /\ Awake
  /\ next' = next + 1
  /\ \/ stop /\ UNCHANGED <<thread, dir, found, failed>>
     \/ /\ ~stop /\ next \notin Intact
        /\ found' = found + 1 /\ failed' = failed + 1
        /\ UNCHANGED <<thread, dir>>
     \/ /\ ~stop /\ next \in Intact
        /\ dir' = SaveDirs[current] /\ Goto("read")
        /\ UNCHANGED <<found, failed>>
  /\ UNCHANGED <<windowVars, queue, flagVars, current, success, recovered,
                 disk, roomy, run>>

\* on_scan_progress between two batches: UpdateProgress posts, and never
\* waits for the GUI thread.
ReportSends ==
  /\ gui = "loop"
  /\ \/ thread = "progress" /\ Awake /\ Goto("scan")
     \/ thread = "report" /\ Goto("complete")
  /\ UNCHANGED <<windowVars, queue, flagVars, fileVars, countVars, disk, roomy,
                 run>>

Report ==
  /\ \/ thread = "progress" /\ Awake /\ Goto("scan")
     \/ thread = "report" /\ Goto("complete")
  /\ UNCHANGED <<windowVars, queue, flagVars, fileVars, countVars, disk, roomy,
                 run>>

\* recover_file reads the fragments; a stop ends it.
ReadFragments ==
  /\ thread = "read" /\ Awake
  /\ \/ stop /\ success' = FALSE /\ Goto("count")
     \/ ~stop /\ Goto("space") /\ UNCHANGED success
  /\ UNCHANGED <<windowVars, queue, flagVars, next, dir, current, countVars,
                 disk, roomy, run>>

HasSpace == SaveDirs[current] \in roomy
Spacious == {i \in DOMAIN SaveDirs : SaveDirs[i] \in roomy}
Ahead(i) == (i - current - 1) % Len(SaveDirs)

\* switch_to_next_target: the first with room, going round from the current.
SwitchTarget ==
  current' = CHOOSE i \in Spacious : \A j \in Spacious : Ahead(i) <= Ahead(j)

CheckSpaceSilent ==
  /\ thread = "space"
  /\ \/ HasSpace /\ Goto("write") /\ UNCHANGED <<current, paused>>
     \/ /\ ~HasSpace /\ Spacious # {} /\ SwitchTarget
        /\ Goto("write") /\ UNCHANGED paused
     \/ /\ Spacious = {} /\ paused' = TRUE
        /\ Goto("spaceWait") /\ UNCHANGED current
  /\ UNCHANGED <<windowVars, queue, running, stop, next, dir, success,
                 countVars, disk, roomy, run>>

\* check_space_and_switch.  The file keeps the directory it was given.
CheckSpace ==
  /\ thread = "space"
  /\ \/ HasSpace /\ Goto("write") /\ UNCHANGED <<current, paused>>
     \/ /\ ~HasSpace /\ Spacious # {} /\ SwitchTarget
        /\ Goto("write") /\ UNCHANGED paused
     \/ /\ Spacious = {} /\ paused' = TRUE
        /\ Goto("postPaused") /\ UNCHANGED current
  /\ UNCHANGED <<windowVars, queue, running, stop, next, dir, success,
                 countVars, disk, roomy, run>>

PostPaused ==
  /\ thread = "postPaused"
  /\ Post(PausedMsg) /\ Goto("spaceWait")
  /\ UNCHANGED <<windowVars, flagVars, fileVars, countVars, disk, roomy, run>>

\* After the user continues only the current target is looked at again.
SpaceWait ==
  /\ thread = "spaceWait" /\ Awake
  /\ \/ ~stop /\ HasSpace /\ Goto("write") /\ UNCHANGED success
     \/ (stop \/ ~HasSpace) /\ success' = FALSE /\ Goto("count")
  /\ UNCHANGED <<windowVars, queue, flagVars, next, dir, current, countVars,
                 disk, roomy, run>>

Written(f) == [dir |-> dir, file |-> f, run |-> run]
Exists(f) == \E o \in disk : o.dir = dir /\ o.file = f

WriteFailsKeepsFile ==
  /\ thread = "write" /\ ("create" \in Faults \/ "write" \in Faults)
  /\ success' = FALSE /\ Goto("count")
  /\ disk' = disk \cup {Written(next - 1)}
  /\ UNCHANGED <<windowVars, queue, flagVars, next, dir, current, countVars,
                 roomy, run>>

\* CREATE_NEW refuses a file that exists, also one an earlier run recovered.
WriteFails ==
  /\ thread = "write"
  /\ Exists(next - 1) \/ "create" \in Faults \/ "write" \in Faults
  /\ success' = FALSE /\ Goto("count")
  /\ UNCHANGED <<windowVars, queue, flagVars, next, dir, current, countVars,
                 disk, roomy, run>>

\* The file is complete before on_file_recovered posts its row.
WriteSucceeds ==
  /\ thread = "write" /\ ~Exists(next - 1)
  /\ disk' = disk \cup {Written(next - 1)}
  /\ success' = TRUE /\ Goto("post")
  /\ UNCHANGED <<windowVars, queue, flagVars, next, dir, current, countVars,
                 roomy, run>>

PostRecovered ==
  /\ thread = "post"
  /\ Post(Recovered(next - 1)) /\ Goto("count")
  /\ UNCHANGED <<windowVars, flagVars, fileVars, countVars, disk, roomy, run>>

CountForgetsFailure ==
  /\ thread = "count"
  /\ found' = found + 1
  /\ recovered' = recovered + (IF success THEN 1 ELSE 0)
  /\ Goto("progress")
  /\ UNCHANGED <<windowVars, queue, flagVars, fileVars, failed, disk, roomy,
                 run>>

Count ==
  /\ thread = "count"
  /\ found' = found + 1
  /\ \/ success /\ recovered' = recovered + 1 /\ UNCHANGED failed
     \/ ~success /\ failed' = failed + 1 /\ UNCHANGED recovered
  /\ Goto("progress")
  /\ UNCHANGED <<windowVars, queue, flagVars, fileVars, disk, roomy, run>>

\* The scan has reached the end of the disk or was told to stop.
ScanEnds ==
  /\ thread = "scan" /\ (next > MaxFiles \/ stop)
  /\ running' = FALSE /\ Goto("report")
  /\ UNCHANGED <<windowVars, queue, paused, stop, fileVars, countVars, disk,
                 roomy, run>>

\* The last thing the worker does, on every path, before its thread returns.
PostComplete ==
  /\ thread = "complete" /\ Post(CompleteMsg) /\ Goto("exit")
  /\ UNCHANGED <<windowVars, flagVars, fileVars, countVars, disk, roomy, run>>

ThreadReturns ==
  /\ thread = "exit" /\ Goto("exited")
  /\ UNCHANGED <<windowVars, queue, flagVars, fileVars, countVars, disk, roomy,
                 run>>

Worker ==
  \/ OpenDisk \/ CannotCreateDirectory \/ OnFileFound \/ Report \/ ReadFragments
  \/ CheckSpace \/ PostPaused \/ SpaceWait \/ WriteFails \/ WriteSucceeds \/ PostRecovered
  \/ Count \/ ScanEnds \/ PostComplete \/ ThreadReturns

\* Other programs, and the user, fill and empty the target disks.
RoomChanges(d) ==
  /\ gui \notin Over
  /\ roomy' = IF d \in roomy THEN roomy \ {d} ELSE roomy \cup {d}
  /\ UNCHANGED <<windowVars, queue, managerVars, disk>>

----------------------------------------------------------------------------
User == ClickStart \/ ClickPause \/ ClickContinue \/ ClickStop \/ CloseWindow

Next == User \/ GuiThread \/ Worker \/ \E d \in Dirs : RoomChanges(d)

Spec == Init /\ [][Next]_vars

\* The message loop runs and the system schedules the worker; nobody has to
\* click and no disk has to get room.
FairSpec == Spec /\ WF_vars(GuiThread) /\ WF_vars(Worker)

----------------------------------------------------------------------------
(* Properties.                                                             *)

Row == (1..MaxRuns) \X Files
Message == [kind : {"recovered"}, row : Row] \cup [kind : {"paused", "complete"}]

\* The type invariant.
TypeOK ==
  /\ state \in {"Idle", "Running", "Paused"} /\ stopButton \in BOOLEAN
  /\ gui \in Joining \cup Over \cup {"loop"}
  /\ queue \in Seq(Message) /\ list \in Seq(Row)
  /\ running \in BOOLEAN /\ paused \in BOOLEAN /\ stop \in BOOLEAN
  /\ thread \in {"none", "open", "scan", "read", "space", "postPaused",
                 "spaceWait", "write", "post", "count", "progress", "report",
                 "complete", "exit", "exited", "terminated"}
  /\ next \in 1..(MaxFiles + 1) /\ dir \in Dirs \cup {NoDir}
  /\ current \in DOMAIN SaveDirs /\ success \in BOOLEAN
  /\ found \in 0..MaxFiles /\ found = recovered + failed
  /\ recovered \in 0..MaxFiles /\ failed \in 0..MaxFiles
  /\ disk \subseteq [dir : Dirs, file : Files, run : 1..MaxRuns]
  /\ roomy \subseteq Dirs /\ run \in 0..MaxRuns

\* A worker that sleeps until the user continues is never hidden behind a
\* window that offers "Pause": the window shows it, or the message that will
\* is on its way.
PausedIsShown ==
  (paused /\ ~stop /\ ~Dead) =>
    \/ state = "Paused" \/ thread = "postPaused"
    \/ \E i \in DOMAIN queue : queue[i].kind = "paused"

\* A window that offers "Start" has no worker that nobody told to stop, also
\* when messages of an older worker arrive.
IdleMeansStopped == (gui = "loop" /\ state = "Idle") => (Dead \/ stop)

\* The inductive invariant behind TypeOK and the two above: a file in hand has
\* been found, has a directory, and is not yet counted.
InHand == {"read", "space", "postPaused", "spaceWait", "write", "post", "count"}
FileInv ==
  /\ found < next
  /\ thread # "none" => run > 0
  /\ thread \in InHand => next > 1 /\ dir \in Dirs /\ found < next - 1
  /\ gui = "joinStart" => run < MaxRuns

IInv == TypeOK /\ FileInv /\ IdleMeansStopped /\ PausedIsShown

\* Every file this run put on a target disk has its row in the list, once
\* the messages that wait are handled: no start, stop or stale message loses
\* one.  A directory that cannot be created takes the window with it.
RecoveredIsListed ==
  (gui \notin {"joinStart", "terminated"} /\ thread # "post") =>
    \A o \in disk : o.run = run =>
      \/ <<run, o.file>> \in Range(list)
      \/ \E i \in DOMAIN queue : queue[i] = Recovered(o.file)

\* What the final text counts as recovered is what this run wrote.
CountIsOnDisk ==
  thread \in {"scan", "progress", "report", "complete", "exit", "exited"} =>
    recovered = Cardinality({o \in disk : o.run = run})

\* Joining on the GUI thread never deadlocks: the worker neither waits for
\* the GUI thread nor sleeps through a stop.  Only a directory that cannot be
\* created ends the process inside the join.
HandlerReturns == (gui \in Joining) ~> (gui \in Over \cup {"loop"})

\* The window learns of every worker that returns, whatever ended it, unless
\* it is closed or a directory that cannot be created ends the process first.
EndIsShown ==
  (thread = "exited" /\ state # "Idle") ~> (state = "Idle" \/ gui \in Over)

----------------------------------------------------------------------------
(* What comments in the code say, and the code does not do.                *)

\* main_window.cpp: "Worker thread has exited - safe to join and clean up."
\* The worker that WM_SCAN_RECOVER_COMPLETE joins has posted it.
CompleteMeansExited == gui = "joinComplete" => thread \in {"exit", "exited"}
=============================================================================
