------------------------------ MODULE CliScan ------------------------------
(***************************************************************************)
(* The process of `disk-recover scan`: the main thread that starts a scan  *)
(* and polls it, the thread Windows runs the SIGINT handler on, and the    *)
(* scan thread.  Both of the first two end up in ScanManager::stop_scan,   *)
(* main through the destructor of the global manager.  What the scan does  *)
(* to the disk and the database is the subject of ScanSession; here it     *)
(* counts that a file is pending or stored when the process ends.          *)
(*                                                                         *)
(* A second Ctrl-C finds the default handler again and kills the process:  *)
(* that is the Crash of ScanSession.                                       *)
(***************************************************************************)
EXTENDS FiniteSets, Naturals

CONSTANTS
  Files,           \* the files a scan can find
  FlushThreshold,  \* files that are stored in one batch (1000)
  Faults           \* what may go wrong: "db", "open", "log"

ASSUME FilesAssumption == IsFiniteSet(Files)
ASSUME ThresholdAssumption == FlushThreshold \in Nat \ {0}

Callers == {"main", "handler"}  \* the threads that call stop_scan

VARIABLES
  at,           \* where main and the handler stand
  scan,         \* where scan_thread_func stands
  joinable,     \* scan_thread_.joinable()
  scanning,     \* scanning_
  stop,         \* stop_requested_
  interrupted,  \* g_interrupted
  pending,      \* pending_files_
  stored,       \* the files in the database
  logger,       \* the Logger has not been destroyed
  process       \* "runs", "exit", "abort" or "crash"

threadVars == <<at, scan, joinable>>
flagVars == <<scanning, stop, interrupted>>
fileVars == <<pending, stored>>
vars == <<threadVars, flagVars, fileVars, logger, process>>

----------------------------------------------------------------------------
Init ==
  /\ at = [main |-> "callback", handler |-> "none"]
  /\ scan = "none" /\ joinable = FALSE
  /\ scanning = FALSE /\ stop = FALSE /\ interrupted = FALSE
  /\ pending = {} /\ stored = {}
  /\ logger = TRUE /\ process = "runs"

Go(t, p) == at' = [at EXCEPT ![t] = p]

----------------------------------------------------------------------------
(* The main thread: start_scan or resume_scan, the polling loop, the end.  *)

\* Up to the creation of the thread.  A stop asked for before is forgotten.
PrepareScan ==
  /\ at["main"] = "callback"
  /\ Go("main", "spawn") /\ scanning' = TRUE /\ stop' = FALSE
  /\ UNCHANGED <<scan, joinable, interrupted, fileVars, logger, process>>

\* The database cannot be opened, which start_scan tells after the reset of
\* the flags and resume_scan before it; nothing is left to poll.
Refuse ==
  /\ at["main"] = "callback" /\ "db" \in Faults
  /\ Go("main", "return") /\ stop' \in {stop, FALSE}
  /\ UNCHANGED <<scan, joinable, scanning, interrupted, fileVars,
                 logger, process>>

SpawnScan ==
  /\ at["main"] = "spawn"
  /\ Go("main", "poll") /\ joinable' = TRUE /\ scan' = "open"
  /\ UNCHANGED <<flagVars, fileVars, logger, process>>

Poll ==
  /\ at["main"] = "poll"
  /\ Go("main", IF scanning THEN "asleep" ELSE "finished")
  /\ UNCHANGED <<scan, joinable, flagVars, fileVars, logger, process>>

\* Mutant: the loop does not look at g_interrupted.
WakeDeaf ==
  /\ at["main"] = "asleep" /\ Go("main", "poll")
  /\ UNCHANGED <<scan, joinable, flagVars, fileVars, logger, process>>

Wake ==
  /\ at["main"] = "asleep"
  /\ Go("main", IF interrupted THEN "return" ELSE "poll")
  /\ UNCHANGED <<scan, joinable, flagVars, fileVars, logger, process>>

\* Static objects are destroyed in reverse order: the Logger, made in main or
\* later, before the global manager, whose destructor calls stop_scan.
Return ==
  /\ at["main"] \in {"finished", "return"}
  /\ Go("main", "stop") /\ logger' = FALSE
  /\ UNCHANGED <<scan, joinable, flagVars, fileVars, process>>

Exit ==
  /\ at["main"] = "left"
  /\ process' = "exit"
  /\ UNCHANGED <<threadVars, flagVars, fileVars, logger>>

----------------------------------------------------------------------------
(* Ctrl-C, and stop_scan in each of the two threads that may be in it.     *)

Interrupt ==
  /\ at["handler"] = "none"
  /\ Go("handler", "stop") /\ interrupted' = TRUE
  /\ UNCHANGED <<scan, joinable, scanning, stop, fileVars, logger, process>>

RequestStop(t) ==
  /\ at[t] = "stop"
  /\ Go(t, "check") /\ stop' = TRUE
  /\ UNCHANGED <<scan, joinable, scanning, interrupted, fileVars,
                 logger, process>>

\* Mutant: after an interrupt nobody waits for the scan thread.
CheckJoinableOnce(t) ==
  /\ at[t] = "check"
  /\ Go(t, IF joinable /\ ~interrupted THEN "join" ELSE "left")
  /\ UNCHANGED <<scan, joinable, flagVars, fileVars, logger, process>>

CheckJoinable(t) ==
  /\ at[t] = "check"
  /\ Go(t, IF joinable THEN "join" ELSE "left")
  /\ UNCHANGED <<scan, joinable, flagVars, fileVars, logger, process>>

Join(t) ==
  /\ at[t] = "join" /\ joinable /\ scan = "gone"
  /\ Go(t, "left") /\ joinable' = FALSE
  /\ UNCHANGED <<scan, flagVars, fileVars, logger, process>>

\* Both threads found it joinable and the other has joined it: join throws,
\* and nothing catches it, or does no harm if it was in time.
JoinAgain(t) ==
  /\ at[t] = "join" /\ ~joinable
  /\ \/ Go(t, "left") /\ UNCHANGED process
     \/ process' = "abort" /\ UNCHANGED at
  /\ UNCHANGED <<scan, joinable, flagVars, fileVars, logger>>

----------------------------------------------------------------------------
(* scan_thread_func, the scanner abstracted to the files it hands over.    *)

OpenDisk ==
  /\ scan = "open"
  /\ \/ scan' = "work" /\ UNCHANGED scanning
     \/ "open" \in Faults /\ scan' = "gone" /\ scanning' = FALSE
  /\ UNCHANGED <<at, joinable, stop, interrupted, fileVars, logger, process>>

FindFile ==
  /\ scan = "work" /\ ~stop
  /\ \E f \in Files \ (pending \cup stored) :
       /\ IF Cardinality(pending \cup {f}) >= FlushThreshold
            THEN pending' = {} /\ stored' = stored \cup pending \cup {f}
            ELSE pending' = pending \cup {f} /\ UNCHANGED stored
  /\ UNCHANGED <<threadVars, flagVars, logger, process>>

StopWork ==
  /\ scan = "work" /\ stop /\ scan' = "flush"
  /\ UNCHANGED <<at, joinable, flagVars, fileVars, logger, process>>

FinishWork ==
  /\ scan = "work" /\ scan' = "flush"
  /\ UNCHANGED <<at, joinable, flagVars, fileVars, logger, process>>

FinalFlush ==
  /\ scan = "flush" /\ scan' = "close"
  /\ stored' = stored \cup pending /\ pending' = {}
  /\ UNCHANGED <<at, joinable, flagVars, logger, process>>

CloseScan ==
  /\ scan = "close" /\ scan' = "log" /\ scanning' = FALSE
  /\ UNCHANGED <<at, joinable, stop, interrupted, fileVars, logger, process>>

LogEnd ==
  /\ scan = "log" /\ scan' = "gone"
  /\ UNCHANGED <<at, joinable, flagVars, fileVars, logger, process>>

\* A line logged after the Logger is gone, which need not do any harm.
LateLog ==
  /\ scan \in {"open", "work", "log"} /\ ~logger /\ "log" \in Faults
  /\ process' = "crash"
  /\ UNCHANGED <<threadVars, flagVars, fileVars, logger>>

----------------------------------------------------------------------------
MainThread ==
  PrepareScan \/ Refuse \/ SpawnScan \/ Poll \/ Wake \/ Return \/ Exit
StopScan(t) == RequestStop(t) \/ CheckJoinable(t) \/ Join(t) \/ JoinAgain(t)
WindUp == OpenDisk \/ StopWork \/ FinalFlush \/ CloseScan \/ LogEnd
ScanThread == WindUp \/ FindFile \/ FinishWork \/ LateLog

Next ==
  /\ process = "runs"
  /\ \/ MainThread \/ Interrupt \/ ScanThread
     \/ \E t \in Callers : StopScan(t)

Spec == Init /\ [][Next]_vars

\* Threads are scheduled, but a scan that nobody stops may take for ever.
Runs(A) == process = "runs" /\ A
FairSpec ==
  /\ Spec
  /\ WF_vars(Runs(MainThread)) /\ WF_vars(Runs(WindUp))
  /\ \A t \in Callers : WF_vars(Runs(StopScan(t)))

----------------------------------------------------------------------------
MainAt == {"callback", "spawn", "poll", "asleep", "finished", "return"}
StopAt == {"stop", "check", "join", "left"}
ScanAt == {"none", "open", "work", "flush", "close", "log", "gone"}

\* The types of the variables of main.cpp and ScanManager that are modelled.
TypeOK ==
  /\ at \in [Callers -> MainAt \cup StopAt \cup {"none"}]
  /\ at["handler"] \notin MainAt /\ at["main"] # "none"
  /\ scan \in ScanAt /\ joinable \in BOOLEAN
  /\ scanning \in BOOLEAN /\ stop \in BOOLEAN /\ interrupted \in BOOLEAN
  /\ pending \subseteq Files /\ stored \subseteq Files
  /\ logger \in BOOLEAN
  /\ process \in {"runs", "exit", "abort", "crash"}

\* However main and the handler meet in stop_scan, and even if a second join
\* throws, the process does not end by itself with a scan thread in the
\* middle of its work or with found files that are in no database
\* (ScanManager::~ScanManager, stop_scan).  A crash in the Logger is excepted.
ExitKeepsFiles ==
  process \in {"exit", "abort"} => scan \in {"none", "gone"} /\ pending = {}

\* When the loop over is_scanning ends because the scan is over, all the
\* files it found are in the database: scanning_ is cleared last.
FinishedIsStored == at["main"] = "finished" => pending = {}

\* Ctrl-C ends the process, at whatever moment of the start, the polling or
\* the end it comes, also when start_scan forgets the stop it asked for.
InterruptEnds == interrupted ~> (process # "runs")

=============================================================================
