--------------------------- MODULE CliScanProofs ---------------------------
(***************************************************************************)
(* The end of the process of CliScan, for any set of files: the invariant  *)
(* says what main can know of the scan thread from where it stands, and    *)
(* that a thread that runs is joinable until somebody has waited for it.   *)
(***************************************************************************)
EXTENDS CliScan, TLAPS

Stopped == {"none", "gone"}

\* A thread that is not over can be joined, and files are only pending while
\* it works or until it has flushed.
OwnedOK ==
  /\ scan \notin Stopped => joinable
  /\ scan \notin {"work", "flush"} => pending = {}

MainOK ==
  /\ at["main"] = "callback" => scan = "none"
  /\ at["main"] = "spawn" => scan = "none" /\ scanning
  /\ scan \in {"open", "work", "flush", "close"}
       => scanning /\ at["main"] # "finished"
  /\ at["main"] = "left" => scan \in Stopped

IInv == TypeOK /\ OwnedOK /\ MainOK /\ ExitKeepsFiles

\* The initial states satisfy the invariant.
LEMMA InitInv == Init => IInv
<1> SUFFICES ASSUME Init PROVE IInv
  OBVIOUS
<1>1. /\ at = [main |-> "callback", handler |-> "none"]
      /\ scan = "none" /\ pending = {} /\ process = "runs"
  BY DEF Init
<1>2. at["main"] = "callback" /\ at["handler"] = "none"
  BY <1>1
<1>3. at \in [Callers -> MainAt \cup StopAt \cup {"none"}]
  BY <1>1 DEF Callers, MainAt, StopAt
<1>4. TypeOK
  BY <1>2, <1>3 DEF Init, TypeOK, MainAt, StopAt, ScanAt
<1>5. OwnedOK /\ MainOK /\ ExitKeepsFiles
  BY <1>1, <1>2 DEF OwnedOK, MainOK, ExitKeepsFiles, Stopped
<1>6. QED
  BY <1>4, <1>5 DEF IInv

\* Go moves one of the two threads.
LEMMA GoMoves ==
  ASSUME TypeOK, NEW t \in Callers, NEW p, Go(t, p)
  PROVE  at'[t] = p /\ \A u \in Callers \ {t} : at'[u] = at[u]
BY DEF Go, TypeOK, Callers

\* Every step keeps the types.
LEMMA TypeStep ==
  ASSUME TypeOK, [Next]_vars
  PROVE  TypeOK'
<1> USE DEF TypeOK, Go, Callers, MainAt, StopAt, ScanAt
<1>1. CASE UNCHANGED vars
  BY <1>1 DEF vars, threadVars, flagVars, fileVars
<1>2. CASE PrepareScan \/ Refuse \/ SpawnScan
  BY <1>2 DEF PrepareScan, Refuse, SpawnScan, flagVars, fileVars
<1>3. CASE Poll \/ Wake
  BY <1>3 DEF Poll, Wake, flagVars, fileVars
<1>4. CASE Return \/ Exit
  BY <1>4 DEF Return, Exit, threadVars, flagVars, fileVars
<1>5. CASE Interrupt
  BY <1>5 DEF Interrupt, fileVars
<1>6. ASSUME NEW t \in Callers, StopScan(t)
      PROVE  TypeOK'
  <2>1. CASE RequestStop(t)
    BY <1>6, <2>1 DEF RequestStop, fileVars
  <2>2. CASE CheckJoinable(t)
    BY <1>6, <2>2 DEF CheckJoinable, flagVars, fileVars
  <2>3. CASE Join(t)
    BY <1>6, <2>3 DEF Join, flagVars, fileVars
  <2>4. CASE JoinAgain(t)
    BY <1>6, <2>4 DEF JoinAgain, flagVars, fileVars
  <2>5. QED
    BY <1>6, <2>1, <2>2, <2>3, <2>4 DEF StopScan
<1>7. CASE WindUp
  BY <1>7 DEF WindUp, OpenDisk, StopWork, FinalFlush, CloseScan, LogEnd,
              flagVars, fileVars
<1>8. CASE FindFile
  BY <1>8 DEF FindFile, threadVars, flagVars
<1>9. CASE FinishWork \/ LateLog
  BY <1>9 DEF FinishWork, LateLog, threadVars, flagVars, fileVars
<1>10. QED
  BY <1>1, <1>2, <1>3, <1>4, <1>5, <1>6, <1>7, <1>8, <1>9
     DEF Next, MainThread, ScanThread

\* Only Join makes the thread not joinable, and it waits for its end.
LEMMA OwnedStep ==
  ASSUME TypeOK, OwnedOK, MainOK, [Next]_vars
  PROVE  OwnedOK'
<1> USE DEF OwnedOK, Stopped
<1>1. CASE UNCHANGED vars
  BY <1>1 DEF vars, threadVars, fileVars
<1>2. CASE MainThread
  BY <1>2 DEF MainOK, MainThread, PrepareScan, Refuse, SpawnScan, Poll, Wake, Return,
              Exit, threadVars, fileVars
<1>3. CASE Interrupt
  BY <1>3 DEF Interrupt, fileVars
<1>4. ASSUME NEW t \in Callers, StopScan(t)
      PROVE  OwnedOK'
  BY <1>4 DEF StopScan, RequestStop, CheckJoinable, Join, JoinAgain, fileVars
<1>5. CASE ScanThread
  BY <1>5 DEF ScanThread, WindUp, OpenDisk, StopWork, FinalFlush, CloseScan,
              LogEnd, FindFile, FinishWork, LateLog, threadVars, fileVars
<1>6. QED
  BY <1>1, <1>2, <1>3, <1>4, <1>5 DEF Next

\* main leaves the polling loop through its condition only when the flag is
\* down, and leaves stop_scan only when there is no thread to wait for.
LEMMA MainStep ==
  ASSUME TypeOK, OwnedOK, MainOK, [Next]_vars
  PROVE  MainOK'
<1> USE DEF MainOK, Stopped
<1>0. "main" \in Callers /\ "handler" \in Callers /\ "main" # "handler"
  BY DEF Callers
<1>1. CASE UNCHANGED vars
  BY <1>1 DEF vars, threadVars, flagVars
<1>2. CASE PrepareScan
  <2>1. at'["main"] = "spawn"
    BY <1>0, <1>2, GoMoves DEF PrepareScan
  <2>2. QED
    BY <2>1, <1>2 DEF PrepareScan
<1>3. CASE Refuse
  <2>1. at'["main"] = "return"
    BY <1>0, <1>3, GoMoves DEF Refuse
  <2>2. QED
    BY <2>1, <1>3 DEF Refuse
<1>4. CASE SpawnScan
  <2>1. at'["main"] = "poll"
    BY <1>0, <1>4, GoMoves DEF SpawnScan
  <2>2. QED
    BY <2>1, <1>4 DEF SpawnScan, flagVars
<1>5. CASE Poll
  <2>1. at'["main"] = IF scanning THEN "asleep" ELSE "finished"
    BY <1>0, <1>5, GoMoves DEF Poll
  <2>2. QED
    BY <2>1, <1>5 DEF Poll, flagVars
<1>6. CASE Wake
  <2>1. at'["main"] \in {"return", "poll"}
    BY <1>0, <1>6, GoMoves DEF Wake
  <2>2. QED
    BY <2>1, <1>6 DEF Wake, flagVars
<1>7. CASE Return
  <2>1. at'["main"] = "stop"
    BY <1>0, <1>7, GoMoves DEF Return
  <2>2. QED
    BY <2>1, <1>7 DEF Return, flagVars
<1>8. CASE Exit
  BY <1>8 DEF Exit, threadVars, flagVars
<1>9. CASE Interrupt
  <2>1. at'["main"] = at["main"]
    BY <1>0, <1>9, GoMoves DEF Interrupt
  <2>2. QED
    BY <2>1, <1>9 DEF Interrupt
<1>10. ASSUME NEW t \in Callers, StopScan(t)
       PROVE  MainOK'
  <2>1. scan' = scan /\ scanning' = scanning
    BY <1>10 DEF StopScan, RequestStop, CheckJoinable, Join, JoinAgain, flagVars
  <2>2. CASE t # "main"
    <3>1. at'["main"] = at["main"]
      BY <1>0, <1>10, <2>2, GoMoves
         DEF StopScan, RequestStop, CheckJoinable, Join, JoinAgain
    <3>2. QED
      BY <2>1, <3>1
  <2>3. CASE t = "main"
    <3>1. /\ at'["main"] \in {"check", "join", "left"} \cup {at["main"]}
          /\ at["main"] # "finished"
          /\ at["main"] \notin {"callback", "spawn", "left"}
          /\ at'["main"] = "left" => ~joinable \/ scan = "gone"
      BY <1>0, <1>10, <2>3, GoMoves
         DEF StopScan, RequestStop, CheckJoinable, Join, JoinAgain
    <3>2. QED
      BY <2>1, <3>1 DEF OwnedOK
  <2>4. QED
    BY <2>2, <2>3
<1>11. CASE ScanThread
  BY <1>11 DEF ScanThread, WindUp, OpenDisk, StopWork, FinalFlush, CloseScan,
               LogEnd, FindFile, FinishWork, LateLog, threadVars, flagVars
<1>12. QED
  BY <1>1, <1>2, <1>3, <1>4, <1>5, <1>6, <1>7, <1>8, <1>9, <1>10, <1>11
     DEF Next, MainThread

\* The process exits when main has left stop_scan, and aborts in a second
\* join, for which the thread must be over.
LEMMA ExitStep ==
  ASSUME TypeOK, OwnedOK, MainOK, ExitKeepsFiles, [Next]_vars
  PROVE  ExitKeepsFiles'
<1> USE DEF ExitKeepsFiles
<1>1. CASE UNCHANGED vars
  BY <1>1 DEF vars, threadVars, fileVars
<1>2. CASE Next /\ process' = "runs"
  BY <1>2
<1>3. CASE Exit
  BY <1>3 DEF Exit, MainOK, OwnedOK, Stopped, threadVars, fileVars
<1>4. CASE LateLog
  BY <1>4 DEF LateLog
<1>5. ASSUME NEW t \in Callers, JoinAgain(t)
      PROVE  ExitKeepsFiles'
  BY <1>5 DEF JoinAgain, OwnedOK, Stopped, fileVars
<1>6. ASSUME Next, process' # "runs"
      PROVE  Exit \/ LateLog \/ \E t \in Callers : JoinAgain(t)
  <2>1. process = "runs"
    BY <1>6 DEF Next
  <2>2. MainThread => Exit \/ process' = process
    BY DEF MainThread, PrepareScan, Refuse, SpawnScan, Poll, Wake, Return
  <2>3. Interrupt => process' = process
    BY DEF Interrupt
  <2>4. ScanThread => LateLog \/ process' = process
    BY DEF ScanThread, WindUp, OpenDisk, StopWork, FinalFlush, CloseScan,
           LogEnd, FindFile, FinishWork
  <2>5. \A t \in Callers : StopScan(t) => JoinAgain(t) \/ process' = process
    BY DEF StopScan, RequestStop, CheckJoinable, Join
  <2>6. QED
    BY <1>6, <2>1, <2>2, <2>3, <2>4, <2>5 DEF Next
<1>7. QED
  BY <1>1, <1>2, <1>3, <1>4, <1>5, <1>6

\* The invariant holds in every state of a process.
THEOREM Inductive == Spec => []IInv
<1>1. ASSUME IInv, [Next]_vars
      PROVE  IInv'
  BY <1>1, TypeStep, OwnedStep, MainStep, ExitStep DEF IInv
<1>2. QED
  BY <1>1, InitInv, PTL DEF Spec

\* The variables keep their types.
THEOREM TypeCorrect == Spec => []TypeOK
<1>1. IInv => TypeOK
  BY DEF IInv
<1>2. QED
  BY <1>1, Inductive, PTL

\* stop_scan in two threads: the process never exits or aborts with a scan
\* thread at work or with found files that are not stored.
THEOREM ExitIsSafe == Spec => []ExitKeepsFiles
<1>1. IInv => ExitKeepsFiles
  BY DEF IInv
<1>2. QED
  BY <1>1, Inductive, PTL

\* The loop over is_scanning ends by its condition when all is stored, which
\* is when main says that the scan is complete.
THEOREM FinishIsStored == Spec => []FinishedIsStored
<1>1. IInv => FinishedIsStored
  BY DEF IInv, MainOK, OwnedOK, FinishedIsStored
<1>2. QED
  BY <1>1, Inductive, PTL

=============================================================================
