------------------------ MODULE ScanRecoverGuiProofs ------------------------
(***************************************************************************)
(* Theorems about ScanRecoverGui: its types, that an idle window leaves no *)
(* worker behind, that a worker waiting for the user is shown, that what a *)
(* run has written is listed and that it counts what it has written, for   *)
(* any number of files, targets and runs.                                  *)
(***************************************************************************)
EXTENDS ScanRecoverGui, SequenceTheorems, FiniteSetTheorems,
        WellFoundedInduction, TLAPS

USE FilesAssumption, DirsAssumption, RunsAssumption

----------------------------------------------------------------------------
(* The target that switch_to_next_target finds.                            *)

LEMMA DirsType == /\ Len(SaveDirs) \in Nat \ {0}
                  /\ DOMAIN SaveDirs = 1..Len(SaveDirs)
                  /\ \A i \in DOMAIN SaveDirs : SaveDirs[i] \in Dirs
BY EmptySeq, LenProperties, ElementOfSeq

LEMMA LeastNat ==
  ASSUME NEW T \in SUBSET Nat, T # {}
  PROVE  \E n \in T : \A m \in T : n <= m
<1>1. PICK n \in T : \A m \in T : ~(<<m, n>> \in OpToRel(<, Nat))
  BY NatLessThanWellFounded, WFMin
<1>2. \A m \in T : ~(m < n)
  BY <1>1 DEF OpToRel
<1>3. QED BY <1>2

LEMMA SwitchType ==
  ASSUME current \in DOMAIN SaveDirs, Spacious # {}, SwitchTarget
  PROVE  current' \in DOMAIN SaveDirs
<1>1. \A i \in DOMAIN SaveDirs : Ahead(i) \in Nat
  BY DirsType DEF Ahead
<1>2. PICK n \in {Ahead(i) : i \in Spacious} :
        \A m \in {Ahead(i) : i \in Spacious} : n <= m
  BY <1>1, LeastNat DEF Spacious
<1>3. \E i \in Spacious : \A j \in Spacious : Ahead(i) <= Ahead(j)
  BY <1>2
<1>4. current' \in Spacious
  BY <1>3 DEF SwitchTarget
<1>5. QED BY <1>4 DEF Spacious

----------------------------------------------------------------------------
(* Types.                                                                  *)

LEMMA Messages ==
  /\ PausedMsg \in Message /\ CompleteMsg \in Message
  /\ \A f \in Files : run \in 1..MaxRuns => Recovered(f) \in Message
  /\ \A m \in Message : m.kind = "recovered" => m.row \in Row
BY DEF PausedMsg, CompleteMsg, Recovered, Message, Row

LEMMA PostType ==
  ASSUME queue \in Seq(Message), NEW m \in Message, Post(m)
  PROVE  queue' \in Seq(Message)
BY AppendProperties DEF Post

LEMMA TakeType ==
  ASSUME queue \in Seq(Message), queue # <<>>
  PROVE  /\ Tail(queue) \in Seq(Message) /\ Head(queue) \in Message
BY HeadTailProperties

LEMMA InitType == Init => TypeOK /\ FileInv
<1> SUFFICES ASSUME Init PROVE TypeOK /\ FileInv
  OBVIOUS
<1>1. queue \in Seq(Message) /\ list \in Seq(Row)
  BY EmptySeq DEF Init
<1>2. 1 \in DOMAIN SaveDirs
  BY DirsType
<1>3. /\ next \in 1..(MaxFiles + 1) /\ found = recovered + failed
      /\ found \in 0..MaxFiles /\ recovered \in 0..MaxFiles
      /\ failed \in 0..MaxFiles /\ run \in 0..MaxRuns
  BY DEF Init
<1>4. disk \subseteq [dir : Dirs, file : Files, run : 1..MaxRuns]
  BY DEF Init
<1>5. FileInv
  BY DEF Init, FileInv, InHand
<1>6. TypeOK
  <2>1. current \in DOMAIN SaveDirs
    BY <1>2 DEF Init
  <2>2. /\ stopButton \in BOOLEAN /\ running \in BOOLEAN /\ paused \in BOOLEAN
        /\ stop \in BOOLEAN /\ success \in BOOLEAN
    BY DEF Init
  <2>3. dir \in Dirs \cup {NoDir} /\ roomy \subseteq Dirs
    BY DEF Init
  <2>4. /\ state \in {"Idle", "Running", "Paused"}
        /\ gui \in Joining \cup Over \cup {"loop"}
        /\ thread = "none"
    BY DEF Init
  <2>5. QED BY <1>1, <1>3, <1>4, <2>1, <2>2, <2>3, <2>4 DEF TypeOK
<1>7. QED BY <1>5, <1>6

LEMMA UserType ==
  ASSUME TypeOK, FileInv, User
  PROVE  TypeOK' /\ FileInv'
<1>1. CASE ClickStart
  BY <1>1, EmptySeq DEF ClickStart, TypeOK, FileInv, InHand, Joining,
     fileVars, countVars
<1>2. CASE ClickPause
  BY <1>2 DEF ClickPause, TypeOK, FileInv, InHand, fileVars, countVars
<1>3. CASE ClickContinue
  BY <1>3 DEF ClickContinue, TypeOK, FileInv, InHand, fileVars, countVars
<1>4. CASE ClickStop
  BY <1>4 DEF ClickStop, TypeOK, FileInv, InHand, fileVars, countVars
<1>5. CASE CloseWindow
  BY <1>5 DEF CloseWindow, TypeOK, FileInv, InHand, Joining, fileVars,
     countVars
<1>6. QED BY <1>1, <1>2, <1>3, <1>4, <1>5 DEF User

LEMMA GuiType ==
  ASSUME TypeOK, FileInv, GuiThread
  PROVE  TypeOK' /\ FileInv'
<1> USE DEF managerVars, flagVars, fileVars, countVars
<1>1. CASE HandleRecovered
  <2>1. queue \in Seq(Message) /\ queue # <<>> /\ list \in Seq(Row)
    BY <1>1 DEF HandleRecovered, Arrives, TypeOK
  <2>2. Head(queue).row \in Row
    BY <1>1, <2>1, TakeType, Messages DEF HandleRecovered, Arrives
  <2>3. queue' \in Seq(Message) /\ list' \in Seq(Row)
    BY <1>1, <2>1, <2>2, TakeType, AppendProperties DEF HandleRecovered
  <2>4. QED BY <1>1, <2>3 DEF HandleRecovered, Arrives, TypeOK, FileInv, InHand
<1>2. CASE HandlePaused
  <2>1. queue' \in Seq(Message)
    BY <1>2, TakeType DEF HandlePaused, Arrives, TypeOK
  <2>2. QED BY <1>2, <2>1 DEF HandlePaused, TypeOK, FileInv, InHand
<1>3. CASE HandleComplete
  <2>1. queue' \in Seq(Message)
    BY <1>3, TakeType DEF HandleComplete, Arrives, TypeOK
  <2>2. QED BY <1>3, <2>1 DEF HandleComplete, TypeOK, FileInv, InHand, Joining
<1>4. CASE StartJoined
  <2>1. 1 \in DOMAIN SaveDirs /\ run' \in 1..MaxRuns
    BY <1>4, DirsType DEF StartJoined, Spawn, TypeOK, FileInv
  <2>2. FileInv'
    BY <1>4, <2>1 DEF StartJoined, Spawn, TypeOK, FileInv, InHand
  <2>3. next' \in 1..(MaxFiles + 1) /\ found' = recovered' + failed'
    BY <1>4 DEF StartJoined, Spawn
  <2>4. found' \in 0..MaxFiles /\ recovered' \in 0..MaxFiles
        /\ failed' \in 0..MaxFiles
    BY <1>4 DEF StartJoined, Spawn
  <2>5. TypeOK'
    <3>1. current' \in DOMAIN SaveDirs /\ dir' \in Dirs \cup {NoDir}
      BY <1>4, <2>1 DEF StartJoined, Spawn
    <3>2. /\ stopButton' \in BOOLEAN /\ running' \in BOOLEAN
          /\ paused' \in BOOLEAN /\ stop' \in BOOLEAN /\ success' \in BOOLEAN
      BY <1>4 DEF StartJoined, Spawn
    <3>3. state' = "Running" /\ gui' = "loop" /\ thread' = "open"
      BY <1>4 DEF StartJoined, Spawn
    <3>4. /\ queue' \in Seq(Message) /\ list' \in Seq(Row)
          /\ disk' \subseteq [dir : Dirs, file : Files, run : 1..MaxRuns]
          /\ roomy' \subseteq Dirs
      BY <1>4 DEF StartJoined, TypeOK
    <3>5. run' \in 0..MaxRuns
      BY <2>1
    <3>6. QED BY <2>3, <2>4, <3>5, <3>1, <3>2, <3>3, <3>4 DEF TypeOK
  <2>6. QED BY <2>2, <2>5
<1>5. CASE CompleteJoined
  BY <1>5 DEF CompleteJoined, TypeOK, FileInv, InHand
<1>6. CASE DestroyJoined
  BY <1>6 DEF DestroyJoined, Over, TypeOK, FileInv, InHand
<1>7. QED BY <1>1, <1>2, <1>3, <1>4, <1>5, <1>6 DEF GuiThread

LEMMA WorkerType ==
  ASSUME TypeOK, FileInv, Worker
  PROVE  TypeOK' /\ FileInv'
<1> USE DEF windowVars, flagVars, fileVars, countVars, Goto
<1>1. CASE OpenDisk
  BY <1>1 DEF OpenDisk, TypeOK, FileInv, InHand
<1>2. CASE OnFileFound
  <2>1. SaveDirs[current] \in Dirs
    BY DirsType DEF TypeOK
  <2>2. next \in Nat /\ next' = next + 1 /\ next' \in 1..(MaxFiles + 1)
    BY <1>2 DEF OnFileFound, TypeOK
  <2>3. CASE /\ ~stop /\ next \notin Intact
             /\ found' = found + 1 /\ failed' = failed + 1
             /\ UNCHANGED <<thread, dir>>
    <3>1. /\ found' \in 0..MaxFiles /\ recovered' \in 0..MaxFiles
          /\ failed' \in 0..MaxFiles /\ found' = recovered' + failed'
          /\ found' < next'
      BY <1>2, <2>2, <2>3 DEF OnFileFound, TypeOK, FileInv
    <3>2. QED BY <1>2, <2>2, <2>3, <3>1 DEF OnFileFound, TypeOK, FileInv, InHand
  <2>4. CASE stop /\ UNCHANGED <<thread, dir, found, failed>>
    BY <1>2, <2>2, <2>4 DEF OnFileFound, TypeOK, FileInv, InHand
  <2>5. CASE /\ ~stop /\ next \in Intact
             /\ dir' = SaveDirs[current] /\ Goto("read")
             /\ UNCHANGED <<found, failed>>
    <3>1. FileInv'
      BY <1>2, <2>1, <2>2, <2>5 DEF OnFileFound, TypeOK, FileInv, InHand
    <3>2. TypeOK'
      BY <1>2, <2>1, <2>2, <2>5 DEF OnFileFound, TypeOK
    <3>3. QED BY <3>1, <3>2
  <2>6. QED BY <1>2, <2>3, <2>4, <2>5 DEF OnFileFound
<1>3. CASE Report
  BY <1>3 DEF Report, TypeOK, FileInv, InHand
<1>4. CASE ReadFragments
  BY <1>4 DEF ReadFragments, TypeOK, FileInv, InHand
<1>5. CASE CheckSpace
  <2>1. current' \in DOMAIN SaveDirs
    BY <1>5, SwitchType DEF CheckSpace, TypeOK
  <2>2. paused' \in BOOLEAN /\ thread' \in {"write", "postPaused"}
    BY <1>5 DEF CheckSpace, TypeOK
  <2>3. QED BY <1>5, <2>1, <2>2 DEF CheckSpace, TypeOK, FileInv, InHand
<1>6. CASE PostPaused
  <2>1. queue' \in Seq(Message)
    BY <1>6, PostType, Messages DEF PostPaused, TypeOK
  <2>2. QED BY <1>6, <2>1 DEF PostPaused, TypeOK, FileInv, InHand
<1>7. CASE SpaceWait
  BY <1>7 DEF SpaceWait, TypeOK, FileInv, InHand
<1>8. CASE WriteFails
  BY <1>8 DEF WriteFails, TypeOK, FileInv, InHand
<1>9. CASE WriteSucceeds
  <2>1. Written(next - 1) \in [dir : Dirs, file : Files, run : 1..MaxRuns]
    BY <1>9 DEF WriteSucceeds, Written, TypeOK, FileInv, InHand, Files
  <2>2. QED BY <1>9, <2>1 DEF WriteSucceeds, TypeOK, FileInv, InHand
<1>10. CASE PostRecovered
  <2>1. next - 1 \in Files /\ run \in 1..MaxRuns
    BY <1>10 DEF PostRecovered, TypeOK, FileInv, InHand, Files
  <2>2. queue' \in Seq(Message)
    BY <1>10, <2>1, PostType, Messages DEF PostRecovered, TypeOK
  <2>3. QED BY <1>10, <2>2 DEF PostRecovered, TypeOK, FileInv, InHand
<1>11. CASE Count
  <2>1. /\ found \in 0..MaxFiles /\ recovered \in 0..MaxFiles
        /\ failed \in 0..MaxFiles /\ found = recovered + failed
        /\ next \in 1..(MaxFiles + 1) /\ found < next - 1
    BY <1>11 DEF Count, TypeOK, FileInv, InHand
  <2>2. \/ recovered' = recovered + 1 /\ failed' = failed
        \/ recovered' = recovered /\ failed' = failed + 1
    BY <1>11 DEF Count
  <2>3. /\ found' \in 0..MaxFiles /\ recovered' \in 0..MaxFiles
        /\ failed' \in 0..MaxFiles /\ found' = recovered' + failed'
        /\ found' < next /\ next' = next
    BY <1>11, <2>1, <2>2 DEF Count
  <2>4. QED BY <1>11, <2>3 DEF Count, TypeOK, FileInv, InHand
<1>12. CASE ScanEnds
  BY <1>12 DEF ScanEnds, TypeOK, FileInv, InHand
<1>13. CASE PostComplete
  <2>1. queue' \in Seq(Message)
    BY <1>13, PostType, Messages DEF PostComplete, TypeOK
  <2>2. QED BY <1>13, <2>1 DEF PostComplete, TypeOK, FileInv, InHand
<1>14. CASE ThreadReturns
  BY <1>14 DEF ThreadReturns, TypeOK, FileInv, InHand
<1>15. CASE CannotCreateDirectory
  BY <1>15 DEF CannotCreateDirectory, Over, TypeOK, FileInv, InHand
<1>16. QED
  BY <1>1, <1>2, <1>3, <1>4, <1>5, <1>6, <1>7, <1>8, <1>9, <1>10, <1>11,
     <1>12, <1>13, <1>14, <1>15 DEF Worker

LEMMA TypeStep == TypeOK /\ FileInv /\ [Next]_vars => TypeOK' /\ FileInv'
<1> SUFFICES ASSUME TypeOK, FileInv, [Next]_vars PROVE TypeOK' /\ FileInv'
  OBVIOUS
<1>1. ASSUME NEW d \in Dirs, RoomChanges(d) PROVE TypeOK' /\ FileInv'
  BY <1>1 DEF RoomChanges, TypeOK, FileInv, InHand, windowVars, managerVars,
     flagVars, fileVars, countVars
<1>2. CASE UNCHANGED vars
  BY <1>2 DEF vars, TypeOK, FileInv, InHand
<1>3. QED BY <1>1, <1>2, UserType, GuiType, WorkerType DEF Next

----------------------------------------------------------------------------
(* An idle window.                                                         *)

LEMMA IdleStep == IdleMeansStopped /\ [Next]_vars => IdleMeansStopped'
<1> SUFFICES ASSUME IdleMeansStopped, [Next]_vars PROVE IdleMeansStopped'
  OBVIOUS
<1> USE DEF IdleMeansStopped, Dead
<1>1. CASE User
  BY <1>1 DEF User, ClickStart, ClickPause, ClickContinue, ClickStop,
     CloseWindow, MayClick
<1>2. CASE GuiThread
  BY <1>2 DEF GuiThread, HandleRecovered, HandlePaused, HandleComplete,
     StartJoined, CompleteJoined, DestroyJoined, Spawn, managerVars, flagVars,
     Arrives
<1>3. CASE Worker
  <2>1. CASE CannotCreateDirectory
    BY <2>1 DEF CannotCreateDirectory
  <2>2. CASE ~CannotCreateDirectory
    <3>1. /\ UNCHANGED <<state, gui, stop>>
          /\ thread \notin {"none", "exited", "terminated"}
      BY <1>3, <2>2 DEF Worker, OpenDisk, OnFileFound, Report, ReadFragments,
         CheckSpace, PostPaused, SpaceWait, WriteFails, WriteSucceeds,
         PostRecovered, Count, ScanEnds, PostComplete, ThreadReturns,
         windowVars, flagVars
    <3>2. QED BY <3>1
  <2>3. QED BY <2>1, <2>2
<1>4. ASSUME NEW d \in Dirs, RoomChanges(d) PROVE IdleMeansStopped'
  BY <1>4 DEF RoomChanges, windowVars, managerVars, flagVars
<1>5. CASE UNCHANGED vars
  BY <1>5 DEF vars
<1>6. QED BY <1>1, <1>2, <1>3, <1>4, <1>5 DEF Next

----------------------------------------------------------------------------
(* A worker that waits for the user.                                       *)

PauseComing == \E i \in DOMAIN queue : queue[i].kind = "paused"

LEMMA PostKeepsPause ==
  ASSUME queue \in Seq(Message), NEW m \in Message, Post(m)
  PROVE  (PauseComing \/ m.kind = "paused") => PauseComing'
<1>1. /\ Len(queue') = Len(queue) + 1
      /\ \A i \in 1..Len(queue) : queue'[i] = queue[i]
      /\ queue'[Len(queue) + 1] = m
  BY AppendProperties DEF Post
<1>2. DOMAIN queue = 1..Len(queue) /\ DOMAIN queue' = 1..Len(queue')
  BY PostType, LenProperties
<1>3. Len(queue) \in Nat
  BY LenProperties
<1>4. QED BY <1>1, <1>2, <1>3 DEF PauseComing

LEMMA TakeKeepsPause ==
  ASSUME queue \in Seq(Message), queue # <<>>, Head(queue).kind # "paused",
         queue' = Tail(queue), PauseComing
  PROVE  PauseComing'
<1>1. PICK i \in DOMAIN queue : queue[i].kind = "paused"
  BY DEF PauseComing
<1>2. /\ DOMAIN queue = 1..Len(queue) /\ Len(queue) \in Nat
      /\ Head(queue) = queue[1]
      /\ queue' \in Seq(Message) /\ Len(queue') = Len(queue) - 1
      /\ \A j \in 1..Len(queue') : queue'[j] = queue[j + 1]
  BY LenProperties, HeadTailProperties
<1>3. i # 1 /\ i - 1 \in 1..Len(queue') /\ queue'[i - 1] = queue[i]
  BY <1>1, <1>2
<1>4. DOMAIN queue' = 1..Len(queue')
  BY <1>2, LenProperties
<1>5. QED BY <1>1, <1>3, <1>4 DEF PauseComing

\* No worker that sleeps is hidden by a step of the window.
LEMMA PauseGui ==
  ASSUME TypeOK, PausedIsShown, GuiThread
  PROVE  PausedIsShown'
<1> USE DEF managerVars, flagVars
<1>1. CASE HandleRecovered
  <2>1. PauseComing => PauseComing'
    BY <1>1, TakeKeepsPause DEF HandleRecovered, Arrives, TypeOK
  <2>2. QED
    BY <1>1, <2>1 DEF HandleRecovered, PausedIsShown, PauseComing, Dead
<1>2. CASE HandlePaused
  BY <1>2 DEF HandlePaused, PausedIsShown
<1>3. CASE HandleComplete
  BY <1>3 DEF HandleComplete, PausedIsShown
<1>4. CASE StartJoined
  BY <1>4 DEF StartJoined, Spawn, PausedIsShown
<1>5. CASE CompleteJoined \/ DestroyJoined
  BY <1>5 DEF CompleteJoined, DestroyJoined, PausedIsShown, Dead
<1>6. QED BY <1>1, <1>2, <1>3, <1>4, <1>5 DEF GuiThread

\* The worker pauses itself only on the way to posting that it did.
LEMMA PauseWorker ==
  ASSUME TypeOK, FileInv, PausedIsShown, Worker
  PROVE  PausedIsShown'
<1> USE DEF windowVars, flagVars, Goto
<1>1. CASE PostPaused
  <2>1. PauseComing'
    BY <1>1, PostKeepsPause, Messages DEF PostPaused, PausedMsg, TypeOK
  <2>2. QED BY <2>1 DEF PausedIsShown, PauseComing
<1>2. CASE PostRecovered
  <2>1. next - 1 \in Files /\ run \in 1..MaxRuns
    BY <1>2 DEF PostRecovered, TypeOK, FileInv, InHand, Files
  <2>2. PauseComing => PauseComing'
    BY <1>2, <2>1, PostKeepsPause, Messages DEF PostRecovered, TypeOK
  <2>3. QED
    BY <1>2, <2>2 DEF PostRecovered, PausedIsShown, PauseComing, Dead
<1>3. CASE PostComplete
  <2>1. PauseComing => PauseComing'
    BY <1>3, PostKeepsPause, Messages DEF PostComplete, TypeOK
  <2>2. QED
    BY <1>3, <2>1 DEF PostComplete, PausedIsShown, PauseComing, Dead
<1>4. CASE CheckSpace
  <2>1. \/ thread' = "postPaused"
        \/ UNCHANGED <<paused, stop, state, queue>> /\ thread = "space"
    BY <1>4 DEF CheckSpace
  <2>2. QED BY <2>1 DEF PausedIsShown, Dead
<1>5. CASE \/ OpenDisk \/ OnFileFound \/ Report \/ ReadFragments \/ SpaceWait
           \/ WriteFails \/ WriteSucceeds \/ Count \/ ScanEnds \/ ThreadReturns
  <2>1. UNCHANGED <<paused, stop, state, queue>>
        /\ thread \notin {"none", "exited", "terminated", "postPaused"}
    BY <1>5 DEF OpenDisk, OnFileFound, Report, ReadFragments, SpaceWait,
       WriteFails, WriteSucceeds, Count, ScanEnds, ThreadReturns
  <2>2. QED BY <2>1 DEF PausedIsShown, Dead
<1>6. CASE CannotCreateDirectory
  BY <1>6 DEF CannotCreateDirectory, PausedIsShown, Dead
<1>7. QED BY <1>1, <1>2, <1>3, <1>4, <1>5, <1>6 DEF Worker

LEMMA PauseStep ==
  TypeOK /\ FileInv /\ PausedIsShown /\ [Next]_vars => PausedIsShown'
<1> SUFFICES ASSUME TypeOK, FileInv, PausedIsShown, [Next]_vars
             PROVE  PausedIsShown'
  OBVIOUS
<1>1. CASE ClickStart \/ ClickContinue \/ ClickStop \/ CloseWindow
  BY <1>1 DEF ClickStart, ClickContinue, ClickStop, CloseWindow, PausedIsShown
<1>2. CASE ClickPause
  BY <1>2 DEF ClickPause, PausedIsShown
<1>3. ASSUME NEW d \in Dirs, RoomChanges(d) PROVE PausedIsShown'
  BY <1>3 DEF RoomChanges, windowVars, managerVars, flagVars, PausedIsShown, Dead
<1>4. CASE UNCHANGED vars
  BY <1>4 DEF vars, PausedIsShown, Dead
<1>5. QED BY <1>1, <1>2, <1>3, <1>4, PauseGui, PauseWorker DEF Next, User

----------------------------------------------------------------------------
(* The invariant, and what follows from it.                                *)

\* The inductive invariant holds of every run of the program: the conjuncts
\* carry each other over every step of the user, the window and the worker.
THEOREM Inductive == Spec => []IInv
<1>1. Init => IInv
  BY InitType DEF Init, IInv, IdleMeansStopped, PausedIsShown, Dead
<1>2. IInv /\ [Next]_vars => IInv'
  BY TypeStep, IdleStep, PauseStep DEF IInv
<1>3. QED BY <1>1, <1>2, PTL DEF Spec

\* The variables of the window, of the worker and of the queue between them
\* keep their types, and every file found is counted once.
THEOREM TypeCorrect == Spec => []TypeOK
BY Inductive, PTL DEF IInv

\* on_stop, on_start_pause and WM_SCAN_RECOVER_COMPLETE never leave the window
\* with "Start" on its button and a worker nobody told to stop.
THEOREM IdleStopped == Spec => []IdleMeansStopped
BY Inductive, PTL DEF IInv

\* A worker paused by check_space_and_switch or by the user is shown as paused
\* or about to be, so "Continue" is offered.
THEOREM PauseShown == Spec => []PausedIsShown
BY Inductive, PTL DEF IInv

----------------------------------------------------------------------------
(* The invariant of the files.                                             *)

Mine == {o \in disk : o.run = run}

Listed(f) == <<run, f>> \in Range(list)
Queued(f) == \E i \in DOMAIN queue : queue[i] = Recovered(f)

\* A new run has written nothing yet, and this one only files it has found.
RunsOK == /\ \A o \in disk : o.run <= run
          /\ \A o \in Mine : o.file < next

\* The file in hand is on a disk from WriteSucceeds on.
HandOK ==
  /\ thread \in InHand \ {"post", "count"} => \A o \in Mine : o.file < next - 1
  /\ thread = "count" /\ ~success => \A o \in Mine : o.file < next - 1
  /\ thread = "post" => success

\* Written and not yet counted.
Uncounted == thread = "post" \/ (thread = "count" /\ success)

CountOK ==
  /\ IsFiniteSet(Mine)
  /\ Cardinality(Mine) = IF Uncounted THEN recovered + 1 ELSE recovered

\* Between ClickStart and StartJoined the list is empty and the run is over; a
\* process that ended on the way has no list.
ListOK ==
  gui \notin {"joinStart", "terminated"} =>
    \A o \in Mine : \/ Listed(o.file) \/ Queued(o.file)
                    \/ thread = "post" /\ o.file = next - 1

FilesInv == RunsOK /\ HandOK /\ CountOK /\ ListOK

LEMMA InitFiles == Init => FilesInv
<1> SUFFICES ASSUME Init PROVE FilesInv
  OBVIOUS
<1>1. Mine = {} /\ disk = {} /\ thread = "none" /\ recovered = 0
  BY DEF Init, Mine
<1>2. IsFiniteSet({}) /\ Cardinality({}) = 0
  BY FS_EmptySet
<1>3. QED
  BY <1>1, <1>2
     DEF FilesInv, RunsOK, HandOK, CountOK, ListOK, Uncounted, InHand

----------------------------------------------------------------------------
(* The queue and the list.                                                 *)

\* Posting keeps what is queued and adds the message.
LEMMA PostKeeps ==
  ASSUME queue \in Seq(Message), NEW m \in Message, Post(m)
  PROVE  /\ \A i \in DOMAIN queue : i \in DOMAIN queue' /\ queue'[i] = queue[i]
         /\ \E i \in DOMAIN queue' : queue'[i] = m
<1>1. /\ Len(queue') = Len(queue) + 1
      /\ \A i \in 1..Len(queue) : queue'[i] = queue[i]
      /\ queue'[Len(queue) + 1] = m
  BY AppendProperties DEF Post
<1>2. /\ DOMAIN queue = 1..Len(queue) /\ DOMAIN queue' = 1..Len(queue')
      /\ Len(queue) \in Nat
  BY PostType, LenProperties
<1>3. QED
  BY <1>1, <1>2

\* Taking the first message keeps the others.
LEMMA TakeKeeps ==
  ASSUME queue \in Seq(Message), queue # <<>>, queue' = Tail(queue),
         NEW i \in DOMAIN queue, queue[i] # Head(queue)
  PROVE  \E j \in DOMAIN queue' : queue'[j] = queue[i]
<1>1. /\ DOMAIN queue = 1..Len(queue) /\ Len(queue) \in Nat
      /\ Head(queue) = queue[1]
      /\ queue' \in Seq(Message) /\ Len(queue') = Len(queue) - 1
      /\ \A j \in 1..Len(queue') : queue'[j] = queue[j + 1]
  BY LenProperties, HeadTailProperties
<1>2. i - 1 \in 1..Len(queue') /\ queue'[i - 1] = queue[i]
  BY <1>1
<1>3. DOMAIN queue' = 1..Len(queue')
  BY <1>1, LenProperties
<1>4. QED
  BY <1>2, <1>3

\* Appending a row keeps the others.
LEMMA AppendLists ==
  ASSUME list \in Seq(Row), NEW r \in Row, list' = Append(list, r)
  PROVE  Range(list) \subseteq Range(list') /\ r \in Range(list')
<1>1. /\ Len(list') = Len(list) + 1 /\ Len(list) \in Nat
      /\ DOMAIN list = 1..Len(list) /\ DOMAIN list' = 1..Len(list')
      /\ \A i \in 1..Len(list) : list'[i] = list[i]
      /\ list'[Len(list) + 1] = r
  BY AppendProperties, LenProperties
<1>2. QED
  BY <1>1 DEF Range

----------------------------------------------------------------------------
(* Steps that leave the files, the list and the queue alone.               *)

LEMMA StillFiles ==
  ASSUME TypeOK, FilesInv,
         UNCHANGED <<disk, run, list, queue, recovered, gui>>,
         next' \in {next, next + 1}, HandOK',
         thread # "post", thread' # "post",
         Uncounted' = Uncounted
  PROVE  FilesInv'
<1>1. Mine' = Mine /\ next \in Nat
  BY DEF Mine, TypeOK
<1>2. RunsOK'
  <2>1. \A o \in Mine : o.file \in Nat
    BY DEF Mine, TypeOK, Files
  <2>2. QED
    BY <1>1, <2>1 DEF FilesInv, RunsOK
<1>3. CountOK'
  BY <1>1 DEF FilesInv, CountOK
<1>4. ListOK'
  BY <1>1 DEF FilesInv, ListOK, Listed, Queued, Recovered
<1>5. QED
  BY <1>2, <1>3, <1>4 DEF FilesInv

\* The user's calls set flags; ClickStart also clears the list.
LEMMA UserFiles ==
  ASSUME TypeOK, FilesInv, User
  PROVE  FilesInv'
<1>1. /\ UNCHANGED <<queue, thread, next, success, recovered, disk, run>>
      /\ gui' = "joinStart" \/ (list' = list /\ gui = "loop")
  BY DEF User, ClickStart, ClickPause, ClickContinue, ClickStop, CloseWindow,
         MayClick, fileVars, countVars
<1>2. Mine' = Mine
  BY <1>1 DEF Mine
<1>3. RunsOK' /\ HandOK' /\ CountOK'
  BY <1>1, <1>2 DEF FilesInv, RunsOK, HandOK, CountOK, Uncounted
<1>4. ListOK'
  BY <1>1, <1>2 DEF FilesInv, ListOK, Listed, Queued, Recovered
<1>5. QED
  BY <1>3, <1>4 DEF FilesInv

\* The handlers move a row from the queue to the list; StartJoined begins a
\* run that has no files.
LEMMA GuiFiles ==
  ASSUME TypeOK, FileInv, FilesInv, GuiThread
  PROVE  FilesInv'
<1> USE DEF managerVars, flagVars, fileVars, countVars
<1>1. CASE StartJoined
  <2>1. run' = run + 1 /\ disk' = disk /\ run \in Nat
    BY <1>1 DEF StartJoined, Spawn, TypeOK
  <2>2. \A o \in disk : o.run \in Nat /\ o.run <= run
    BY DEF FilesInv, RunsOK, TypeOK
  <2>3. Mine' = {}
    BY <2>1, <2>2 DEF Mine
  <2>4. IsFiniteSet({}) /\ Cardinality({}) = 0
    BY FS_EmptySet
  <2>5. thread' = "open" /\ recovered' = 0
    BY <1>1 DEF StartJoined, Spawn
  <2>6. RunsOK'
    BY <2>1, <2>2, <2>3 DEF RunsOK
  <2>7. QED
    BY <2>3, <2>4, <2>5, <2>6
       DEF FilesInv, HandOK, CountOK, ListOK, Uncounted, InHand
<1>2. CASE ~StartJoined
  <2>1. UNCHANGED <<thread, next, success, recovered, disk, run>>
    BY <1>2 DEF GuiThread, HandleRecovered, HandlePaused, HandleComplete,
                CompleteJoined, DestroyJoined
  <2>2. Mine' = Mine
    BY <2>1 DEF Mine
  <2>3. RunsOK' /\ HandOK' /\ CountOK'
    BY <2>1, <2>2 DEF FilesInv, RunsOK, HandOK, CountOK, Uncounted
  <2>4. gui \notin {"joinStart", "terminated"}
    BY <1>2 DEF GuiThread, HandleRecovered, HandlePaused, HandleComplete,
                CompleteJoined, DestroyJoined, Arrives
  <2>5. ASSUME NEW o \in Mine
        PROVE  (Listed(o.file) => Listed(o.file)')
               /\ (Queued(o.file) => Queued(o.file)' \/ Listed(o.file)')
    <3>1. CASE HandleRecovered
      <4>1. /\ queue \in Seq(Message) /\ queue # <<>> /\ list \in Seq(Row)
            /\ queue' = Tail(queue) /\ list' = Append(list, Head(queue).row)
        BY <3>1 DEF HandleRecovered, Arrives, TypeOK
      <4>2. Head(queue).row \in Row
        BY <3>1, <4>1, TakeType, Messages DEF HandleRecovered, Arrives
      <4>3. Range(list) \subseteq Range(list') /\ Head(queue).row \in Range(list')
        BY <4>1, <4>2, AppendLists
      <4>4. Listed(o.file) => Listed(o.file)'
        BY <2>1, <4>3 DEF Listed
      <4>5. ASSUME Queued(o.file)
            PROVE  Queued(o.file)' \/ Listed(o.file)'
        <5>1. PICK i \in DOMAIN queue : queue[i] = Recovered(o.file)
          BY <4>5 DEF Queued
        <5>2. CASE queue[i] = Head(queue)
          <6>1. Head(queue).row = <<run, o.file>>
            BY <5>1, <5>2 DEF Recovered
          <6>2. QED
            BY <2>1, <4>3, <6>1 DEF Listed
        <5>3. CASE queue[i] # Head(queue)
          <6>1. \E j \in DOMAIN queue' : queue'[j] = queue[i]
            BY <4>1, <5>3, TakeKeeps
          <6>2. QED
            BY <2>1, <5>1, <6>1 DEF Queued, Recovered
        <5>4. QED
          BY <5>2, <5>3
      <4>6. QED
        BY <4>4, <4>5
    <3>2. CASE HandlePaused \/ HandleComplete
      <4>1. /\ queue \in Seq(Message) /\ queue # <<>> /\ queue' = Tail(queue)
            /\ list' = list /\ Head(queue).kind # "recovered"
        BY <3>2 DEF HandlePaused, HandleComplete, Arrives, TypeOK
      <4>2. Listed(o.file) => Listed(o.file)'
        BY <2>1, <4>1 DEF Listed
      <4>3. ASSUME Queued(o.file)
            PROVE  Queued(o.file)'
        <5>1. PICK i \in DOMAIN queue : queue[i] = Recovered(o.file)
          BY <4>3 DEF Queued
        <5>2. queue[i] # Head(queue)
          BY <4>1, <5>1 DEF Recovered
        <5>3. \E j \in DOMAIN queue' : queue'[j] = queue[i]
          BY <4>1, <5>2, TakeKeeps
        <5>4. QED
          BY <2>1, <5>1, <5>3 DEF Queued, Recovered
      <4>4. QED
        BY <4>2, <4>3
    <3>3. CASE CompleteJoined \/ DestroyJoined
      <4>1. queue' = queue /\ list' = list
        BY <3>3 DEF CompleteJoined, DestroyJoined
      <4>2. QED
        BY <2>1, <4>1 DEF Listed, Queued, Recovered
    <3>4. QED
      BY <1>2, <3>1, <3>2, <3>3 DEF GuiThread
  <2>6. ListOK'
    BY <2>1, <2>2, <2>4, <2>5 DEF FilesInv, ListOK
  <2>7. QED
    BY <2>3, <2>6 DEF FilesInv
<1>3. QED
  BY <1>1, <1>2

----------------------------------------------------------------------------
(* The worker.                                                             *)

\* What is queued and listed stays so while the worker posts.
LEMMA PostFiles ==
  ASSUME TypeOK, FilesInv, NEW m \in Message, Post(m),
         UNCHANGED <<disk, run, list, recovered, gui, next, success>>,
         HandOK', Uncounted' = Uncounted,
         thread = "post" => m = Recovered(next - 1)
  PROVE  FilesInv'
<1>1. Mine' = Mine
  BY DEF Mine
<1>2. RunsOK' /\ CountOK'
  BY <1>1 DEF FilesInv, RunsOK, CountOK
<1>3. queue \in Seq(Message)
  BY DEF TypeOK
<1>4. \A f : /\ Listed(f) => Listed(f)'
             /\ Queued(f) => Queued(f)'
  BY <1>3, PostKeeps DEF Listed, Queued, Recovered
<1>5. thread = "post" => Queued(next - 1)'
  BY <1>3, PostKeeps DEF Queued, Recovered
<1>6. ListOK'
  BY <1>1, <1>4, <1>5 DEF FilesInv, ListOK
<1>7. QED
  BY <1>2, <1>6 DEF FilesInv

\* A file of this run that is new on the disks.
LEMMA WriteFiles ==
  ASSUME TypeOK, FileInv, FilesInv, WriteSucceeds
  PROVE  FilesInv'
<1> DEFINE w == Written(next - 1)
<1>1. /\ disk' = disk \cup {w} /\ w.run = run /\ w.file = next - 1
      /\ UNCHANGED <<run, next, list, queue, gui, recovered>>
      /\ thread = "write" /\ thread' = "post" /\ success' = TRUE
  BY DEF WriteSucceeds, Written, windowVars, flagVars, countVars, Goto
<1>2. Mine' = Mine \cup {w}
  BY <1>1 DEF Mine
<1>3. next \in Nat /\ run \in Nat /\ recovered \in Nat
  BY DEF TypeOK
<1>4. \A o \in Mine : o.file < next - 1
  BY <1>1 DEF FilesInv, HandOK, InHand
<1>5. w \notin Mine
  BY <1>1, <1>3, <1>4
<1>6. RunsOK' /\ HandOK'
  BY <1>1, <1>2, <1>3 DEF FilesInv, RunsOK, HandOK, InHand
<1>7. CountOK'
  <2>1. IsFiniteSet(Mine) /\ Cardinality(Mine) = recovered
    BY <1>1 DEF FilesInv, CountOK, Uncounted
  <2>2. /\ IsFiniteSet(Mine \cup {w})
        /\ Cardinality(Mine \cup {w}) = Cardinality(Mine) + 1
    BY <1>5, <2>1, FS_AddElement
  <2>3. QED
    BY <1>1, <1>2, <2>1, <2>2 DEF CountOK, Uncounted
<1>8. ListOK'
  BY <1>1, <1>2 DEF FilesInv, ListOK, Listed, Queued, Recovered
<1>9. QED
  BY <1>6, <1>7, <1>8 DEF FilesInv

LEMMA WorkerFiles ==
  ASSUME TypeOK, FileInv, FilesInv, Worker
  PROVE  FilesInv'
<1> USE DEF windowVars, flagVars, fileVars, countVars, Goto
<1>0. HandOK /\ RunsOK /\ next \in Nat
  BY DEF FilesInv, TypeOK
<1>1. CASE WriteSucceeds
  BY <1>1, WriteFiles
<1>2. CASE PostRecovered
  <2>1. next - 1 \in Files /\ run \in 1..MaxRuns
    <3>1. /\ thread \in InHand /\ thread # "none"
          /\ next \in 1..(MaxFiles + 1) /\ run \in 0..MaxRuns
      BY <1>2 DEF PostRecovered, TypeOK, InHand
    <3>2. next > 1 /\ run > 0
      BY <3>1 DEF FileInv
    <3>3. QED
      BY <3>1, <3>2, FilesAssumption, RunsAssumption DEF Files
  <2>2. Recovered(next - 1) \in Message
    BY <2>1, Messages
  <2>3. HandOK' /\ Uncounted' = Uncounted
    BY <1>0, <1>2 DEF PostRecovered, HandOK, Uncounted, InHand
  <2>4. QED
    BY <1>2, <2>2, <2>3, PostFiles DEF PostRecovered
<1>3. CASE PostPaused
  <2>1. HandOK' /\ Uncounted' = Uncounted
    BY <1>0, <1>3 DEF PostPaused, HandOK, Uncounted, InHand, Mine
  <2>2. QED
    BY <1>3, <2>1, PostFiles, Messages DEF PostPaused
<1>4. CASE PostComplete
  <2>1. HandOK' /\ Uncounted' = Uncounted
    BY <1>4 DEF PostComplete, HandOK, Uncounted, InHand
  <2>2. QED
    BY <1>4, <2>1, PostFiles, Messages DEF PostComplete
<1>5. CASE Count
  <2>1. /\ UNCHANGED <<disk, run, list, queue, gui, next, success>>
        /\ thread = "count" /\ thread' = "progress"
        /\ recovered' = IF success THEN recovered + 1 ELSE recovered
    BY <1>5 DEF Count
  <2>2. Mine' = Mine
    BY <2>1 DEF Mine
  <2>3. RunsOK' /\ HandOK'
    BY <1>0, <2>1, <2>2 DEF RunsOK, HandOK, InHand
  <2>4. CountOK'
    BY <2>1, <2>2 DEF FilesInv, CountOK, Uncounted
  <2>5. ListOK'
    BY <2>1, <2>2 DEF FilesInv, ListOK, Listed, Queued, Recovered
  <2>6. QED
    BY <2>3, <2>4, <2>5 DEF FilesInv
<1>6. CASE OnFileFound
  <2>1. /\ UNCHANGED <<disk, run, list, queue, recovered, gui, success>>
        /\ next' = next + 1 /\ thread = "scan" /\ thread' \in {"scan", "read"}
    BY <1>6 DEF OnFileFound
  <2>2. Mine' = Mine
    BY <2>1 DEF Mine
  <2>3. HandOK'
    BY <1>0, <2>1, <2>2 DEF HandOK, RunsOK, InHand
  <2>4. QED
    BY <2>1, <2>3, StillFiles DEF Uncounted
<1>7. CASE ReadFragments \/ CheckSpace \/ SpaceWait \/ WriteFails
  <2>1. /\ UNCHANGED <<disk, run, list, queue, recovered, gui, next>>
        /\ thread \in InHand \ {"post", "count"}
        /\ \/ thread' \in InHand \ {"post", "count"}
           \/ thread' = "count" /\ ~success'
    BY <1>7 DEF ReadFragments, CheckSpace, SpaceWait, WriteFails, InHand
  <2>2. Mine' = Mine
    BY <2>1 DEF Mine
  <2>3. HandOK'
    BY <1>0, <2>1, <2>2 DEF HandOK
  <2>4. Uncounted' = Uncounted /\ thread # "post" /\ thread' # "post"
    BY <2>1 DEF Uncounted, InHand
  <2>5. QED
    BY <2>1, <2>3, <2>4, StillFiles
<1>8. CASE OpenDisk \/ Report \/ ScanEnds \/ ThreadReturns
  <2>1. /\ UNCHANGED <<disk, run, list, queue, recovered, gui, next>>
        /\ thread \notin InHand /\ thread' \notin InHand
    BY <1>8 DEF OpenDisk, Report, ScanEnds, ThreadReturns, InHand
  <2>2. HandOK' /\ Uncounted' = Uncounted /\ thread # "post" /\ thread' # "post"
    BY <2>1 DEF HandOK, Uncounted, InHand
  <2>3. QED
    BY <2>1, <2>2, StillFiles
<1>9. CASE CannotCreateDirectory
  <2>1. /\ UNCHANGED <<disk, run, list, queue, recovered, next, success>>
        /\ gui' = "terminated" /\ thread' = "terminated"
        /\ thread \in {"open", "read"}
    BY <1>9 DEF CannotCreateDirectory
  <2>2. Mine' = Mine
    BY <2>1 DEF Mine
  <2>3. RunsOK' /\ HandOK' /\ ListOK'
    BY <1>0, <2>1, <2>2 DEF RunsOK, HandOK, ListOK, InHand
  <2>4. CountOK'
    BY <2>1, <2>2 DEF FilesInv, CountOK, Uncounted
  <2>5. QED
    BY <2>3, <2>4 DEF FilesInv
<1>10. QED
  BY <1>1, <1>2, <1>3, <1>4, <1>5, <1>6, <1>7, <1>8, <1>9 DEF Worker

LEMMA FilesStep ==
  ASSUME TypeOK, FileInv, FilesInv, [Next]_vars
  PROVE  FilesInv'
<1>1. ASSUME UNCHANGED <<disk, run, list, queue, recovered, gui, next, thread,
                         success>>
      PROVE  FilesInv'
  <2>1. Mine' = Mine
    BY <1>1 DEF Mine
  <2>2. QED
    BY <1>1, <2>1 DEF FilesInv, RunsOK, HandOK, CountOK, ListOK, Uncounted,
                      Listed, Queued, Recovered
<1>2. ASSUME NEW d \in Dirs, RoomChanges(d)
      PROVE  FilesInv'
  BY <1>1, <1>2 DEF RoomChanges, windowVars, managerVars, flagVars, fileVars,
                    countVars
<1>3. CASE UNCHANGED vars
  BY <1>1, <1>3 DEF vars
<1>4. QED
  BY <1>2, <1>3, UserFiles, GuiFiles, WorkerFiles DEF Next

----------------------------------------------------------------------------
(* What follows.                                                           *)

\* The files of a run, its list, its queue and its count agree in every state.
THEOREM FilesInductive == Spec => [](IInv /\ FilesInv)
<1>1. IInv => TypeOK /\ FileInv
  BY DEF IInv
<1>2. IInv /\ FilesInv /\ [Next]_vars => FilesInv'
  BY <1>1, FilesStep
<1>3. QED
  BY <1>2, InitFiles, Inductive, PTL DEF Spec

\* Every file a run has written is in the list or its message is on its way:
\* on_start_pause, on_stop and the handlers of the messages lose no row.
THEOREM WrittenIsListed == Spec => []RecoveredIsListed
<1>1. FilesInv => RecoveredIsListed
  BY DEF FilesInv, ListOK, Mine, Listed, Queued, RecoveredIsListed
<1>2. QED
  BY <1>1, FilesInductive, PTL

\* Between two files, and in the final text, progress_.files_recovered is the
\* number of files this run has put on the target disks.
THEOREM CountIsWritten == Spec => []CountIsOnDisk
<1>1. FilesInv => CountIsOnDisk
  BY DEF FilesInv, CountOK, Uncounted, Mine, CountIsOnDisk
<1>2. QED
  BY <1>1, FilesInductive, PTL

=============================================================================
