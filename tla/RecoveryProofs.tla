--------------------------- MODULE RecoveryProofs ---------------------------
(***************************************************************************)
(* Theorems about Recovery: its types, that no half written file remains,  *)
(* that the index of a thread counts the rows it handled and that what is  *)
(* saved was handled, for any cache, targets, faults and number of         *)
(* threads; and, for distinct file names, that what counts as recovered    *)
(* is on a target.                                                         *)
(***************************************************************************)
EXTENDS Recovery, SequenceTheorems, FiniteSetTheorems, TLAPS

\* The steps with a row in hand, and those of the loop over the rows.
Working == {"space", "noSpace", "recheck", "skip", "create", "copy", "tally",
            "advance"}
InLoop  == {"page", "row", "save"} \cup Working

\* The page holds the rows after the cursor, without a gap.
PageOK ==
  /\ cursor <= rows /\ total <= rows
  /\ \A k \in 1..Len(page) : page[k] = cursor + k /\ page[k] <= rows
WorkOK == pc \in Working => page # <<>>

\* The rows are handled in the order of their ids, each once; the cursor and
\* the index move together.
CountOK ==
  /\ pc \in {"open", "load", "count", "disk"} => handled = {}
  /\ pc \in {"count", "disk"} => index = base
  /\ pc \in InLoop =>
       /\ handled = 1..(IF pc = "advance" THEN cursor + 1 ELSE cursor)
       /\ index = base + cursor

\* The loop ends for a stop or at the last row.
DoneOK == (pc = "save" /\ ~stop) => total <= index \/ total <= cursor
FileOK == /\ pc = "create" => current \in 1..Len(targets)
          /\ pc = "copy" => left >= 1

LoopOK == PageOK /\ WorkOK /\ CountOK /\ DoneOK /\ FileOK

SavedOK ==
  /\ (IF pc = "advance" THEN index + 1 ELSE index) <= attempts
  /\ SavedIsHandled

IInv == TypeOK /\ LoopOK /\ SavedOK /\ NoHalfFiles

----------------------------------------------------------------------------
(* Numbers and pages.                                                      *)

LEMMA Params ==
  /\ MaxRows \in Nat /\ PageSize \in Nat \ {0} /\ FolderLimit \in Nat \ {0}
  /\ MaxRuns \in Nat /\ SaveDirs \in Seq(Dirs) /\ Chunks \in [Rows -> Nat]
  /\ \A r \in Rows : Ext[r] \in Exts
BY RowsAssumption, LimitAssumption DEF Exts, Range

\* query_files_after_id gives rows that follow the cursor without a gap.
LEMMA PageType ==
  ASSUME rows \in 0..MaxRows, NEW id \in Nat, id <= rows
  PROVE  /\ PageAfter(id) \in Seq(Rows)
         /\ \A k \in 1..Len(PageAfter(id)) :
              PageAfter(id)[k] = id + k /\ PageAfter(id)[k] <= rows
         /\ PageAfter(id) = <<>> => rows <= id
<1> DEFINE n == IF rows - id < PageSize THEN rows - id ELSE PageSize
<1>1. n \in Nat /\ \A i \in 1..n : id + i \in Rows /\ id + i <= rows
  BY Params DEF Rows
<1>2. n = 0 => rows <= id
  BY Params
<1>3. PageAfter(id) = [i \in 1..n |-> id + i]
  BY DEF PageAfter
<1> HIDE DEF n
<1>4. PageAfter(id) \in Seq(Rows) /\ Len(PageAfter(id)) = n
  BY <1>1, <1>3
<1>5. QED BY <1>1, <1>2, <1>3, <1>4, EmptySeq

\* The row in hand, and the page without it.
LEMMA RowInHand ==
  ASSUME TypeOK, LoopOK, pc \in Working
  PROVE  /\ Head(page) = cursor + 1 /\ Head(page) \in Rows
         /\ Head(page) <= rows /\ Tail(page) \in Seq(Rows)
         /\ \A k \in 1..Len(Tail(page)) :
              /\ Tail(page)[k] = (cursor + 1) + k
              /\ Tail(page)[k] <= rows
<1>1. page \in Seq(Rows) /\ page # <<>> /\ cursor \in Nat
  BY DEF TypeOK, RowTypeOK, LoopOK, WorkOK
<1>2. /\ Head(page) \in Rows /\ Tail(page) \in Seq(Rows)
      /\ Len(Tail(page)) = Len(page) - 1 /\ Len(page) \in Nat \ {0}
      /\ \A k \in 1..Len(Tail(page)) : Tail(page)[k] = page[k + 1]
  BY <1>1, HeadTailProperties, EmptySeq
<1>3. Head(page) = page[1] /\ 1 \in 1..Len(page)
  BY <1>1, <1>2
<1>4. ASSUME NEW k \in 1..Len(Tail(page))
      PROVE  Tail(page)[k] = (cursor + 1) + k /\ Tail(page)[k] <= rows
  <2>1. k + 1 \in 1..Len(page)
    BY <1>2
  <2>2. page[k + 1] = cursor + (k + 1) /\ page[k + 1] <= rows
    BY <2>1 DEF LoopOK, PageOK
  <2>3. QED BY <1>1, <1>2, <2>2
<1>5. QED BY <1>2, <1>3, <1>4 DEF LoopOK, PageOK

LEMMA SwitchType ==
  ASSUME TypeOK, SwitchTarget
  PROVE  current' \in 1..Len(targets)
<1>1. Len(targets) \in Nat /\ current \in Nat \ {0}
  BY LenProperties DEF TypeOK, FileTypeOK
<1>2. \A i \in 1..Len(targets) : After(i) \in 1..Len(targets)
  <2>1. TAKE i \in 1..Len(targets)
  <2>2. Len(targets) \in Nat \ {0} /\ current - 1 + i \in Nat
    BY <1>1
  <2>3. (current - 1 + i) % Len(targets) \in 0..(Len(targets) - 1)
    BY <2>2
  <2>4. QED BY <2>2, <2>3 DEF After
<1>3. QED BY <1>2 DEF SwitchTarget, Fitting

LEMMA SavedType ==
  ASSUME TypeOK, SaveState
  PROVE  saved' = NoRow \/ saved' \in Saved
<1>1. [index |-> index, recovered |-> recovered, counters |-> counters]
        \in Saved
  BY DEF TypeOK, RowTypeOK, FileTypeOK, Saved
<1>2. QED BY <1>1 DEF SaveState, TypeOK, RowTypeOK

LEMMA CountersType ==
  ASSUME counters \in [Dirs \X Exts -> Counter], NEW r,
         NEW k \in Dirs \X Exts, BuildOutputPath(r, k)
  PROVE  /\ counters' \in [Dirs \X Exts -> Counter]
         /\ path'[3] = Name[r]
<1>1. counters[k].count \in 0..FolderLimit /\ counters[k].sub \in Nat \ {0}
  BY DEF Counter
<1>2. CASE /\ counters[k].count < FolderLimit
           /\ path' = <<k, 1, Name[r]>>
           /\ counters' = [counters EXCEPT ![k] =
                [count |-> counters[k].count + 1, sub |-> counters[k].sub]]
  <2>1. [count |-> counters[k].count + 1, sub |-> counters[k].sub] \in Counter
    BY <1>1, <1>2, Params DEF Counter
  <2>2. QED BY <1>2, <2>1
<1>3. CASE /\ path' = <<k, counters[k].sub + 1, Name[r]>>
           /\ counters' = [counters EXCEPT ![k] =
                             [count |-> 1, sub |-> counters[k].sub + 1]]
  <2>1. [count |-> 1, sub |-> counters[k].sub + 1] \in Counter
    BY <1>1, Params DEF Counter
  <2>2. QED BY <1>3, <2>1
<1>4. QED BY <1>2, <1>3 DEF BuildOutputPath

----------------------------------------------------------------------------
(* The initial state.                                                      *)

LEMMA InitInv == Init => IInv
<1>1. SUFFICES ASSUME Init PROVE IInv
  OBVIOUS
<1>2. counters \in [Dirs \X Exts -> Counter]
  BY <1>1, Params DEF Init, NoCounters, Counter
<1>3. TypeOK
  <2>1. CallTypeOK
    BY <1>1 DEF Init, CallTypeOK, Steps
  <2>2. RowTypeOK
    BY <1>1, Params, EmptySeq DEF Init, RowTypeOK
  <2>3. FileTypeOK /\ HistTypeOK
    <3>1. /\ left = 0 /\ targets = <<>> /\ current = 1
          /\ base = 0 /\ attempts = 0 /\ runs = 0 /\ handled = {}
          /\ good = {} /\ everHandled = {}
      BY <1>1 DEF Init
    <3>2. targets \in Seq(Dirs)
      BY <3>1, EmptySeq
    <3>3. QED BY <1>2, <3>1, <3>2 DEF FileTypeOK, HistTypeOK
  <2>4. QED BY <2>1, <2>2, <2>3 DEF TypeOK
<1>4. LoopOK
  <2>1. /\ rows \in 0..MaxRows /\ cursor = 0 /\ total = 0 /\ page = <<>>
        /\ pc = "none"
    BY <1>1 DEF Init
  <2>2. PageOK
    BY <2>1, Params, EmptySeq DEF PageOK
  <2>3. WorkOK /\ CountOK /\ DoneOK /\ FileOK
    BY <2>1 DEF WorkOK, CountOK, DoneOK, FileOK, Working, InLoop
  <2>4. QED BY <2>2, <2>3 DEF LoopOK
<1>5. SavedOK /\ NoHalfFiles
  BY <1>1 DEF Init, SavedOK, SavedIsHandled, NoHalfFiles
<1>6. QED BY <1>3, <1>4, <1>5 DEF IInv

----------------------------------------------------------------------------
(* Types.                                                                  *)

USE DEF flagVars, statVars, loopVars, fileVars, writeVars, histVars, envVars

\* The steps that only move the thread on.
Quiet == \/ OpenCache \/ QueryFileCount \/ OpenDisk \/ LoadPage \/ NextRow
         \/ CheckSpace \/ NoSpace \/ CheckSpaceAgain \/ CreateOutput
         \/ CopyBuffer \/ GiveUpCopy \/ Advance \/ SaveFinal \/ CloseCache
         \/ ThreadEnds
Calls == \/ PauseRecovery \/ PauseSaves \/ ResumeRecovery \/ StopRecovery
         \/ StopReturns
World == (\E S \in SUBSET Dirs : TargetSpace(S)) \/ ScanAppends

LEMMA CallTypeStep ==
  ASSUME CallTypeOK, [Next]_vars
  PROVE  CallTypeOK'
<1>1. CASE StartRecovery \/ Crash
  BY <1>1 DEF StartRecovery, Crash, CallTypeOK, Steps
<1>2. CASE Calls
  BY <1>2 DEF Calls, PauseRecovery, PauseSaves, ResumeRecovery, StopRecovery,
              StopReturns, CallTypeOK
<1>3. CASE OpenCache \/ LoadState \/ QueryFileCount \/ OpenDisk
  BY <1>3 DEF OpenCache, LoadState, QueryFileCount, OpenDisk, CallTypeOK, Steps
<1>4. CASE LoadPage \/ NextRow \/ NoSpace \/ SkipRow
  BY <1>4 DEF LoadPage, NextRow, NoSpace, SkipRow, CallTypeOK, Steps
<1>5. CASE CheckSpace \/ CheckSpaceAgain
  <2>1. /\ paused' = TRUE \/ UNCHANGED paused
        /\ pc' \in {"create", "noSpace", "skip"}
        /\ UNCHANGED <<app, recovering, stop, dbOpen, success>>
    BY <1>5 DEF CheckSpace, CheckSpaceAgain, CheckSpaceAndSwitch
  <2>2. QED BY <2>1 DEF CallTypeOK, Steps
<1>6. CASE CreateOutput \/ CopyBuffer \/ GiveUpCopy \/ Tally \/ Advance
  <2>1. /\ pc' \in {"copy", "tally", "advance", "row"}
        /\ success' \in {success, TRUE, FALSE}
        /\ UNCHANGED <<app, recovering, paused, stop, dbOpen>>
    BY <1>6 DEF CreateOutput, CopyBuffer, GiveUpCopy, Tally, Advance
  <2>2. QED BY <2>1 DEF CallTypeOK, Steps
<1>7. CASE SaveFinal \/ CloseCache \/ ThreadEnds
  BY <1>7 DEF SaveFinal, CloseCache, ThreadEnds, CallTypeOK, Steps
<1>8. CASE World \/ UNCHANGED vars
  BY <1>8 DEF World, TargetSpace, ScanAppends, vars, CallTypeOK
<1>9. QED BY <1>1, <1>2, <1>3, <1>4, <1>5, <1>6, <1>7, <1>8
          DEF Next, RecoveryThread, Caller, Calls, World

LEMMA HistTypeStep ==
  ASSUME IInv, [Next]_vars
  PROVE  HistTypeOK'
<1>1. HistTypeOK
  BY DEF IInv, TypeOK
<1>2. CASE StartRecovery \/ Crash
  BY <1>1, <1>2 DEF StartRecovery, Crash, HistTypeOK
<1>3. CASE Calls \/ Quiet \/ World \/ UNCHANGED vars
  <2>1. UNCHANGED <<base, handled, good, everHandled, attempts, runs>>
    BY <1>3 DEF Calls, Quiet, World, PauseRecovery, PauseSaves,
                ResumeRecovery, StopRecovery, StopReturns, OpenCache,
                QueryFileCount, OpenDisk, LoadPage, NextRow, CheckSpace,
                NoSpace, CheckSpaceAgain, CheckSpaceAndSwitch, CreateOutput,
                CopyBuffer, GiveUpCopy, Advance, SaveFinal, CloseCache,
                ThreadEnds, TargetSpace, ScanAppends, vars
  <2>2. QED BY <1>1, <2>1 DEF HistTypeOK
<1>4. CASE LoadState
  <2>1. index' \in Nat
    BY <1>4 DEF LoadState, IInv, TypeOK, RowTypeOK, Saved
  <2>2. QED BY <1>1, <1>4, <2>1 DEF LoadState, HistTypeOK
<1>5. CASE SkipRow \/ Tally
  <2>1. Head(page) \in Rows
    BY <1>5, RowInHand DEF SkipRow, Tally, Working, IInv
  <2>2. /\ Handle(Head(page)) /\ UNCHANGED <<base, runs>>
        /\ good' = good \/ good' = good \cup {Head(page)}
    BY <1>5 DEF SkipRow, Tally
  <2>3. QED BY <1>1, <2>1, <2>2 DEF Handle, HistTypeOK
<1>6. QED BY <1>2, <1>3, <1>4, <1>5
          DEF Next, RecoveryThread, Caller, Calls, Quiet, World

LEMMA RowTypeStep ==
  ASSUME IInv, [Next]_vars
  PROVE  RowTypeOK' /\ rows <= rows'
<1>1. RowTypeOK /\ MaxRows \in Nat
  BY Params DEF IInv, TypeOK
<1>2. CASE ScanAppends
  BY <1>1, <1>2 DEF ScanAppends, RowTypeOK
<1>3. CASE UNCHANGED rows
  <2>1. pc \in Working => Head(page) \in Rows /\ Tail(page) \in Seq(Rows)
    BY RowInHand DEF IInv
  <2>2. SaveState => saved' = NoRow \/ saved' \in Saved
    BY SavedType DEF IInv
  <2>3. CASE StartRecovery
    <3>1. /\ total' = 0 /\ recovered' = 0 /\ failed' = 0 /\ index' = 0
          /\ UNCHANGED <<saved, cursor, page>>
      BY <2>3 DEF StartRecovery
    <3>2. QED BY <1>1, <1>3, <3>1 DEF RowTypeOK
  <2>4. CASE Crash
    <3>1. /\ total' = 0 /\ recovered' = 0 /\ failed' = 0 /\ index' = 0
          /\ cursor' = 0 /\ page' = <<>> /\ saved' = saved
      BY <2>4 DEF Crash
    <3>2. page' \in Seq(Rows)
      BY <3>1, EmptySeq
    <3>3. QED BY <1>1, <1>3, <3>1, <3>2 DEF RowTypeOK
  <2>5. CASE Calls \/ CheckSpace \/ CheckSpaceAgain \/ SaveFinal \/ OpenCache
               \/ NextRow \/ NoSpace \/ CreateOutput \/ CopyBuffer
               \/ GiveUpCopy \/ CloseCache \/ ThreadEnds \/ World
               \/ UNCHANGED vars
    <3>1. /\ saved' = saved \/ SaveState
          /\ UNCHANGED <<total, recovered, failed, index, cursor, page>>
      BY <2>5 DEF Calls, World, PauseRecovery, PauseSaves, ResumeRecovery,
                  StopRecovery, StopReturns, CheckSpace, CheckSpaceAgain,
                  CheckSpaceAndSwitch, SaveFinal, OpenCache, NextRow, NoSpace,
                  CreateOutput, CopyBuffer, GiveUpCopy, CloseCache,
                  ThreadEnds, TargetSpace, ScanAppends, vars
    <3>2. QED BY <1>1, <1>3, <2>2, <3>1 DEF RowTypeOK
  <2>6. CASE LoadState
    BY <1>1, <1>3, <2>6 DEF LoadState, RowTypeOK, Saved
  <2>7. CASE QueryFileCount
    BY <1>1, <1>3, <2>7 DEF QueryFileCount, RowTypeOK
  <2>8. CASE OpenDisk
    <3>1. /\ cursor' = 0 /\ page' = <<>>
          /\ UNCHANGED <<saved, total, recovered, failed, index>>
      BY <2>8 DEF OpenDisk
    <3>2. page' \in Seq(Rows)
      BY <3>1, EmptySeq
    <3>3. QED BY <1>1, <1>3, <3>1, <3>2 DEF RowTypeOK
  <2>9. CASE LoadPage
    <3>1. cursor \in Nat /\ cursor <= rows /\ rows \in 0..MaxRows
      BY <1>1 DEF IInv, LoopOK, PageOK, RowTypeOK
    <3>2. PageAfter(cursor) \in Seq(Rows)
      BY <3>1, PageType
    <3>3. /\ page' = page \/ page' = PageAfter(cursor)
          /\ UNCHANGED <<saved, total, recovered, failed, index, cursor>>
      BY <2>9 DEF LoadPage
    <3>4. QED BY <1>1, <1>3, <3>2, <3>3 DEF RowTypeOK
  <2>10. CASE SkipRow \/ Advance
    <3>1. pc \in Working
      BY <2>10 DEF SkipRow, Advance, Working
    <3>2. Head(page) \in 0..MaxRows /\ Tail(page) \in Seq(Rows)
      BY <1>1, <2>1, <3>1 DEF Rows
    <3>3. /\ cursor' = Head(page) /\ page' = Tail(page) /\ index' = index + 1
          /\ failed' = failed + 1 \/ failed' = failed
          /\ UNCHANGED <<saved, total, recovered>>
      BY <2>10 DEF SkipRow, Advance
    <3>4. QED BY <1>1, <1>3, <3>2, <3>3 DEF RowTypeOK
  <2>11. CASE Tally
    <3>1. /\ recovered' \in {recovered, recovered + 1}
          /\ failed' \in {failed, failed + 1}
          /\ UNCHANGED <<saved, total, index, cursor, page>>
      BY <2>11 DEF Tally
    <3>2. QED BY <1>1, <1>3, <3>1 DEF RowTypeOK
  <2>12. QED BY <2>3, <2>4, <2>5, <2>6, <2>7, <2>8, <2>9, <2>10, <2>11
             DEF Next, RecoveryThread, Caller, Calls, World
<1>4. ScanAppends \/ UNCHANGED rows
  BY DEF Next, RecoveryThread, Caller, StartRecovery, PauseRecovery,
         PauseSaves, ResumeRecovery, StopRecovery, StopReturns, OpenCache,
         LoadState, QueryFileCount, OpenDisk, LoadPage, NextRow, CheckSpace,
         CheckSpaceAgain, CheckSpaceAndSwitch, NoSpace, SkipRow, CreateOutput,
         CopyBuffer, GiveUpCopy, Tally, Advance, SaveFinal, CloseCache,
         ThreadEnds, TargetSpace, Crash, vars
<1>5. QED BY <1>2, <1>3, <1>4

LEMMA FileTypeStep ==
  ASSUME IInv, [Next]_vars
  PROVE  FileTypeOK'
<1>1. FileTypeOK /\ SaveDirs \in Seq(Dirs)
  BY Params DEF IInv, TypeOK
<1>2. CASE StartRecovery \/ Crash
  <2>1. NoCounters \in [Dirs \X Exts -> Counter]
    BY Params DEF NoCounters, Counter
  <2>2. counters' = NoCounters
    BY <1>2 DEF StartRecovery, Crash
  <2>3. CASE StartRecovery
    <3>1. UNCHANGED <<left, targets, current>>
      BY <2>3 DEF StartRecovery
    <3>2. QED BY <1>1, <2>1, <2>2, <3>1 DEF FileTypeOK
  <2>4. CASE Crash
    <3>1. left' = 0 /\ targets' = <<>> /\ current' = 1
      BY <2>4 DEF Crash
    <3>2. targets' \in Seq(Dirs)
      BY <3>1, EmptySeq
    <3>3. QED BY <2>1, <2>2, <3>1, <3>2 DEF FileTypeOK
  <2>5. QED BY <1>2, <2>3, <2>4
<1>3. CASE Calls \/ OpenCache \/ QueryFileCount \/ LoadPage \/ NextRow
             \/ NoSpace \/ SkipRow \/ Tally \/ Advance \/ SaveFinal
             \/ CloseCache \/ ThreadEnds \/ World \/ UNCHANGED vars
  <2>1. UNCHANGED <<left, counters, targets, current>>
    BY <1>3 DEF Calls, World, PauseRecovery, PauseSaves, ResumeRecovery, StopRecovery,
                StopReturns, OpenCache, QueryFileCount, LoadPage, NextRow,
                NoSpace, SkipRow, Tally, Advance, SaveFinal, CloseCache,
                ThreadEnds, TargetSpace, ScanAppends, vars
  <2>2. QED BY <1>1, <2>1 DEF FileTypeOK
<1>4. CASE LoadState
  <2>1. counters' \in [Dirs \X Exts -> Counter]
    BY <1>1, <1>4 DEF LoadState, IInv, TypeOK, RowTypeOK, FileTypeOK, Saved
  <2>2. QED BY <1>1, <1>4, <2>1 DEF LoadState, FileTypeOK
<1>5. CASE OpenDisk
  <2>1. targets \o SaveDirs \in Seq(Dirs)
    BY <1>1, ConcatProperties DEF FileTypeOK
  <2>2. /\ targets' = targets \o SaveDirs
        /\ UNCHANGED <<left, counters, current>>
    BY <1>5 DEF OpenDisk
  <2>3. QED BY <1>1, <2>1, <2>2 DEF FileTypeOK
<1>6. CASE CheckSpace \/ CheckSpaceAgain
  <2>1. current' = current \/ SwitchTarget
    BY <1>6 DEF CheckSpace, CheckSpaceAgain, CheckSpaceAndSwitch
  <2>2. current' \in Nat \ {0}
    BY <1>1, <2>1, SwitchType DEF IInv, FileTypeOK
  <2>3. QED BY <1>1, <1>6, <2>2 DEF CheckSpace, CheckSpaceAgain,
                                     CheckSpaceAndSwitch, FileTypeOK
<1>7. CASE CreateOutput
  <2> DEFINE r == Head(page)
             k == <<targets[current], Ext[r]>>
  <2>1. r \in Rows /\ Chunks[r] \in Nat
    BY <1>7, RowInHand, Params DEF CreateOutput, IInv, Working
  <2>2. k \in Dirs \X Exts
    <3>1. current \in 1..Len(targets)
      BY <1>7 DEF CreateOutput, IInv, LoopOK, FileOK
    <3>2. targets[current] \in Dirs
      BY <1>1, <3>1, ElementOfSeq DEF FileTypeOK
    <3>3. QED BY <2>1, <3>2, Params
  <2>3. /\ \/ UNCHANGED counters
           \/ BuildOutputPath(r, k)
        /\ left' = left \/ left' = Chunks[r]
        /\ UNCHANGED <<targets, current>>
    BY <1>7 DEF CreateOutput
  <2> HIDE DEF k, r
  <2>4. counters' \in [Dirs \X Exts -> Counter]
    BY <1>1, <2>2, <2>3, CountersType DEF FileTypeOK
  <2>5. QED BY <1>1, <2>1, <2>3, <2>4 DEF FileTypeOK
<1>8. CASE CopyBuffer
  <2>1. left >= 1
    BY <1>8 DEF CopyBuffer, IInv, LoopOK, FileOK
  <2>2. left' = left - 1 /\ UNCHANGED <<counters, targets, current>>
    BY <1>8 DEF CopyBuffer
  <2>3. left \in Nat
    BY <1>1 DEF FileTypeOK
  <2>4. left' \in Nat
    BY <2>1, <2>2, <2>3
  <2>5. QED BY <1>1, <2>2, <2>4 DEF FileTypeOK
<1>9. CASE GiveUpCopy
  BY <1>1, <1>9 DEF GiveUpCopy, FileTypeOK
<1>10. QED BY <1>2, <1>3, <1>4, <1>5, <1>6, <1>7, <1>8, <1>9
           DEF Next, RecoveryThread, Caller, Calls, World

----------------------------------------------------------------------------
(* The loop over the rows.                                                 *)

LEMMA PageNat ==
  ASSUME RowTypeOK
  PROVE  \A k \in 1..Len(page) : page[k] \in Nat
<1>1. page \in Seq(Rows) /\ Rows \subseteq Nat
  BY Params DEF RowTypeOK, Rows
<1>2. \A k \in 1..Len(page) : page[k] \in Rows
  BY <1>1, ElementOfSeq
<1>3. QED BY <1>1, <1>2

LEMMA PageStep ==
  ASSUME IInv, [Next]_vars
  PROVE  PageOK'
<1>1. /\ PageOK /\ RowTypeOK /\ rows \in Nat /\ cursor \in Nat
      /\ RowTypeOK' /\ rows <= rows'
  BY RowTypeStep, Params DEF IInv, TypeOK, LoopOK, RowTypeOK
<1>2. rows' \in Nat
  BY <1>1, Params DEF RowTypeOK
<1>3. CASE StartRecovery \/ QueryFileCount
  <2>1. /\ total' = 0 \/ total' = rows
        /\ UNCHANGED <<cursor, page>>
    BY <1>3 DEF StartRecovery, QueryFileCount
  <2>2. \A k \in 1..Len(page) : page[k] \in Nat
    BY <1>1, PageNat
  <2>3. QED BY <1>1, <1>2, <2>1, <2>2 DEF PageOK
<1>4. CASE Crash \/ OpenDisk
  <2>1. /\ total' = 0 \/ total' = total
        /\ cursor' = 0 /\ page' = <<>>
    BY <1>4 DEF Crash, OpenDisk
  <2>2. QED BY <1>1, <1>2, <2>1, EmptySeq DEF PageOK, RowTypeOK
<1>5. CASE LoadPage
  <2>1. /\ page' = page \/ page' = PageAfter(cursor)
        /\ UNCHANGED <<total, cursor, rows>>
    BY <1>5 DEF LoadPage
  <2>2. \A k \in 1..Len(PageAfter(cursor)) :
          /\ PageAfter(cursor)[k] = cursor + k
          /\ PageAfter(cursor)[k] <= rows
    BY <1>1, PageType DEF RowTypeOK, PageOK
  <2>3. CASE page' = page
    BY <1>1, <2>1, <2>3 DEF PageOK
  <2>4. CASE page' = PageAfter(cursor)
    BY <1>1, <2>1, <2>2, <2>4 DEF PageOK
  <2>5. QED BY <2>1, <2>3, <2>4
<1>6. CASE SkipRow \/ Advance
  <2>1. pc \in Working
    BY <1>6 DEF SkipRow, Advance, Working
  <2>2. /\ cursor' = cursor + 1 /\ page' = Tail(page)
        /\ UNCHANGED <<total, rows>>
    BY <1>6, <2>1, RowInHand DEF SkipRow, Advance, IInv
  <2>3. /\ cursor + 1 <= rows
        /\ \A k \in 1..Len(Tail(page)) :
             Tail(page)[k] = (cursor + 1) + k /\ Tail(page)[k] <= rows
    BY <2>1, RowInHand DEF IInv
  <2>4. QED BY <1>1, <2>2, <2>3 DEF PageOK
<1>7. CASE UNCHANGED <<total, cursor, page>>
  <2>1. \A k \in 1..Len(page) : page[k] \in Nat
    BY <1>1, PageNat
  <2>2. total \in Nat
    BY <1>1, Params DEF RowTypeOK
  <2>3. QED BY <1>1, <1>2, <1>7, <2>1, <2>2 DEF PageOK
<1>8. \/ StartRecovery \/ QueryFileCount \/ Crash \/ OpenDisk \/ LoadPage
      \/ SkipRow \/ Advance
      \/ UNCHANGED <<total, cursor, page>>
  BY DEF Next, RecoveryThread, Caller, PauseRecovery, PauseSaves,
         ResumeRecovery, StopRecovery, StopReturns, OpenCache, LoadState,
         NextRow, CheckSpace, CheckSpaceAgain, CheckSpaceAndSwitch, NoSpace,
         CreateOutput, CopyBuffer, GiveUpCopy, Tally, SaveFinal, CloseCache,
         ThreadEnds, TargetSpace, ScanAppends, vars
<1>9. QED BY <1>3, <1>4, <1>5, <1>6, <1>7, <1>8

\* A step that takes no row leaves the counts alone.
LEMMA FrameStep ==
  ASSUME Calls \/ World \/ UNCHANGED vars
  PROVE  UNCHANGED <<pc, total, index, cursor, page, path, left, current,
                     targets, base, handled, good, attempts, out, torn>>
BY DEF Calls, World, PauseRecovery, PauseSaves, ResumeRecovery, StopRecovery,
       StopReturns, TargetSpace, ScanAppends, vars

LEMMA WorkStep ==
  ASSUME IInv, [Next]_vars
  PROVE  WorkOK'
<1>1. WorkOK
  BY DEF IInv, LoopOK
<1>2. CASE Calls \/ World \/ UNCHANGED vars
  BY <1>1, <1>2, FrameStep DEF WorkOK
<1>3. CASE StartRecovery \/ Crash \/ OpenCache \/ LoadState \/ QueryFileCount
             \/ OpenDisk \/ LoadPage \/ SkipRow \/ Advance \/ SaveFinal
             \/ CloseCache \/ ThreadEnds
  <2>1. pc' \notin Working
    BY <1>3 DEF StartRecovery, Crash, OpenCache, LoadState, QueryFileCount,
                OpenDisk, LoadPage, SkipRow, Advance, SaveFinal, CloseCache,
                ThreadEnds, Working
  <2>2. QED BY <2>1 DEF WorkOK
<1>4. CASE NextRow
  <2>1. page' = page /\ (page # <<>> \/ pc' = "page")
    BY <1>4 DEF NextRow
  <2>2. QED BY <2>1 DEF WorkOK, Working
<1>5. CASE NoSpace \/ CheckSpace \/ CheckSpaceAgain \/ CreateOutput
             \/ CopyBuffer \/ GiveUpCopy \/ Tally
  <2>1. page' = page /\ pc \in Working
    BY <1>5 DEF NoSpace, CheckSpace, CheckSpaceAgain, CheckSpaceAndSwitch,
                CreateOutput, CopyBuffer, GiveUpCopy, Tally, Working
  <2>2. QED BY <1>1, <2>1 DEF WorkOK
<1>6. QED BY <1>2, <1>3, <1>4, <1>5
          DEF Next, RecoveryThread, Caller, Calls, World

LEMMA CountStep ==
  ASSUME IInv, [Next]_vars
  PROVE  CountOK'
<1>1. /\ CountOK /\ cursor \in Nat /\ index \in Nat /\ base \in Nat
  BY DEF IInv, TypeOK, LoopOK, RowTypeOK, HistTypeOK
<1>2. CASE Calls \/ World \/ UNCHANGED vars
  BY <1>1, <1>2, FrameStep DEF CountOK
<1>3. CASE StartRecovery \/ OpenCache \/ LoadState \/ QueryFileCount
  BY <1>1, <1>3 DEF StartRecovery, OpenCache, LoadState, QueryFileCount,
                    CountOK, InLoop, Working
<1>4. CASE OpenDisk
  <2>1. handled = {} /\ index = base
    BY <1>1, <1>4 DEF OpenDisk, CountOK
  <2>2. /\ pc' \in {"page", "close"} /\ cursor' = 0
        /\ UNCHANGED <<handled, index, base>>
    BY <1>4 DEF OpenDisk
  <2>3. QED BY <1>1, <2>1, <2>2 DEF CountOK, InLoop, Working
<1>5. CASE LoadPage \/ NextRow \/ CheckSpace \/ CheckSpaceAgain \/ NoSpace
             \/ CreateOutput \/ CopyBuffer \/ GiveUpCopy
  <2>1. /\ pc \in InLoop \ {"advance"} /\ pc' \in InLoop \ {"advance"}
        /\ UNCHANGED <<handled, index, base, cursor>>
    BY <1>5 DEF LoadPage, NextRow, CheckSpace, CheckSpaceAgain,
                CheckSpaceAndSwitch, NoSpace, CreateOutput, CopyBuffer,
                GiveUpCopy, InLoop, Working
  <2>2. QED BY <1>1, <2>1 DEF CountOK, InLoop, Working
<1>6. CASE SkipRow \/ Tally
  <2>1. pc \in InLoop \ {"advance"} /\ pc \in Working
    BY <1>6 DEF SkipRow, Tally, InLoop, Working
  <2>2. handled = 1..cursor /\ index = base + cursor
    BY <1>1, <2>1 DEF CountOK
  <2>3. handled' = handled \cup {cursor + 1} /\ base' = base
    BY <1>6, <2>1, RowInHand DEF SkipRow, Tally, Handle, IInv
  <2>4. handled' = 1..(cursor + 1)
    BY <1>1, <2>2, <2>3
  <2>5. \/ pc' = "advance" /\ UNCHANGED <<index, cursor>>
        \/ pc' = "row" /\ index' = index + 1 /\ cursor' = cursor + 1
    BY <1>6, <2>1, RowInHand DEF SkipRow, Tally, IInv
  <2>6. QED BY <1>1, <2>2, <2>3, <2>4, <2>5 DEF CountOK, InLoop, Working
<1>7. CASE Advance
  <2>1. pc = "advance" /\ pc \in InLoop /\ pc \in Working
    BY <1>7 DEF Advance, InLoop, Working
  <2>2. handled = 1..(cursor + 1) /\ index = base + cursor
    BY <1>1, <2>1 DEF CountOK
  <2>3. /\ pc' = "row" /\ index' = index + 1 /\ cursor' = cursor + 1
        /\ UNCHANGED <<handled, base>>
    BY <1>7, <2>1, RowInHand DEF Advance, IInv
  <2>4. QED BY <1>1, <2>2, <2>3 DEF CountOK, InLoop, Working
<1>8. CASE SaveFinal \/ CloseCache \/ ThreadEnds \/ Crash
  BY <1>8 DEF SaveFinal, CloseCache, ThreadEnds, Crash, CountOK, InLoop,
              Working
<1>9. QED BY <1>2, <1>3, <1>4, <1>5, <1>6, <1>7, <1>8
          DEF Next, RecoveryThread, Caller, Calls, World

LEMMA DoneStep ==
  ASSUME IInv, [Next]_vars
  PROVE  DoneOK'
<1>1. SUFFICES ASSUME pc' = "save", ~stop'
               PROVE  total' <= index' \/ total' <= cursor'
  BY DEF DoneOK
<1>2. CASE Calls \/ World \/ UNCHANGED vars
  <2>1. ~stop
    BY <1>1, <1>2 DEF Calls, World, PauseRecovery, PauseSaves,
                      ResumeRecovery, StopRecovery, StopReturns, TargetSpace,
                      ScanAppends, vars
  <2>2. UNCHANGED <<pc, total, index, cursor>>
    BY <1>2, FrameStep
  <2>3. QED BY <1>1, <2>1, <2>2 DEF IInv, LoopOK, DoneOK
<1>3. CASE LoadPage
  <2>1. ~stop
    BY <1>1, <1>3 DEF LoadPage
  <2>2. /\ index >= total \/ PageAfter(cursor) = <<>>
        /\ UNCHANGED <<total, index, cursor>>
    BY <1>1, <1>3, <2>1 DEF LoadPage
  <2>3. /\ cursor \in Nat /\ rows \in 0..MaxRows /\ total \in 0..MaxRows
        /\ index \in Nat /\ cursor <= rows /\ total <= rows
    BY Params DEF IInv, TypeOK, LoopOK, PageOK, RowTypeOK
  <2>4. PageAfter(cursor) = <<>> => rows <= cursor
    BY <2>3, PageType
  <2>5. QED BY <2>2, <2>3, <2>4, Params
<1>4. CASE NextRow \/ NoSpace
  BY <1>1, <1>4 DEF NextRow, NoSpace
<1>5. CASE StartRecovery \/ Crash \/ OpenCache \/ LoadState \/ QueryFileCount
             \/ OpenDisk \/ CheckSpace \/ CheckSpaceAgain \/ SkipRow
             \/ CreateOutput \/ CopyBuffer \/ GiveUpCopy \/ Tally \/ Advance
             \/ SaveFinal \/ CloseCache \/ ThreadEnds
  <2>1. pc' # "save"
    BY <1>5 DEF StartRecovery, Crash, OpenCache, LoadState, QueryFileCount,
                OpenDisk, CheckSpace, CheckSpaceAgain, CheckSpaceAndSwitch,
                SkipRow, CreateOutput, CopyBuffer, GiveUpCopy, Tally,
                Advance, SaveFinal, CloseCache, ThreadEnds
  <2>2. QED BY <1>1, <2>1
<1>6. QED BY <1>2, <1>3, <1>4, <1>5
          DEF Next, RecoveryThread, Caller, Calls, World

LEMMA FileStep ==
  ASSUME IInv, [Next]_vars
  PROVE  FileOK'
<1>1. FileOK /\ left \in Nat
  BY DEF IInv, LoopOK, TypeOK, FileTypeOK
<1>2. CASE Calls \/ World \/ UNCHANGED vars
  BY <1>1, <1>2, FrameStep DEF FileOK
<1>3. CASE CheckSpace \/ CheckSpaceAgain
  <2>1. /\ pc' \in {"create", "noSpace", "skip"} /\ targets' = targets
        /\ \/ HasSpace /\ current' = current
           \/ SwitchTarget
           \/ pc' # "create"
    BY <1>3 DEF CheckSpace, CheckSpaceAgain, CheckSpaceAndSwitch
  <2>2. HasSpace => current \in 1..Len(targets)
    BY LenProperties DEF HasSpace, IInv, TypeOK, FileTypeOK
  <2>3. SwitchTarget => current' \in 1..Len(targets)
    BY SwitchType DEF IInv
  <2>4. QED BY <2>1, <2>2, <2>3 DEF FileOK
<1>4. CASE CreateOutput
  <2>1. /\ pc' \in {"copy", "tally"}
        /\ pc' = "copy" => left' = Chunks[Head(page)] /\ Chunks[Head(page)] > 0
    BY <1>4 DEF CreateOutput
  <2>2. Head(page) \in Rows
    BY <1>4, RowInHand DEF CreateOutput, IInv, Working
  <2>3. Chunks[Head(page)] \in Nat
    BY <2>2, Params
  <2>4. QED BY <2>1, <2>3 DEF FileOK
<1>5. CASE CopyBuffer
  <2>1. /\ left' = left - 1 /\ pc' \in {"copy", "tally"}
        /\ pc' = "copy" => left > 1
    BY <1>5 DEF CopyBuffer
  <2>2. QED BY <1>1, <2>1 DEF FileOK
<1>6. CASE StartRecovery \/ Crash \/ OpenCache \/ LoadState \/ QueryFileCount
             \/ OpenDisk \/ LoadPage \/ NextRow \/ NoSpace \/ SkipRow
             \/ GiveUpCopy \/ Tally \/ Advance \/ SaveFinal \/ CloseCache
             \/ ThreadEnds
  <2>1. pc' # "create" /\ pc' # "copy"
    BY <1>6 DEF StartRecovery, Crash, OpenCache, LoadState, QueryFileCount,
                OpenDisk, LoadPage, NextRow, NoSpace, SkipRow, GiveUpCopy,
                Tally, Advance, SaveFinal, CloseCache, ThreadEnds
  <2>2. QED BY <2>1 DEF FileOK
<1>7. QED BY <1>2, <1>3, <1>4, <1>5, <1>6
          DEF Next, RecoveryThread, Caller, Calls, World

----------------------------------------------------------------------------
(* What is saved, and what is on the disks.                                *)

LEMMA SaveStateKeeps ==
  ASSUME SavedOK, SaveState, index \in Nat, attempts \in Nat
  PROVE  saved' # NoRow => saved'.index <= attempts
<1>1. index <= attempts
  BY DEF SavedOK
<1>2. CASE saved' = [index |-> index, recovered |-> recovered,
                     counters |-> counters]
  BY <1>1, <1>2
<1>3. CASE saved' = saved
  BY <1>3 DEF SavedOK, SavedIsHandled
<1>4. QED BY <1>2, <1>3 DEF SaveState

LEMMA SavedStep ==
  ASSUME IInv, [Next]_vars
  PROVE  SavedOK'
<1>1. SavedOK /\ index \in Nat /\ attempts \in Nat
  BY DEF IInv, TypeOK, RowTypeOK, HistTypeOK
<1>2. saved # NoRow => saved.index \in Nat
  BY DEF IInv, TypeOK, RowTypeOK, Saved
<1>3. CASE /\ UNCHANGED attempts
           /\ saved' = saved \/ SaveState
           /\ \/ UNCHANGED <<pc, index>>
              \/ pc' # "advance" /\ index' = index
              \/ pc' # "advance" /\ index' = 0
  <2>1. saved' # NoRow => saved'.index <= attempts
    BY <1>1, <1>3, SaveStateKeeps DEF SavedOK, SavedIsHandled
  <2>2. (IF pc' = "advance" THEN index' + 1 ELSE index') <= attempts
    BY <1>1, <1>3 DEF SavedOK
  <2>3. QED BY <1>3, <2>1, <2>2 DEF SavedOK, SavedIsHandled
<1>4. CASE LoadState
  <2>1. /\ pc' = "count" /\ UNCHANGED <<saved, attempts>>
        /\ index' = index \/ (saved # NoRow /\ index' = saved.index)
    BY <1>4 DEF LoadState
  <2>2. index <= attempts /\ (saved # NoRow => saved.index <= attempts)
    BY <1>1 DEF SavedOK, SavedIsHandled
  <2>3. QED BY <2>1, <2>2 DEF SavedOK, SavedIsHandled
<1>5. CASE Tally \/ SkipRow
  <2>1. /\ pc # "advance" /\ attempts' = attempts + 1 /\ saved' = saved
        /\ \/ pc' = "advance" /\ index' = index
           \/ pc' = "row" /\ index' = index + 1
    BY <1>5 DEF Tally, SkipRow, Handle
  <2>2. index <= attempts /\ (saved # NoRow => saved.index <= attempts)
    BY <1>1, <2>1 DEF SavedOK, SavedIsHandled
  <2>3. QED BY <1>1, <1>2, <2>1, <2>2 DEF SavedOK, SavedIsHandled
<1>6. CASE Advance
  <2>1. /\ pc = "advance" /\ pc' = "row" /\ index' = index + 1
        /\ UNCHANGED <<saved, attempts>>
    BY <1>6 DEF Advance
  <2>2. QED BY <1>1, <2>1 DEF SavedOK, SavedIsHandled
<1>7. \/ /\ UNCHANGED attempts
         /\ saved' = saved \/ SaveState
         /\ \/ UNCHANGED <<pc, index>>
            \/ pc' # "advance" /\ index' = index
            \/ pc' # "advance" /\ index' = 0
      \/ LoadState \/ Tally \/ SkipRow \/ Advance
  BY DEF Next, RecoveryThread, Caller, StartRecovery, PauseRecovery,
         PauseSaves, ResumeRecovery, StopRecovery, StopReturns, OpenCache,
         QueryFileCount, OpenDisk, LoadPage, NextRow, CheckSpace,
         CheckSpaceAgain, CheckSpaceAndSwitch, NoSpace, CreateOutput,
         CopyBuffer, GiveUpCopy, SaveFinal, CloseCache, ThreadEnds,
         TargetSpace, ScanAppends, Crash, vars
<1>8. QED BY <1>3, <1>4, <1>5, <1>6, <1>7

LEMMA WholeStep ==
  ASSUME IInv, [Next]_vars
  PROVE  NoHalfFiles'
<1>1. NoHalfFiles
  BY DEF IInv
<1>2. CASE CreateOutput
  <2>1. \A o \in out : o.whole \/ o.path \in torn
    BY <1>1, <1>2 DEF CreateOutput, NoHalfFiles
  <2>2. /\ torn' = torn
        /\ \/ out' = out
           \/ /\ pc' = "copy"
              /\ out' = Without(path') \cup
                   {[path |-> path', row |-> Head(page), whole |-> FALSE]}
    BY <1>2 DEF CreateOutput
  <2>3. QED BY <2>1, <2>2 DEF NoHalfFiles, Without
<1>3. CASE CopyBuffer
  <2>1. /\ torn' = torn /\ path' = path /\ pc = "copy"
        /\ \/ out' = out /\ pc' = pc
           \/ out' = Without(path) \cup
                {[path |-> path, row |-> Head(page), whole |-> TRUE]}
    BY <1>3 DEF CopyBuffer
  <2>2. QED BY <1>1, <2>1 DEF NoHalfFiles, Without
<1>4. CASE GiveUpCopy
  <2>1. torn' = torn /\ out' = Without(path)
    BY <1>4 DEF GiveUpCopy
  <2>2. QED BY <1>1, <2>1 DEF NoHalfFiles, Without
<1>5. CASE Crash
  <2>1. out' = out /\ torn' = IF pc = "copy" THEN torn \cup {path} ELSE torn
    BY <1>5 DEF Crash
  <2>2. QED BY <1>1, <2>1 DEF NoHalfFiles
<1>6. CASE /\ UNCHANGED <<out, torn>>
           /\ UNCHANGED <<pc, path>> \/ pc # "copy"
  BY <1>1, <1>6 DEF NoHalfFiles
<1>7. \/ CreateOutput \/ CopyBuffer \/ GiveUpCopy \/ Crash
      \/ /\ UNCHANGED <<out, torn>>
         /\ UNCHANGED <<pc, path>> \/ pc # "copy"
  BY DEF Next, RecoveryThread, Caller, StartRecovery, PauseRecovery,
         PauseSaves, ResumeRecovery, StopRecovery, StopReturns, OpenCache,
         LoadState, QueryFileCount, OpenDisk, LoadPage, NextRow, CheckSpace,
         CheckSpaceAgain, CheckSpaceAndSwitch, NoSpace, SkipRow, Tally,
         Advance, SaveFinal, CloseCache, ThreadEnds, TargetSpace,
         ScanAppends, vars
<1>8. QED BY <1>2, <1>3, <1>4, <1>5, <1>6, <1>7

----------------------------------------------------------------------------
(* The inductive invariant and what follows from it.                       *)

\* IInv holds in every reachable state.
THEOREM Inductive == Spec => []IInv
<1>1. IInv /\ [Next]_vars => IInv'
  <2>1. SUFFICES ASSUME IInv, [Next]_vars PROVE IInv'
    OBVIOUS
  <2>2. TypeOK'
    BY <2>1, CallTypeStep, RowTypeStep, FileTypeStep, HistTypeStep
       DEF IInv, TypeOK
  <2>3. LoopOK'
    BY <2>1, PageStep, WorkStep, CountStep, DoneStep, FileStep DEF LoopOK
  <2>4. SavedOK' /\ NoHalfFiles'
    BY <2>1, SavedStep, WholeStep
  <2>5. QED BY <2>2, <2>3, <2>4 DEF IInv
<1>2. QED BY InitInv, <1>1, PTL DEF Spec

\* Type correctness, for any cache, targets, faults and number of threads.
THEOREM TypeCorrect == Spec => []TypeOK
<1>1. IInv => TypeOK
  BY DEF IInv
<1>2. QED BY <1>1, Inductive, PTL

\* recover_single_file leaves no half written file behind; a crash may.
THEOREM LeavesNoHalfFile == Spec => []NoHalfFiles
<1>1. IInv => NoHalfFiles
  BY DEF IInv
<1>2. QED BY <1>1, Inductive, PTL

\* The saved index is at most the number of rows handled, whichever thread
\* saved it and when.
THEOREM SavedWasHandled == Spec => []SavedIsHandled
<1>1. IInv => SavedIsHandled
  BY DEF IInv, SavedOK
<1>2. QED BY <1>1, Inductive, PTL

\* Between two rows the index has moved by the number of rows this thread
\* handled: none is handled twice or counted without being handled.
THEOREM IndexCounts == Spec => []IndexCountsRows
<1>1. ASSUME IInv PROVE IndexCountsRows
  <2>1. SUFFICES ASSUME pc \in {"row", "page", "save"}
                 PROVE  /\ index = base + Cardinality(handled)
                        /\ cursor \in handled \cup {0}
    BY DEF IndexCountsRows
  <2>2. /\ handled = 1..cursor /\ index = base + cursor /\ cursor \in Nat
    BY <1>1, <2>1
       DEF IInv, TypeOK, RowTypeOK, LoopOK, CountOK, InLoop, Working
  <2>3. Cardinality(1..cursor) = cursor
    BY <2>2, FS_Interval
  <2>4. cursor \in (1..cursor) \cup {0}
    BY <2>2
  <2>5. QED BY <2>2, <2>3, <2>4
<1>2. QED BY <1>1, Inductive, PTL

\* A recovery from the first row that nothing stopped has handled every row
\* the cache held when it counted them.
THEOREM FreshHandlesAll == Spec => []FreshRunHandlesAll
<1>1. ASSUME IInv PROVE FreshRunHandlesAll
  <2>1. SUFFICES ASSUME pc = "save", base = 0, ~stop
                 PROVE  1..total \subseteq handled
    BY DEF FreshRunHandlesAll
  <2>2. /\ handled = 1..cursor /\ index = base + cursor
        /\ total <= index \/ total <= cursor
    BY <1>1, <2>1 DEF IInv, LoopOK, CountOK, DoneOK, InLoop, Working
  <2>3. cursor \in Nat /\ total \in Nat
    BY <1>1, Params DEF IInv, TypeOK, RowTypeOK
  <2>4. QED BY <2>1, <2>2, <2>3
<1>2. QED BY <1>1, Inductive, PTL

----------------------------------------------------------------------------
(* What counts as recovered is on a target, when names do not collide.     *)

DistinctNames == \A r, s \in Rows : Name[r] = Name[s] => r = s

\* Files carry the name of their row, and only rows handled count.
NamesOK ==
  /\ \A o \in out : o.row \in Rows /\ o.path[3] = Name[o.row]
  /\ pc = "copy" => path[3] = Name[Head(page)]
  /\ good \subseteq handled
DiskOK ==
  /\ NamesOK /\ RecoveredIsOnDisk
  /\ (pc = "tally" /\ success = TRUE) =>
       \E o \in out : o.row = Head(page) /\ o.whole

\* Replacing the file of the row in hand keeps those of the rows recovered.
LEMMA ReplacedIsNotGood ==
  ASSUME IInv, NamesOK, RecoveredIsOnDisk, DistinctNames, NEW p,
         pc \in {"create", "copy"}, p[3] = Name[Head(page)]
  PROVE  \A r \in good : \E o \in Without(p) : o.row = r /\ o.whole
<1>1. handled = 1..cursor /\ cursor \in Nat
  BY DEF IInv, TypeOK, RowTypeOK, LoopOK, CountOK, InLoop, Working
<1>2. Head(page) = cursor + 1 /\ Head(page) \in Rows
  BY RowInHand DEF IInv, Working
<1>3. TAKE r \in good
<1>4. r \in Rows /\ r # Head(page)
  BY <1>1, <1>2 DEF NamesOK, IInv, TypeOK, HistTypeOK
<1>5. PICK o \in out : o.row = r /\ o.whole
  BY DEF RecoveredIsOnDisk
<1>6. o.path[3] = Name[r]
  BY <1>5 DEF NamesOK
<1>7. o.path # p
  BY <1>2, <1>4, <1>6 DEF DistinctNames
<1>8. QED BY <1>5, <1>7 DEF Without

LEMMA DiskStep ==
  ASSUME IInv, DiskOK, DistinctNames, [Next]_vars
  PROVE  DiskOK'
<1>1. NamesOK /\ RecoveredIsOnDisk
  BY DEF DiskOK
<1>2. CASE Calls \/ World \/ UNCHANGED vars
  <2>1. success' = success
    BY <1>2 DEF Calls, World, PauseRecovery, PauseSaves, ResumeRecovery,
                StopRecovery, StopReturns, TargetSpace, ScanAppends, vars
  <2>2. QED BY <1>2, <2>1, FrameStep DEF DiskOK, NamesOK, RecoveredIsOnDisk
<1>3. CASE StartRecovery \/ Crash
  <2>1. good' = {} /\ out' = out /\ pc' # "copy" /\ pc' # "tally"
    BY <1>3 DEF StartRecovery, Crash
  <2>2. QED BY <1>1, <2>1 DEF DiskOK, NamesOK, RecoveredIsOnDisk
<1>4. CASE OpenCache \/ LoadState \/ QueryFileCount \/ OpenDisk \/ LoadPage
             \/ NextRow \/ CheckSpace \/ CheckSpaceAgain \/ NoSpace \/ Advance
             \/ SaveFinal \/ CloseCache \/ ThreadEnds
  <2>1. /\ UNCHANGED <<good, out, handled>>
        /\ pc' # "copy" /\ pc' # "tally"
    BY <1>4 DEF OpenCache, LoadState, QueryFileCount, OpenDisk, LoadPage,
                NextRow, CheckSpace, CheckSpaceAgain, CheckSpaceAndSwitch,
                NoSpace, Advance, SaveFinal, CloseCache, ThreadEnds
  <2>2. QED BY <1>1, <2>1 DEF DiskOK, NamesOK, RecoveredIsOnDisk
<1>5. CASE SkipRow
  <2>1. /\ UNCHANGED <<good, out>> /\ handled \subseteq handled'
        /\ pc' # "copy" /\ pc' # "tally"
    BY <1>5 DEF SkipRow, Handle
  <2>2. QED BY <1>1, <2>1 DEF DiskOK, NamesOK, RecoveredIsOnDisk
<1>6. CASE Tally
  <2>1. /\ UNCHANGED out /\ pc = "tally" /\ pc' = "advance"
        /\ handled' = handled \cup {Head(page)}
        /\ \/ good' = good
           \/ success = TRUE /\ good' = good \cup {Head(page)}
    BY <1>6 DEF Tally, Handle, IInv, TypeOK, CallTypeOK
  <2>2. NamesOK'
    BY <1>1, <2>1 DEF NamesOK
  <2>3. RecoveredIsOnDisk'
    BY <1>1, <2>1 DEF RecoveredIsOnDisk, DiskOK
  <2>4. QED BY <2>1, <2>2, <2>3 DEF DiskOK
<1>7. CASE CreateOutput
  <2> DEFINE r == Head(page)
             k == <<targets[current], Ext[r]>>
             new == [path |-> path', row |-> r, whole |-> FALSE]
  <2>1. r \in Rows
    BY <1>7, RowInHand DEF CreateOutput, IInv, Working
  <2>2. /\ pc = "create" /\ UNCHANGED <<good, handled, page>>
        /\ \/ /\ out' = out /\ pc' = "tally" /\ success' = FALSE
           \/ /\ BuildOutputPath(r, k)
              /\ out' = Without(path') \cup {new} /\ pc' = "copy"
    BY <1>7 DEF CreateOutput
  <2>3. CASE out' = out /\ pc' = "tally" /\ success' = FALSE
    BY <1>1, <2>2, <2>3 DEF DiskOK, NamesOK, RecoveredIsOnDisk
  <2>4. CASE /\ BuildOutputPath(r, k)
             /\ out' = Without(path') \cup {new} /\ pc' = "copy"
    <3>1. path'[3] = Name[r]
      BY <2>4 DEF BuildOutputPath
    <3>2. \A g \in good : \E o \in Without(path') : o.row = g /\ o.whole
      BY <1>1, <2>2, <3>1, ReplacedIsNotGood
    <3>3. NamesOK'
      BY <1>1, <2>1, <2>2, <2>4, <3>1 DEF NamesOK, Without
    <3>4. RecoveredIsOnDisk'
      BY <2>2, <2>4, <3>2 DEF RecoveredIsOnDisk
    <3>5. QED BY <2>4, <3>3, <3>4 DEF DiskOK
  <2>5. QED BY <2>2, <2>3, <2>4
<1>8. CASE CopyBuffer \/ GiveUpCopy
  <2> DEFINE r == Head(page)
             new == [path |-> path, row |-> r, whole |-> TRUE]
  <2>1. r \in Rows
    BY <1>8, RowInHand DEF CopyBuffer, GiveUpCopy, IInv, Working
  <2>2. /\ pc = "copy" /\ UNCHANGED <<good, handled, page, path>>
        /\ \/ out' = out /\ pc' = pc
           \/ out' = Without(path) \cup {new} /\ pc' = "tally"
           \/ out' = Without(path) /\ pc' = "tally" /\ success' = FALSE
    BY <1>8 DEF CopyBuffer, GiveUpCopy
  <2>3. path[3] = Name[r]
    BY <1>1, <2>2 DEF NamesOK
  <2>4. \A g \in good : \E o \in Without(path) : o.row = g /\ o.whole
    BY <1>1, <2>2, <2>3, ReplacedIsNotGood
  <2>5. NamesOK'
    BY <1>1, <2>1, <2>2, <2>3 DEF NamesOK, Without
  <2>6. RecoveredIsOnDisk'
    BY <1>1, <2>2, <2>4 DEF RecoveredIsOnDisk
  <2>7. (pc' = "tally" /\ success' = TRUE) =>
          \E o \in out' : o.row = Head(page') /\ o.whole
    <3>1. new.row = Head(page') /\ new.whole
      BY <2>2
    <3>2. out' = Without(path) \cup {new} => new \in out'
      OBVIOUS
    <3> HIDE DEF new
    <3>3. QED BY <2>2, <3>1, <3>2
  <2>8. QED BY <2>5, <2>6, <2>7 DEF DiskOK
<1>9. QED BY <1>2, <1>3, <1>4, <1>5, <1>6, <1>7, <1>8
          DEF Next, RecoveryThread, Caller, Calls, World

\* With distinct names no later row, target or folder takes a recovered file
\* away.
THEOREM RecoveredStays ==
  ASSUME DistinctNames
  PROVE  Spec => []RecoveredIsOnDisk
<1>1. Init => DiskOK
  BY DEF Init, DiskOK, NamesOK, RecoveredIsOnDisk
<1>2. IInv /\ DiskOK /\ [Next]_vars => DiskOK'
  BY DiskStep
<1>3. DiskOK => RecoveredIsOnDisk
  BY DEF DiskOK
<1>4. QED BY <1>1, <1>2, <1>3, Inductive, PTL DEF Spec
=============================================================================
