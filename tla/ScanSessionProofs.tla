-------------------------- MODULE ScanSessionProofs --------------------------
(***************************************************************************)
(* Theorems about ScanSession: its types, that no two rows of the cache    *)
(* carry the same key, and that it implements ScanStore, for every set of  *)
(* files, every tuning constant and every set of faults.                   *)
(***************************************************************************)
EXTENDS ScanSession, SequenceTheorems, FiniteSetTheorems, TLAPS

USE FilesAssumption, RangeAssumption, TuningAssumption, NoRowAssumption

----------------------------------------------------------------------------
(* Types.                                                                  *)

LEMMA SameTypes ==
  /\ FileTypeOK /\ UNCHANGED fileVars => FileTypeOK'
  /\ SaveTypeOK /\ UNCHANGED saveVars => SaveTypeOK'
  /\ FlagTypeOK /\ UNCHANGED flagVars => FlagTypeOK'
  /\ PlanTypeOK /\ UNCHANGED planVars => PlanTypeOK'
  /\ LoopTypeOK /\ UNCHANGED loopVars => LoopTypeOK'
BY DEF FileTypeOK, SaveTypeOK, FlagTypeOK, PlanTypeOK, LoopTypeOK,
       fileVars, saveVars, flagVars, planVars, loopVars

LEMMA ElemsType == ASSUME NEW S, NEW s \in Seq(S) PROVE Range(s) \subseteq S
BY ElementOfSeq, LenProperties DEF Range

LEMMA FlushType ==
  ASSUME NEW batch \in Seq(Files), FileTypeOK, Flush(batch), UNCHANGED keys
  PROVE  FileTypeOK'
<1>1. rows \o batch \in Seq(Files) /\ Range(batch) \subseteq Files
  BY ConcatProperties, ElemsType DEF FileTypeOK
<1>2. <<>> \in Seq(Files)
  BY EmptySeq
<1>3. QED BY <1>1, <1>2 DEF InsertBulk, Flush, FileTypeOK

LEMMA OnFileType ==
  ASSUME FileTypeOK, NEW f \in Files, OnFile(f)
  PROVE  FileTypeOK'
<1>1. CASE UNCHANGED fileVars
  BY <1>1, SameTypes
<1>2. CASE /\ keys' = keys \cup {Key[f]}
           /\ IF IsFull(Len(pending) + 1)
              THEN Flush(Append(pending, f))
              ELSE pending' = Append(pending, f) /\ UNCHANGED <<rows, lost>>
  <2>1. Append(pending, f) \in Seq(Files)
    BY DEF FileTypeOK
  <2>2. keys' \subseteq Nat
    BY <1>2 DEF FileTypeOK
  <2>3. CASE Flush(Append(pending, f))
    <3>1. /\ rows \o Append(pending, f) \in Seq(Files)
          /\ Range(Append(pending, f)) \subseteq Files
      BY <2>1, ConcatProperties, ElemsType DEF FileTypeOK
    <3>2. QED BY <2>2, <2>3, <3>1, EmptySeq DEF InsertBulk, FileTypeOK, Flush
  <2>4. CASE pending' = Append(pending, f) /\ UNCHANGED <<rows, lost>>
    BY <2>1, <2>2, <2>4 DEF FileTypeOK
  <2>5. QED BY <1>2, <2>3, <2>4
<1>3. QED BY <1>1, <1>2 DEF OnFile

\* The scanner picks up at a sector and a count, whatever was saved.
LEMMA BeginRawType ==
  ASSUME NEW first \in Nat, NEW resume \in Nat, BeginRaw(first, resume)
  PROVE  LoopTypeOK' /\ pc' = "raw"
<1>1. ResumeSector(first, resume) \in Nat /\ ResumeCount(first, resume) \in Nat
  BY DEF ResumeSector, ResumeCount, MaxOf
<1>2. QED BY <1>1 DEF BeginRaw, LoopTypeOK

LEMMA ZeroType == Zero \in Progress
BY DEF Zero, Progress

LEMMA InitType == Init => TypeOK
<1> SUFFICES ASSUME Init PROVE TypeOK
  OBVIOUS
<1>1. FileTypeOK
  BY EmptySeq DEF Init, FileTypeOK
<1>2. SaveTypeOK /\ FlagTypeOK
  BY ZeroType DEF Init, SaveTypeOK, FlagTypeOK
<1>3. PlanTypeOK
  BY DEF Init, PlanTypeOK
<1>4. LoopTypeOK
  BY EmptySeq DEF Init, LoopTypeOK
<1>5. QED BY <1>1, <1>2, <1>3, <1>4 DEF Init, TypeOK, Steps

LEMMA TypeStep == TypeOK /\ ThreadInv /\ [Next]_vars => TypeOK'
<1> SUFFICES ASSUME TypeOK, ThreadInv, [Next]_vars PROVE TypeOK'
  OBVIOUS
<1> USE SameTypes DEF TypeOK
<1>1. ASSUME NEW m \in Modes, StartScan(m) PROVE TypeOK'
  <2>1. SaveTypeOK' /\ FlagTypeOK'
    BY <1>1, ZeroType DEF CreateSession, StartScan, SaveTypeOK, FlagTypeOK
  <2>2. PlanTypeOK'
    BY <1>1 DEF StartScan, PlanTypeOK
  <2>3. QED BY <1>1, <2>1, <2>2 DEF StartScan, Steps
<1>2. ASSUME NEW m \in Modes, ResumeScan(m) PROVE TypeOK'
  <2>1. SaveTypeOK' /\ FlagTypeOK'
    BY <1>2 DEF HasSaved, ResumeScan, Resumable, SaveTypeOK, FlagTypeOK
  <2>2. PlanTypeOK'
    BY <1>2 DEF ResumeScan, PlanTypeOK
  <2>3. QED BY <1>2, <2>1, <2>2 DEF ResumeScan, Steps
<1>3. CASE StartScanNoCache
  <2>1. SaveTypeOK' /\ FlagTypeOK'
    BY <1>3, ZeroType DEF StartScanNoCache, SaveTypeOK, FlagTypeOK
  <2>2. QED BY <1>3, <2>1 DEF StartScanNoCache
<1>4. CASE PauseScan \/ ResumeFromPause \/ StopScan
  BY <1>4 DEF PauseScan, ResumeFromPause, StopScan, FlagTypeOK
<1>5. CASE OpenDisk \/ Abandon \/ MergeEnds \/ Notify
  BY <1>5 DEF OpenDisk, Abandon, MergeEnds, Notify, Steps, FlagTypeOK
<1>6. CASE Load
  <2>1. FileTypeOK'
    <3>1. Stored \subseteq Files
      BY ElemsType DEF Stored, FileTypeOK
    <3>2. QED BY <1>6, <3>1 DEF LoadFileKeys, Load, FileTypeOK
  <2>2. PlanTypeOK' /\ LoopTypeOK' /\ pc' \in Steps
    <3>1. prog.resume \in Nat
      BY <1>6 DEF SaveTypeOK, Progress, Load, ThreadInv
    <3>2. /\ StartSector \in Nat
          /\ (IF prog.resume > StartSector THEN prog.resume ELSE 0) \in Nat
      BY <3>1
    <3>3. PlanTypeOK'
      BY <1>6, <3>1 DEF Load, PlanTypeOK
    <3>4. LoopTypeOK' /\ pc' \in Steps
      <4>1. CASE BeginRaw(StartSector,
                          IF prog.resume > StartSector THEN prog.resume ELSE 0)
        BY <3>2, <4>1, BeginRawType DEF Steps
      <4>2. CASE BeginRaw(StartSector, 0)
        BY <3>2, <4>2, BeginRawType DEF Steps
      <4>3. CASE UNCHANGED loopVars /\ pc' \in {"finish", "meta", "phase1", "phase2"}
        BY <4>3 DEF Steps
      <4>4. QED BY <1>6, <4>1, <4>2, <4>3 DEF Load
    <3>5. QED BY <3>3, <3>4
  <2>3. QED
    BY <1>6, <2>1, <2>2 DEF Load
<1>7. CASE BootUnreadable
  BY <1>7 DEF BootUnreadable, AfterMeta, Steps, FileTypeOK
<1>8. ASSUME NEW f \in MetaFiles, MetaFile(f) PROVE TypeOK'
  BY <1>8, OnFileType DEF MetaFile, PlanTypeOK
<1>9. CASE MetaEnds
  BY <1>9 DEF MetaEnds, AfterMeta, Steps, PlanTypeOK
<1>10. CASE SavePhaseOne
  <2>1. SaveTypeOK'
    BY <1>10 DEF SaveProgress, SavePhaseOne, SaveTypeOK, Progress
  <2>2. QED BY <1>10, <2>1 DEF SavePhaseOne, Steps, FileTypeOK
<1>11. CASE EnterPhaseTwo
  <2>1. SaveTypeOK'
    BY <1>11 DEF EnterPhaseTwo, SaveTypeOK, Progress
  <2>2. LoopTypeOK' /\ pc' \in Steps
    BY <1>11, BeginRawType DEF EnterPhaseTwo, Steps, PlanTypeOK
  <2>3. QED
    BY <1>11, <2>1, <2>2 DEF EnterPhaseTwo
<1>12. CASE RawLoop
  BY <1>12 DEF RawLoop, Steps, LoopTypeOK
<1>13. ASSUME NEW f \in RawFiles, RawHit(f) PROVE TypeOK'
  <2>1. f \in Files /\ Pos[f] \in Nat /\ Size[f] \in Nat
    BY DEF RawFiles
  <2>2. FileTypeOK'
    BY <1>13, <2>1, OnFileType DEF RawHit
  <2>3. videos' \in Seq(RawFiles)
    <3>1. Append(videos, f) \in Seq(RawFiles)
      BY DEF LoopTypeOK
    <3>2. QED BY <1>13, <3>1 DEF RawHit, LoopTypeOK
  <2>4. LoopTypeOK'
    BY <1>13, <2>1, <2>3 DEF RawHit, LoopTypeOK
  <2>5. QED BY <1>13, <2>2, <2>4 DEF RawHit
<1>14. CASE BatchEnds
  <2>1. sector' \in Nat
    BY <1>14 DEF BatchEnds, NextSector, LoopTypeOK
  <2>2. BatchCount \in Nat
    BY <1>14 DEF BatchEnds, BatchCount, MinOf, ThreadInv, LoopTypeOK
  <2>3. QED BY <1>14, <2>1, <2>2 DEF BatchEnds, Steps, LoopTypeOK
<1>15. CASE MergeVideo
  <2>1. Head(videos) \in Files /\ videos \in Seq(RawFiles) /\ Len(videos) \in Nat
    BY <1>15, HeadTailProperties, LenProperties
    DEF MergeVideo, LoopTypeOK, RawFiles
  <2>2. FileTypeOK'
    BY <1>15, <2>1, OnFileType DEF MergeVideo, FileTypeOK
  <2>3. \A n \in 1..Len(videos) : SubSeq(videos, n + 1, Len(videos)) \in Seq(RawFiles)
    <3>1. SUFFICES ASSUME NEW n \in 1..Len(videos)
                   PROVE  SubSeq(videos, n + 1, Len(videos)) \in Seq(RawFiles)
      OBVIOUS
    <3>2. \A i \in (n + 1)..Len(videos) : videos[i] \in RawFiles
      BY <2>1, ElementOfSeq
    <3>3. QED BY <2>1, <3>2, SubSeqProperties
  <2>4. LoopTypeOK'
    BY <1>15, <2>3 DEF MergeVideo, LoopTypeOK
  <2>5. QED BY <1>15, <2>2, <2>4 DEF MergeVideo
<1>16. CASE EnterReport
  BY <1>16 DEF EnterReport, AfterReport, Steps
<1>17. CASE SaveReport
  <2>1. SaveTypeOK'
    BY <1>17 DEF SaveProgress, SaveReport, ResumePoint, SaveTypeOK, LoopTypeOK, Progress
  <2>2. QED BY <1>17, <2>1 DEF SaveReport, AfterReport, Steps
<1>18. CASE FinalFlush
  BY <1>18, FlushType DEF FinalFlush, Steps, FileTypeOK
<1>19. CASE MarkComplete
  <2>1. SaveTypeOK'
    BY <1>19 DEF SaveProgress, MarkComplete, SaveTypeOK, Progress
  <2>2. QED BY <1>19, <2>1 DEF MarkComplete, Steps, FlagTypeOK
<1>20. CASE Crash
  <2>1. Held \subseteq Files
    BY ElemsType DEF Held, FileTypeOK, LoopTypeOK, RawFiles
  <2>2. FileTypeOK' /\ SaveTypeOK'
    BY <1>20, <2>1 DEF Crash, FileTypeOK, SaveTypeOK, Zero, Progress
  <2>3. FlagTypeOK' /\ PlanTypeOK' /\ LoopTypeOK'
    BY <1>20, EmptySeq DEF Crash, FlagTypeOK, PlanTypeOK, LoopTypeOK
  <2>4. QED BY <1>20, <2>2, <2>3 DEF Crash, Steps
<1>21. CASE UNCHANGED vars
  BY <1>21 DEF vars, fileVars, saveVars, flagVars, planVars, loopVars
<1>22. QED
  BY <1>1, <1>2, <1>3, <1>4, <1>5, <1>6, <1>7, <1>8, <1>9, <1>10, <1>11, <1>12,
     <1>13, <1>14, <1>15, <1>16, <1>17, <1>18, <1>19, <1>20, <1>21
  DEF Next, ScanThread, Application

----------------------------------------------------------------------------
(* The thread works on an open session.                                    *)

LEMMA ThreadStep == TypeOK /\ ThreadInv /\ [Next]_vars => ThreadInv'
<1> SUFFICES ASSUME TypeOK, ThreadInv, [Next]_vars PROVE ThreadInv'
  OBVIOUS
<1> USE DEF ThreadInv
<1>0. Zero # NoRow /\ ~Zero.complete
  BY ZeroType DEF Zero
<1>1. ASSUME NEW m \in Modes, StartScan(m) PROVE ThreadInv'
  BY <1>0, <1>1 DEF CreateSession, StartScan, loopVars
<1>2. ASSUME NEW m \in Modes, ResumeScan(m) PROVE ThreadInv'
  BY <1>2 DEF HasSaved, ResumeScan, Resumable, loopVars
<1>3. CASE StartScanNoCache
  BY <1>3 DEF StartScanNoCache, loopVars
<1>4. CASE PauseScan \/ ResumeFromPause \/ StopScan
  BY <1>4 DEF PauseScan, ResumeFromPause, StopScan, saveVars, loopVars
<1>5. CASE OpenDisk \/ Abandon \/ MergeEnds \/ Notify
  BY <1>5 DEF OpenDisk, Abandon, MergeEnds, Notify, saveVars, loopVars
<1>6. CASE Load
  BY <1>6 DEF Load, BeginRaw, saveVars, loopVars
<1>7. CASE BootUnreadable \/ MetaEnds
  BY <1>7 DEF BootUnreadable, MetaEnds, AfterMeta, saveVars, loopVars
<1>8. ASSUME NEW f \in MetaFiles, MetaFile(f) PROVE ThreadInv'
  BY <1>8 DEF MetaFile, saveVars, loopVars
<1>9. CASE SavePhaseOne
  BY <1>9 DEF SaveProgress, SavePhaseOne, TypeOK, SaveTypeOK, Progress, loopVars
<1>10. CASE EnterPhaseTwo
  BY <1>10 DEF EnterPhaseTwo, BeginRaw, TypeOK, SaveTypeOK, Progress, loopVars
<1>11. CASE RawLoop
  BY <1>11 DEF RawLoop, saveVars
<1>12. ASSUME NEW f \in RawFiles, RawHit(f) PROVE ThreadInv'
  BY <1>12 DEF RawHit, saveVars
<1>13. CASE BatchEnds
  BY <1>13 DEF BatchEnds, saveVars
<1>14. CASE MergeVideo
  BY <1>14 DEF MergeVideo, saveVars
<1>15. CASE EnterReport
  BY <1>15 DEF EnterReport, AfterReport, saveVars, loopVars
<1>16. CASE SaveReport
  BY <1>16 DEF SaveProgress, SaveReport, AfterReport, ResumePoint, TypeOK, SaveTypeOK,
               LoopTypeOK, Progress, loopVars
<1>17. CASE FinalFlush
  BY <1>17 DEF FinalFlush, saveVars, loopVars
<1>18. CASE MarkComplete
  BY <1>18 DEF SaveProgress, MarkComplete, TypeOK, SaveTypeOK, Progress, loopVars
<1>19. CASE Crash
  BY <1>19 DEF Crash
<1>20. CASE UNCHANGED vars
  BY <1>20 DEF vars
<1>21. QED
  BY <1>1, <1>2, <1>3, <1>4, <1>5, <1>6, <1>7, <1>8, <1>9, <1>10, <1>11, <1>12,
     <1>13, <1>14, <1>15, <1>16, <1>17, <1>18, <1>19, <1>20
  DEF Next, ScanThread, Application

\* Every variable keeps its type, whatever the faults and the modes.
THEOREM TypeCorrect == Spec => []TypeOK
<1>1. Init => TypeOK /\ ThreadInv
  BY InitType DEF Init, ThreadInv
<1>2. TypeOK /\ ThreadInv /\ [Next]_vars => TypeOK' /\ ThreadInv'
  BY TypeStep, ThreadStep
<1>3. QED BY <1>1, <1>2, PTL DEF Spec
----------------------------------------------------------------------------
(* No two rows with the same key.                                          *)

\* No file of the one sequence has the non-zero key of a file of the other.
Apart(s, t) == \A i \in DOMAIN s, j \in DOMAIN t :
                 Key[s[i]] # 0 => Key[s[i]] # Key[t[j]]
KeysIn(s, K) == \A i \in DOMAIN s : Key[s[i]] \in K

LEMMA JoinKeys ==
  ASSUME NEW s \in Seq(Files), NEW t \in Seq(Files), NEW K,
         Distinct(s), Distinct(t), Apart(s, t), KeysIn(s, K), KeysIn(t, K)
  PROVE  Distinct(s \o t) /\ KeysIn(s \o t, K)
<1>1. /\ s \o t \in Seq(Files) /\ Len(s \o t) = Len(s) + Len(t)
      /\ \A i \in 1..Len(s) + Len(t) :
           (s \o t)[i] = IF i <= Len(s) THEN s[i] ELSE t[i - Len(s)]
  BY ConcatProperties
<1>2. /\ Len(s) \in Nat /\ DOMAIN s = 1..Len(s)
      /\ Len(t) \in Nat /\ DOMAIN t = 1..Len(t)
      /\ DOMAIN (s \o t) = 1..Len(s) + Len(t)
  BY <1>1, LenProperties
<1>3. \A i \in DOMAIN (s \o t) :
        \/ i \in DOMAIN s /\ (s \o t)[i] = s[i]
        \/ i - Len(s) \in DOMAIN t /\ (s \o t)[i] = t[i - Len(s)]
  BY <1>1, <1>2
<1>4. KeysIn(s \o t, K)
  BY <1>3 DEF KeysIn
<1>5. Distinct(s \o t)
  <2>1. SUFFICES ASSUME NEW i \in DOMAIN (s \o t), NEW j \in DOMAIN (s \o t),
                        Key[(s \o t)[i]] # 0, Key[(s \o t)[i]] = Key[(s \o t)[j]]
                 PROVE  i = j
    BY DEF Distinct
  <2>2. CASE i \in DOMAIN s /\ (s \o t)[i] = s[i]
    BY <1>2, <1>3, <2>1, <2>2 DEF Distinct, Apart
  <2>3. CASE i - Len(s) \in DOMAIN t /\ (s \o t)[i] = t[i - Len(s)]
    BY <1>2, <1>3, <2>1, <2>3 DEF Distinct, Apart
  <2>4. QED BY <1>3, <2>2, <2>3
<1>6. QED BY <1>4, <1>5

LEMMA AppendKeys ==
  ASSUME NEW s \in Seq(Files), NEW f \in Files, NEW K,
         Distinct(s), KeysIn(s, K), Key[f] = 0 \/ Key[f] \notin K
  PROVE  Distinct(Append(s, f)) /\ KeysIn(Append(s, f), K \cup {Key[f]})
<1>1. /\ Len(s) \in Nat /\ DOMAIN s = 1..Len(s)
      /\ DOMAIN Append(s, f) = 1..Len(s) + 1
      /\ Append(s, f)[Len(s) + 1] = f
      /\ \A i \in DOMAIN s : Append(s, f)[i] = s[i]
  BY LenProperties
<1>2. KeysIn(Append(s, f), K \cup {Key[f]})
  BY <1>1 DEF KeysIn
<1>3. Distinct(Append(s, f))
  <2>1. SUFFICES ASSUME NEW i \in DOMAIN Append(s, f), NEW j \in DOMAIN Append(s, f),
                        Key[Append(s, f)[i]] # 0,
                        Key[Append(s, f)[i]] = Key[Append(s, f)[j]]
                 PROVE  i = j
    BY DEF Distinct
  <2>2. \A n \in DOMAIN Append(s, f) : n \in DOMAIN s \/ n = Len(s) + 1
    BY <1>1
  <2>3. QED BY <1>1, <2>1, <2>2 DEF Distinct, KeysIn
<1>4. QED BY <1>2, <1>3

\* What on_file preserves, and a committed or lost batch after it.
KeysCore ==
  /\ Distinct(rows) /\ Distinct(pending) /\ Apart(rows, pending)
  /\ KeysIn(rows, keys) /\ KeysIn(pending, keys)
  /\ Len(pending) < FlushThreshold

LEMMA FlushKeys ==
  ASSUME FileTypeOK, NEW batch \in Seq(Files), NEW K, Flush(batch),
         Distinct(rows), Distinct(batch), Apart(rows, batch),
         KeysIn(rows, K), KeysIn(batch, K)
  PROVE  /\ pending' = <<>> /\ Distinct(rows') /\ KeysIn(rows', K)
         /\ Distinct(pending') /\ Apart(rows', pending') /\ KeysIn(pending', K)
         /\ Len(pending') < FlushThreshold
<1>1. Distinct(rows') /\ KeysIn(rows', K)
  BY JoinKeys DEF InsertBulk, Flush, FileTypeOK
<1>2. pending' = <<>> /\ DOMAIN pending' = {} /\ Len(pending') = 0
  BY EmptySeq DEF Flush
<1>3. QED BY <1>1, <1>2 DEF Distinct, Apart, KeysIn

LEMMA OnFileKeys ==
  ASSUME FileTypeOK, KeysCore, NEW f \in Files, OnFile(f)
  PROVE  KeysCore'
<1>1. CASE UNCHANGED fileVars
  BY <1>1 DEF fileVars, KeysCore, Distinct, Apart, KeysIn
<1>2. CASE /\ ~Known(f) /\ keys' = keys \cup {Key[f]}
           /\ IF IsFull(Len(pending) + 1)
              THEN Flush(Append(pending, f))
              ELSE pending' = Append(pending, f) /\ UNCHANGED <<rows, lost>>
  <2>1. /\ Append(pending, f) \in Seq(Files)
        /\ Distinct(Append(pending, f)) /\ KeysIn(Append(pending, f), keys')
    BY <1>2, AppendKeys DEF KeysCore, FileTypeOK, Known
  <2>2. Apart(rows, Append(pending, f)) /\ KeysIn(rows, keys')
    <3>1. \A j \in DOMAIN Append(pending, f) :
             \/ j \in DOMAIN pending /\ Append(pending, f)[j] = pending[j]
             \/ Append(pending, f)[j] = f
      BY LenProperties DEF FileTypeOK
    <3>2. \A i \in DOMAIN rows : Key[rows[i]] # 0 => Key[rows[i]] # Key[f]
      BY <1>2 DEF Known, KeysCore, KeysIn
    <3>3. QED BY <1>2, <3>1, <3>2 DEF KeysCore, Apart, KeysIn
  <2>3. CASE Flush(Append(pending, f))
    BY <2>1, <2>2, <2>3, FlushKeys DEF KeysCore
  <2>4. CASE /\ ~IsFull(Len(pending) + 1)
             /\ pending' = Append(pending, f) /\ UNCHANGED <<rows, lost>>
    <3>1. Len(pending') = Len(pending) + 1 /\ Len(pending) \in Nat
      BY <2>4, LenProperties DEF FileTypeOK
    <3>2. QED BY <2>1, <2>2, <2>4, <3>1 DEF KeysCore, IsFull
  <2>5. QED BY <1>2, <2>3, <2>4
<1>3. QED BY <1>1, <1>2 DEF OnFile

\* A step that leaves the files alone and the thread on the same side of the
\* loading of the keys.
LEMMA FilesUntouched ==
  ASSUME KeysInv, UNCHANGED fileVars,
         pc' \notin Idle \cup {"notify"} => pc \notin Idle \cup {"notify"},
         pc' \in Idle \cup {"complete", "notify"} =>
           pc \in Idle \cup {"complete", "notify"}
  PROVE  KeysInv'
BY DEF KeysInv, fileVars, Distinct

LEMMA CoreKeys ==
  ASSUME KeysInv, pc \notin Idle \cup {"notify"}
  PROVE  KeysCore
BY DEF KeysInv, KeysCore, Apart, KeysIn

LEMMA KeysOfCore ==
  ASSUME KeysCore', pc' \notin Idle \cup {"complete", "notify"}
  PROVE  KeysInv'
BY DEF KeysInv, KeysCore, Apart, KeysIn

LEMMA KeysStep == TypeOK /\ KeysInv /\ [Next]_vars => KeysInv'
<1> SUFFICES ASSUME TypeOK, KeysInv, [Next]_vars PROVE KeysInv'
  OBVIOUS
<1> USE FilesUntouched DEF Idle
<1>1. ASSUME NEW m \in Modes, StartScan(m) \/ ResumeScan(m) PROVE KeysInv'
  BY <1>1 DEF StartScan, ResumeScan
<1>2. CASE StartScanNoCache
  BY <1>2 DEF StartScanNoCache
<1>3. CASE PauseScan \/ ResumeFromPause \/ StopScan
  BY <1>3 DEF PauseScan, ResumeFromPause, StopScan
<1>4. CASE OpenDisk \/ Abandon \/ MergeEnds \/ Notify
  BY <1>4 DEF OpenDisk, Abandon, MergeEnds, Notify
<1>5. CASE Load
  <2>1. pending = <<>> /\ pending' = <<>> /\ rows' = rows
    BY <1>5 DEF Load, KeysInv
  <2>2. \A i \in DOMAIN rows : Key[rows[i]] \in keys'
    BY <1>5 DEF LoadFileKeys, Load, Stored, Range
  <2>3. pc' \in Steps \ (Idle \cup {"complete", "notify"})
    BY <1>5 DEF Load, BeginRaw, Steps
  <2>4. QED BY <2>1, <2>2, <2>3 DEF KeysInv, Distinct
<1>6. CASE BootUnreadable
  BY <1>6 DEF BootUnreadable, AfterMeta, KeysInv, Distinct
<1>7. CASE MetaEnds \/ EnterPhaseTwo \/ RawLoop \/ BatchEnds \/ EnterReport \/ SaveReport
  BY <1>7 DEF MetaEnds, AfterMeta, EnterPhaseTwo, BeginRaw, RawLoop, BatchEnds,
              EnterReport, SaveReport, AfterReport
<1>8. CASE SavePhaseOne
  BY <1>8 DEF SavePhaseOne, KeysInv, Distinct
<1>9. ASSUME NEW f \in MetaFiles, MetaFile(f) PROVE KeysInv'
  BY <1>9, CoreKeys, OnFileKeys, KeysOfCore DEF MetaFile, TypeOK
<1>10. ASSUME NEW f \in RawFiles, RawHit(f) PROVE KeysInv'
  <2>1. f \in Files /\ pc = "batch" /\ pc' = "batch"
    BY <1>10 DEF RawHit, RawFiles
  <2>2. CASE UNCHANGED fileVars
    BY <2>1, <2>2
  <2>3. CASE OnFile(f)
    BY <2>1, <2>3, CoreKeys, OnFileKeys, KeysOfCore DEF TypeOK
  <2>4. QED BY <1>10, <2>2, <2>3 DEF RawHit
<1>11. CASE MergeVideo
  <2>1. Head(videos) \in Files /\ pc = "merge" /\ pc' = "merge"
    BY <1>11, HeadTailProperties DEF MergeVideo, TypeOK, LoopTypeOK, RawFiles
  <2>2. CASE OnFile(Head(videos))
    BY <2>1, <2>2, CoreKeys, OnFileKeys, KeysOfCore DEF TypeOK
  <2>3. CASE UNCHANGED <<rows, pending, keys>>
    BY <2>1, <2>3 DEF KeysInv, Distinct
  <2>4. QED BY <1>11, <2>2, <2>3 DEF MergeVideo
<1>12. CASE FinalFlush
  <2>1. KeysCore /\ pending \in Seq(Files) /\ keys' = keys /\ pc' = "complete"
    BY <1>12, CoreKeys DEF FinalFlush, TypeOK, FileTypeOK
  <2>2. KeysCore' /\ pending' = <<>>
    BY <1>12, <2>1, FlushKeys DEF FinalFlush, KeysCore, TypeOK
  <2>3. QED BY <2>1, <2>2 DEF KeysInv, KeysCore, Apart, KeysIn
<1>13. CASE MarkComplete
  BY <1>13 DEF MarkComplete, KeysInv, Distinct
<1>14. CASE Crash
  <2>1. pending' = <<>> /\ DOMAIN pending' = {} /\ Len(pending') = 0
    BY <1>14, EmptySeq DEF Crash
  <2>2. QED BY <1>14, <2>1 DEF Crash, KeysInv, Distinct
<1>15. CASE UNCHANGED vars
  BY <1>15 DEF vars, fileVars
<1>16. QED
  BY <1>1, <1>2, <1>3, <1>4, <1>5, <1>6, <1>7, <1>8, <1>9, <1>10, <1>11, <1>12,
     <1>13, <1>14, <1>15
  DEF Next, ScanThread, Application

LEMMA InitInv == Init => IInv
<1> SUFFICES ASSUME Init PROVE IInv
  OBVIOUS
<1>1. TypeOK /\ ThreadInv
  BY InitType DEF Init, ThreadInv
<1>2. KeysInv
  BY DEF Init, KeysInv, Distinct, Idle
<1>3. QED BY <1>1, <1>2 DEF IInv

\* The inductive invariant: types, an open session under every running
\* thread, and a key set that covers what is stored and what is pending.
THEOREM Inductive == Spec => []IInv
<1>1. IInv /\ [Next]_vars => IInv'
  BY TypeStep, ThreadStep, KeysStep DEF IInv
<1>2. QED BY InitInv, <1>1, PTL DEF Spec

\* No two rows of a session ever carry the same non-zero key, for every disk,
\* every threshold and any sequence of starts, stops, resumes and crashes.
THEOREM NoDuplicates == Spec => []NoDuplicateRows
<1>1. IInv => NoDuplicateRows
  BY DEF IInv, KeysInv, Distinct, NoDuplicateRows
<1>2. QED BY <1>1, Inductive, PTL

LEMMA FewOf ==
  ASSUME NEW S, NEW s \in Seq(S), NEW T, T \subseteq Range(s)
  PROVE  IsFiniteSet(T) /\ Cardinality(T) <= Len(s)
<1>1. s \in [1..Len(s) -> S] /\ Len(s) \in Nat /\ DOMAIN s = 1..Len(s)
  BY LenProperties
<1>2. IsFiniteSet(1..Len(s)) /\ Cardinality(1..Len(s)) = Len(s)
  <2> DEFINE n == Len(s)
  <2>1. 1 \in Int /\ n \in Int /\ n \in Nat
    BY <1>1
  <2> HIDE DEF n
  <2>2. /\ IsFiniteSet(1..n)
        /\ Cardinality(1..n) = IF 1 > n THEN 0 ELSE n - 1 + 1
    BY <2>1, FS_Interval
  <2>3. IsFiniteSet(1..n) /\ Cardinality(1..n) = n
    BY <2>1, <2>2
  <2>4. QED BY <2>3 DEF n
<1>3. s \in Surjection(1..Len(s), Range(s))
  BY <1>1 DEF Range, Surjection
<1>4. IsFiniteSet(Range(s)) /\ Cardinality(Range(s)) <= Len(s)
  BY <1>2, <1>3, FS_Surjection
<1>5. IsFiniteSet(T) /\ Cardinality(T) <= Cardinality(Range(s))
  BY <1>4, FS_Subset
<1>6. QED
  BY <1>1, <1>4, <1>5, FS_CardinalityType

\* A process that dies at any moment takes less than one transaction of files
\* with it, besides the videos held back, and none once the thread has ended.
THEOREM CrashLoses == Spec => CrashLosesFew
<1> DEFINE gone == (lost' \ lost) \ Range(videos)
           Few  == pc' = "none" =>
                     /\ Cardinality(gone) < FlushThreshold
                     /\ pc \in {"none", "notify"} => lost' = lost
<1>1. IInv /\ [Next]_vars => Few
  <2>1. SUFFICES ASSUME IInv, [Next]_vars, pc' = "none"
                 PROVE  /\ Cardinality(gone) < FlushThreshold
                        /\ pc \in {"none", "notify"} => lost' = lost
    OBVIOUS
  <2>2. pending \in Seq(Files) /\ Len(pending) < FlushThreshold /\ Len(pending) \in Nat
    BY <2>1, LenProperties DEF IInv, TypeOK, FileTypeOK, KeysInv
  <2>3. lost' = lost \/ lost' = lost \cup Held
    <3>1. ASSUME NEW f \in MetaFiles, MetaFile(f) PROVE FALSE
      BY <2>1, <3>1 DEF MetaFile
    <3>2. ASSUME NEW f \in RawFiles, RawHit(f) PROVE FALSE
      BY <2>1, <3>2 DEF RawHit
    <3>3. QED
      BY <2>1, <3>1, <3>2
      DEF Next, ScanThread, Application, vars, fileVars, StartScan, ResumeScan,
          StartScanNoCache, PauseScan, ResumeFromPause, StopScan, OpenDisk, Abandon,
          Load, BeginRaw, BootUnreadable, AfterMeta, MetaEnds, SavePhaseOne,
          EnterPhaseTwo, RawLoop, BatchEnds, MergeVideo, MergeEnds, EnterReport,
          AfterReport, SaveReport, FinalFlush, MarkComplete, Notify, Crash
  <2>4. gone \subseteq Range(pending)
    BY <2>3 DEF Held
  <2>5. Cardinality(gone) <= Len(pending) /\ Cardinality(gone) \in Nat
    BY <2>2, <2>4, FewOf, FS_CardinalityType
  <2>6. ASSUME pc \in {"none", "notify"} PROVE lost' = lost
    <3>1. pending = <<>> /\ videos = <<>>
      BY <2>1, <2>6 DEF IInv, KeysInv, ThreadInv, Idle
    <3>2. Held = {}
      BY <3>1, EmptySeq DEF Held, Range
    <3>3. QED BY <2>3, <3>2
  <2> HIDE DEF gone
  <2>7. QED BY <2>2, <2>5, <2>6
<1>2. Spec => [][Few]_vars
  BY Inductive, <1>1, PTL DEF Spec
<1>3. QED BY <1>2 DEF CrashLosesFew

----------------------------------------------------------------------------
(* ScanSession implements ScanStore.                                       *)

LEMMA BatchIsBatch ==
  ASSUME NEW s \in Seq(Files), Len(s) <= FlushThreshold
  PROVE  s \in Store!Batches
<1>1. s \in [1..Len(s) -> Files] /\ Len(s) \in 0..FlushThreshold
  BY LenProperties
<1>2. QED BY <1>1 DEF Store!Batches

LEMMA FlushCommits ==
  ASSUME NEW batch \in Seq(Files), Len(batch) <= FlushThreshold,
         prog # NoRow, ~prog.complete, UNCHANGED prog, Flush(batch)
  PROVE  Store!Next \/ UNCHANGED Store!storeVars
<1>1. Status = "open" /\ Status' = "open"
  BY DEF Status
<1>2. CASE rows' = rows \o batch
  <2>1. Store!Commit(batch)
    BY <1>1, <1>2 DEF Store!Commit
  <2>2. QED BY <2>1, BatchIsBatch DEF Store!Next
<1>3. CASE UNCHANGED rows
  BY <1>1, <1>3 DEF Store!storeVars
<1>4. QED BY <1>2, <1>3 DEF InsertBulk, Flush

LEMMA OnFileCommits ==
  ASSUME FileTypeOK, Len(pending) < FlushThreshold, NEW f \in Files, OnFile(f),
         prog # NoRow, ~prog.complete, UNCHANGED prog
  PROVE  Store!Next \/ UNCHANGED Store!storeVars
<1>1. CASE UNCHANGED rows
  BY <1>1 DEF Store!storeVars, Status
<1>2. CASE Flush(Append(pending, f))
  <2>1. Append(pending, f) \in Seq(Files) /\ Len(Append(pending, f)) <= FlushThreshold
    BY LenProperties DEF FileTypeOK
  <2>2. QED BY <1>2, <2>1, FlushCommits
<1>3. QED BY <1>1, <1>2 DEF OnFile, fileVars

LEMMA StoreStep == IInv /\ [Next]_vars => [Store!Next]_(Store!storeVars)
<1> SUFFICES ASSUME IInv, [Next]_vars
             PROVE  Store!Next \/ UNCHANGED Store!storeVars
  OBVIOUS
<1> USE DEF Store!storeVars
<1>1. ASSUME UNCHANGED <<rows, prog>> PROVE Store!Next \/ UNCHANGED Store!storeVars
  BY <1>1 DEF Status
<1>2. ASSUME NEW m \in Modes, StartScan(m) PROVE Store!Next
  <2>1. Status' = "open" /\ UNCHANGED rows
    BY <1>2, ZeroType DEF CreateSession, StartScan, Status, Zero, fileVars
  <2>2. QED BY <2>1 DEF Store!Next, Store!Open
<1>3. ASSUME NEW m \in Modes, ResumeScan(m) PROVE UNCHANGED <<rows, prog>>
  BY <1>3 DEF ResumeScan, fileVars
<1>4. CASE \/ StartScanNoCache \/ PauseScan \/ ResumeFromPause \/ StopScan
           \/ OpenDisk \/ Abandon \/ MergeEnds \/ Notify
  BY <1>1, <1>4 DEF StartScanNoCache, PauseScan, ResumeFromPause, StopScan,
     OpenDisk, Abandon, MergeEnds, Notify, fileVars, saveVars
<1>5. CASE \/ Load \/ BootUnreadable \/ MetaEnds \/ RawLoop \/ BatchEnds
           \/ EnterReport \/ Crash \/ UNCHANGED vars
  BY <1>1, <1>5 DEF Load, BootUnreadable, MetaEnds, RawLoop, BatchEnds,
     EnterReport, Crash, vars, fileVars, saveVars
<1>6. CASE SavePhaseOne \/ SaveReport
  <2>1. prog # NoRow /\ ~prog.complete /\ progress \in Progress /\ ~progress.complete
    BY <1>6 DEF SavePhaseOne, SaveReport, IInv, ThreadInv, TypeOK, SaveTypeOK
  <2>2. UNCHANGED rows
    BY <1>6 DEF SavePhaseOne, SaveReport, fileVars
  <2>3. ~prog'.complete
    BY <1>6, <2>1 DEF SaveProgress, SavePhaseOne, SaveReport, Progress
  <2>4. prog' # NoRow
    <3>1. pc' # "none" BY <1>6 DEF SavePhaseOne, SaveReport, AfterReport
    <3>2. QED BY ThreadStep, <3>1 DEF ThreadInv, IInv
  <2>5. QED BY <2>1, <2>2, <2>3, <2>4 DEF Status
<1>7. CASE EnterPhaseTwo
  BY <1>1, <1>7 DEF EnterPhaseTwo, fileVars
<1>8. ASSUME NEW f \in MetaFiles, MetaFile(f)
      PROVE  Store!Next \/ UNCHANGED Store!storeVars
  BY <1>8, OnFileCommits DEF MetaFile, IInv, TypeOK, KeysInv, ThreadInv, saveVars
<1>9. ASSUME NEW f \in RawFiles, RawHit(f)
      PROVE  Store!Next \/ UNCHANGED Store!storeVars
  <2>1. f \in Files /\ prog # NoRow /\ ~prog.complete /\ UNCHANGED prog
    BY <1>9 DEF RawHit, IInv, ThreadInv, RawFiles, saveVars
  <2>2. CASE UNCHANGED fileVars
    BY <1>1, <2>1, <2>2 DEF fileVars
  <2>3. CASE OnFile(f)
    BY <2>1, <2>3, OnFileCommits DEF IInv, TypeOK, KeysInv
  <2>4. QED BY <1>9, <2>2, <2>3 DEF RawHit
<1>10. CASE MergeVideo
  <2>1. /\ Head(videos) \in Files
        /\ prog # NoRow /\ ~prog.complete /\ UNCHANGED prog
    BY <1>10, HeadTailProperties
    DEF MergeVideo, IInv, TypeOK, LoopTypeOK, ThreadInv, RawFiles, saveVars
  <2>2. CASE OnFile(Head(videos))
    BY <2>1, <2>2, OnFileCommits DEF IInv, TypeOK, KeysInv
  <2>3. CASE UNCHANGED rows
    BY <1>1, <2>1, <2>3
  <2>4. QED BY <1>10, <2>2, <2>3 DEF MergeVideo
<1>11. CASE FinalFlush
  <2>1. /\ pending \in Seq(Files) /\ Len(pending) <= FlushThreshold
        /\ prog # NoRow /\ ~prog.complete /\ UNCHANGED prog
    BY <1>11, LenProperties
    DEF FinalFlush, IInv, TypeOK, FileTypeOK, KeysInv, ThreadInv, saveVars
  <2>2. QED BY <1>11, <2>1, FlushCommits DEF FinalFlush
<1>12. CASE MarkComplete
  <2>1. prog # NoRow /\ ~prog.complete /\ progress \in Progress
    BY <1>12 DEF MarkComplete, IInv, ThreadInv, TypeOK, SaveTypeOK
  <2>2. UNCHANGED rows
    BY <1>12 DEF MarkComplete, fileVars
  <2>3. CASE UNCHANGED prog
    BY <2>2, <2>3 DEF Status
  <2>4. CASE prog' = progress'
    <3>1. prog'.complete
      BY <1>12, <2>1, <2>4 DEF MarkComplete, Progress
    <3>2. pc' # "none"
      BY <1>12 DEF MarkComplete
    <3>3. prog' # NoRow
      BY ThreadStep, <3>2 DEF ThreadInv, IInv
    <3>4. QED BY <2>1, <2>2, <3>1, <3>3 DEF Status, Store!Next, Store!Complete
  <2>5. QED BY <1>12, <2>3, <2>4 DEF MarkComplete, SaveProgress
<1>13. QED
  BY <1>1, <1>2, <1>3, <1>4, <1>5, <1>6, <1>7, <1>8, <1>9, <1>10, <1>11, <1>12
  DEF Next, ScanThread, Application

\* The cache behaves as ScanStore promises: whole batches appended while the
\* session is open, nothing once it is complete.
THEOREM Refinement == Spec => StoreSpec
<1>1. Init => Store!Init
  BY DEF Init, Store!Init, Status
<1>2. QED
  BY <1>1, StoreStep, Inductive, PTL DEF Spec, StoreSpec, Store!Spec
=============================================================================
