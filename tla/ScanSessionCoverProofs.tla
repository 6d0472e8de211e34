------------------------ MODULE ScanSessionCoverProofs ------------------------
(***************************************************************************)
(* Theorems about what a scan leaves behind: every signature below the     *)
(* place a scan has reached, or has saved, is a row, on its way to being   *)
(* one, lost to a fault or cut off by the 32-bit cast, and the saved place *)
(* only moves forward, through every sequence of runs, stops and crashes.  *)
(***************************************************************************)
EXTENDS ScanSessionProofs, WellFoundedInduction

USE FilesAssumption, RangeAssumption, TuningAssumption, NoRowAssumption

\* Two files of a disk differ in their keys, unless they have none, and two
\* signatures are not in the same sector.
FilesApart ==
  /\ \A f, g \in Files : (Key[f] = Key[g] /\ Key[f] # 0) => f = g
  /\ \A f, g \in RawFiles : Pos[f] = Pos[g] => f = g

LEMMA LeastNat ==
  ASSUME NEW T \in SUBSET Nat, T # {}
  PROVE  \E n \in T : \A m \in T : n <= m
<1>1. PICK n \in T : \A m \in T : ~(<<m, n>> \in OpToRel(<, Nat))
  BY NatLessThanWellFounded, WFMin
<1>2. \A m \in T : ~(m < n)
  BY <1>1 DEF OpToRel
<1>3. QED BY <1>2

----------------------------------------------------------------------------
(* Being accounted for.                                                    *)

\* The files that have gone through on_file, and those and the held videos.
Passed == Stored \cup Range(pending) \cup lost
Kept   == Stored \cup Held \cup lost

\* L accounts for whatever K accounts for.
Accounts(K, L) == \A f \in Files : CoveredBy(K, f) => CoveredBy(L, f)

\* K accounts for the signatures that every scan finds, up to x, unless the
\* cast may cut them off.
CoveredTo(K, x) ==
  \A f \in TopLevel :
    (RawLow <= Pos[f] /\ Pos[f] < MinOf(x, EndSector) /\ ~Cut(Pos[f])) =>
      CoveredBy(K, f)
Covered(x) == CoveredTo(Kept, x)

MetaIn(K) == HasMeta => \A f \in MetaFiles : CoveredBy(K, f)
MetaCovered == MetaIn(Kept)

LEMMA AccountsIfCovered ==
  ASSUME NEW K, NEW L, \A g \in K : CoveredBy(L, g)
  PROVE  Accounts(K, L)
<1>1. SUFFICES ASSUME NEW f \in Files, CoveredBy(K, f), f \notin L,
                      NEW T \in SUBSET Videos, L \cap Videos \subseteq T, Closed(T)
               PROVE  f \in T
  BY DEF Accounts, CoveredBy
<1>2. CASE f \in K
  BY <1>1, <1>2 DEF CoveredBy
<1>3. CASE f \notin K
  <2>1. K \cap Videos \subseteq T
    BY <1>1 DEF CoveredBy
  <2>2. QED BY <1>1, <1>3, <2>1 DEF CoveredBy
<1>4. QED BY <1>2, <1>3

LEMMA AccountsIfMore ==
  ASSUME NEW K, NEW L, K \subseteq L
  PROVE  Accounts(K, L)
BY AccountsIfCovered DEF CoveredBy

----------------------------------------------------------------------------
(* A batch and what the cast cuts off it.                                  *)

LEMMA Division ==
  ASSUME NEW d \in Nat, NEW m \in Nat \ {0}
  PROVE  /\ d \div m \in Nat /\ d % m \in 0..(m - 1)
         /\ d = (d \div m) * m + (d % m)
OBVIOUS

LEMMA BatchLimits ==
  ASSUME sector \in Nat, sector < EndSector
  PROVE  /\ BatchCount \in Nat /\ BatchCount <= Batch
         /\ sector + BatchCount <= EndSector
<1> DEFINE D == EndSector - sector
           q == D \div Word
           r == D % Word
<1>1. D \in Nat /\ Word \in Nat \ {0} /\ Batch \in Nat
  OBVIOUS
<1>2. q \in Nat /\ r \in Nat /\ D = q * Word + r
  <2> HIDE DEF D
  <2>1. D \in Nat /\ Word \in Nat \ {0}
    BY <1>1
  <2>2. /\ D \div Word \in Nat /\ D % Word \in 0..(Word - 1)
        /\ D = (D \div Word) * Word + (D % Word)
    BY <2>1, Division
  <2>3. QED BY <2>1, <2>2
<1>3. r <= D
  <2> HIDE DEF D, q, r
  <2>1. q * Word \in Nat
    BY <1>1, <1>2
  <2>2. QED BY <1>2, <2>1
<1>4. BatchCount = MinOf(Batch, r)
  BY DEF BatchCount
<1> HIDE DEF r, q
<1>5. QED BY <1>1, <1>2, <1>3, <1>4 DEF MinOf

\* A batch that is shorter than Batch ends at the end, or is cut.
LEMMA ShortBatch ==
  ASSUME NEW s \in Nat, s < EndSector, ~CutAt(s)
  PROVE  MinOf(Batch, (EndSector - s) % Word) = MinOf(Batch, EndSector - s)
<1> DEFINE D == EndSector - s
<1>1. D \in Nat /\ Word \in Nat \ {0} /\ Batch \in Nat
  OBVIOUS
<1>2. ~(D >= Word /\ D % Word < Batch)
  BY DEF CutAt
<1> HIDE DEF D
<1>3. CASE D < Word
  <2>1. D % Word = D
    BY <1>1, <1>3
  <2>2. QED BY <1>2, <2>1 DEF D
<1>4. CASE ~(D < Word)
  <2>1. D >= Word /\ Batch <= D % Word /\ D % Word \in Nat /\ D % Word < Word
    BY <1>1, <1>2, <1>4
  <2>2. Batch <= D
    BY <1>1, <2>1
  <2>3. MinOf(Batch, D % Word) = Batch /\ MinOf(Batch, D) = Batch
    BY <1>1, <2>1, <2>2 DEF MinOf
  <2>4. QED BY <1>2, <2>3 DEF D
<1>5. QED BY <1>3, <1>4

\* What a batch leaves out up to the next one is close to a multiple of the
\* width of the cast away from the end.
LEMMA LeftOutIsCut ==
  ASSUME sector \in Nat, sector < EndSector, NEW x \in Nat,
         sector + BatchCount <= x, x < sector + Batch, x < EndSector
  PROVE  Cut(x)
<1> DEFINE D == EndSector - sector
           d == x - sector
           e == EndSector - x
           q == D \div Word
           r == D % Word
           k == e \div Word
           m == e % Word
<1>1. /\ Batch \in Nat \ {0} /\ Word \in Nat \ {0} /\ D \in Nat
      /\ e \in Nat \ {0} /\ e = D - d /\ d \in Int
  OBVIOUS
<1>2. /\ q \in Nat /\ r \in Nat /\ D = q * Word + r
      /\ k \in Nat /\ m \in Nat /\ m < Word /\ e = k * Word + m
  <2> HIDE DEF D, e
  <2>1. D \in Nat /\ e \in Nat /\ Word \in Nat \ {0}
    BY <1>1
  <2>2. /\ D \div Word \in Nat /\ D % Word \in 0..(Word - 1)
        /\ D = (D \div Word) * Word + (D % Word)
    BY <2>1, Division
  <2>3. /\ e \div Word \in Nat /\ e % Word \in 0..(Word - 1)
        /\ e = (e \div Word) * Word + (e % Word)
    BY <2>1, Division
  <2>4. QED BY <2>1, <2>2, <2>3
<1>3. d \in Nat /\ r <= d /\ d < Batch
  <2>1. BatchCount = MinOf(Batch, r)
    BY DEF BatchCount
  <2> HIDE DEF r
  <2>2. QED BY <1>1, <1>2, <2>1 DEF MinOf
<1> HIDE DEF D, r, q, d, e, m, k
<1>4. q >= 1
  <2>1. SUFFICES ASSUME q = 0 PROVE FALSE
    BY <1>2
  <2>2. QED BY <1>1, <1>2, <1>3, <2>1
<1>5. q * Word >= Word /\ q * Word \in Nat
  BY <1>1, <1>2, <1>4
<1>6. e > Word - Batch
  BY <1>1, <1>2, <1>3, <1>5
<1>7. m = 0 \/ m > Word - Batch
  <2>1. SUFFICES ASSUME m # 0, m <= Word - Batch PROVE FALSE
    BY <1>1, <1>2
  <2>2. (q - k) * Word = q * Word - k * Word /\ k * Word \in Nat
    BY <1>1, <1>2
  <2>3. 0 < (q - k) * Word /\ (q - k) * Word < Word
    BY <1>1, <1>2, <1>3, <1>5, <2>1, <2>2
  <2>4. CASE q - k <= 0
    BY <1>1, <1>2, <2>3, <2>4
  <2>5. CASE q - k >= 1
    BY <1>1, <1>2, <2>3, <2>5
  <2>6. QED BY <1>2, <2>4, <2>5
<1>8. QED BY <1>6, <1>7 DEF Cut, e, m

LEMMA TopLevelFiles == TopLevel \subseteq RawFiles /\ RawFiles \subseteq Files
BY DEF TopLevel, RawFiles

\* What accounts for more accounts for as much of the disk.
LEMMA CoveredStays ==
  ASSUME NEW K, NEW L, Accounts(K, L)
  PROVE  /\ \A x : CoveredTo(K, x) => CoveredTo(L, x)
         /\ MetaIn(K) => MetaIn(L)
BY TopLevelFiles DEF Accounts, CoveredTo, MetaIn

LEMMA CoveredBelow ==
  ASSUME NEW K, NEW x \in Nat, NEW y \in Nat, CoveredTo(K, x),
         y <= x \/ EndSector <= x
  PROVE  CoveredTo(K, y)
BY TopLevelFiles DEF CoveredTo, MinOf

LEMMA CoveredNone ==
  ASSUME NEW K, NEW x \in Nat, x <= RawLow
  PROVE  CoveredTo(K, x)
<1>1. RawLow \in Nat
  BY DEF RawLow, MaxOf
<1>2. QED BY <1>1, TopLevelFiles DEF CoveredTo, MinOf

\* A run of videos that follow one another is covered by its first.
LEMMA RunCovered ==
  ASSUME NEW s \in Seq(RawFiles), NEW n \in 1..Len(s), NEW L,
         \A i \in 1..n - 1 : <<s[i], s[i + 1]>> \in Follows,
         CoveredBy(L, s[1])
  PROVE  \A k \in 1..n : CoveredBy(L, s[k])
<1>1. SUFFICES ASSUME NEW k \in 1..n PROVE CoveredBy(L, s[k])
  OBVIOUS
<1>2. CASE n = 1
  BY <1>2
<1>3. CASE n # 1
  <2>1. \A i \in 1..n : s[i] \in Videos
    <3>1. TAKE i \in 1..n
    <3>2. i \in 1..n - 1 \/ (i - 1 \in 1..n - 1 /\ (i - 1) + 1 = i)
      BY <1>3, LenProperties
    <3>3. QED BY <3>2
  <2>2. SUFFICES ASSUME NEW T \in SUBSET Videos, L \cap Videos \subseteq T, Closed(T)
                 PROVE  s[k] \in T
    BY DEF CoveredBy
  <2>3. s[1] \in T
    <3>1. 1 \in 1..n
      BY LenProperties
    <3>2. QED BY <2>1, <2>2, <3>1 DEF CoveredBy
  <2>4. \A i \in 1..n - 1 : s[i] \in T => s[i + 1] \in T
    BY <2>2 DEF Closed
  <2> DEFINE U == {i \in 1..n : s[i] \notin T}
  <2>5. CASE U = {}
    BY <2>5
  <2>6. CASE U # {}
    <3>1. U \in SUBSET Nat
      OBVIOUS
    <3>2. PICK i \in U : \A j \in U : i <= j
      BY <2>6, <3>1, LeastNat
    <3>3. i # 1 /\ i \in 1..n
      BY <2>3, <3>2
    <3>4. i - 1 \in 1..n - 1 /\ i - 1 \in 1..n /\ (i - 1) + 1 = i /\ ~(i <= i - 1)
      BY <3>3, LenProperties
    <3>5. i - 1 \notin U
      <4> HIDE DEF U
      <4>1. QED BY <3>2, <3>4
    <3>6. s[i] \in T
      BY <2>4, <3>4, <3>5
    <3>7. QED BY <3>2, <3>6
  <2>7. QED BY <2>5, <2>6
<1>4. QED BY <1>2, <1>3

----------------------------------------------------------------------------
(* The inductive invariant.                                                *)

Scanning  == {"raw", "batch", "report", "wait", "merge"}
Reporting == {"lastReport", "lastWait"}
Ending    == {"finish", "complete", "notify"}
Planning  == {"meta", "phase1", "phase2"}

\* The scanner holds videos only while it runs, and every key the scan thread
\* turns files away for is that of a file that went through on_file.
QueueOK ==
  /\ pc \notin Scanning => videos = <<>>
  /\ keys \subseteq {Key[f] : f \in Passed}

\* The mode a place of the thread belongs to.
ModeOK ==
  /\ pc # "none" => mode \in Modes
  /\ pc = "meta" => HasMeta /\ mode \in {"quick", "deep"}
  /\ pc \in {"phase1", "phase2"} => mode = "deep"

\* A phase that is saved or in memory, and a thread that is past the metadata,
\* vouch for every metadata file.
MetaOK ==
  /\ (prog # NoRow /\ prog.phase >= 1) => MetaCovered
  /\ progress.phase >= 1 => MetaCovered
  /\ (pc = "meta" /\ ~stop) => \A f \in MetaFiles \ todo : CoveredBy(Kept, f)
  /\ (pc = "phase1" /\ ~stop) => MetaCovered
  /\ (pc \in {"phase2"} \cup Scanning \cup Reporting /\ mode = "deep") => MetaCovered
  /\ (pc \in Scanning \cup Reporting /\ HasMeta) => mode # "quick"
  /\ (pc \in Ending /\ ~stop /\ mode \in {"quick", "deep"}) => MetaCovered

\* So does every resume point for the sectors below it.
PointOK ==
  /\ prog # NoRow => Covered(prog.resume)
  /\ Covered(progress.resume)
  /\ pc \in Planning => Covered(from) /\ low <= RawLow

\* The file that claims the sectors up to claimed began before x.
ClaimBefore(x) ==
  claimed = 0 \/ \E g \in RawFiles : claimed = Pos[g] + Size[g] /\ Pos[g] < x

\* And so does the place of the scanner, unless a stop made on_file deaf
\* since the last report.
LoopOK ==
  /\ pc \in Scanning \cup Reporting => scanned <= sector
  /\ (pc \in {"raw", "report", "merge"} /\ ~stop) => Covered(sector)
  /\ pc = "wait" => Covered(sector)
  /\ pc \in {"raw", "report", "wait"} => ClaimBefore(sector)
  /\ pc = "batch" => /\ sector <= cur /\ cur <= sector + BatchCount
                     /\ ClaimBefore(cur)
                     /\ ~stop => Covered(cur)
  /\ (pc = "merge" /\ ~stop) => EndSector <= sector
  /\ (pc = "lastReport" /\ ~stop) => Covered(EndSector)
  /\ pc = "lastWait" => Covered(EndSector)
  /\ (pc \in Ending /\ ~stop /\ ~(mode = "quick" /\ HasMeta)) => Covered(EndSector)

CoverInv == IInv /\ QueueOK /\ ModeOK /\ MetaOK /\ PointOK /\ LoopOK

----------------------------------------------------------------------------
(* Nothing that is accounted for ever gets lost.                           *)

LEMMA RangeConcat ==
  ASSUME NEW S, NEW s \in Seq(S), NEW t \in Seq(S)
  PROVE  Range(s \o t) = Range(s) \cup Range(t)
<1>1. /\ s \o t \in Seq(S) /\ Len(s \o t) = Len(s) + Len(t)
      /\ \A i \in 1..Len(s) + Len(t) :
           (s \o t)[i] = IF i <= Len(s) THEN s[i] ELSE t[i - Len(s)]
  BY ConcatProperties
<1>2. /\ Len(s) \in Nat /\ DOMAIN s = 1..Len(s)
      /\ Len(t) \in Nat /\ DOMAIN t = 1..Len(t)
      /\ DOMAIN (s \o t) = 1..Len(s) + Len(t)
  BY <1>1, LenProperties
<1>3. ASSUME NEW i \in DOMAIN (s \o t) PROVE (s \o t)[i] \in Range(s) \cup Range(t)
  <2>1. CASE i <= Len(s)
    BY <1>1, <1>2, <2>1 DEF Range
  <2>2. CASE ~(i <= Len(s))
    <3>1. i - Len(s) \in DOMAIN t /\ (s \o t)[i] = t[i - Len(s)]
      BY <1>1, <1>2, <2>2
    <3>2. QED BY <3>1 DEF Range
  <2>3. QED BY <2>1, <2>2
<1>4. ASSUME NEW i \in DOMAIN s PROVE s[i] \in Range(s \o t)
  <2>1. i \in DOMAIN (s \o t) /\ (s \o t)[i] = s[i]
    BY <1>1, <1>2
  <2>2. QED BY <2>1 DEF Range
<1>5. ASSUME NEW i \in DOMAIN t PROVE t[i] \in Range(s \o t)
  <2>1. /\ i + Len(s) \in DOMAIN (s \o t) /\ ~(i + Len(s) <= Len(s))
        /\ (i + Len(s)) - Len(s) = i
    BY <1>2
  <2>2. (s \o t)[i + Len(s)] = t[i]
    BY <1>1, <1>2, <2>1
  <2>3. QED BY <2>1, <2>2 DEF Range
<1>6. QED BY <1>3, <1>4, <1>5 DEF Range

LEMMA RangeAppend ==
  ASSUME NEW S, NEW s \in Seq(S), NEW e \in S
  PROVE  Range(Append(s, e)) = Range(s) \cup {e}
<1>1. /\ Len(s) \in Nat /\ DOMAIN s = 1..Len(s)
      /\ DOMAIN Append(s, e) = 1..Len(s) + 1
      /\ Append(s, e)[Len(s) + 1] = e
      /\ \A i \in DOMAIN s : Append(s, e)[i] = s[i]
  BY LenProperties
<1>2. \A i \in DOMAIN Append(s, e) : i \in DOMAIN s \/ i = Len(s) + 1
  BY <1>1
<1>3. QED BY <1>1, <1>2 DEF Range

LEMMA RangeEmpty == Range(<<>>) = {}
BY EmptySeq DEF Range

LEMMA FlushPasses ==
  ASSUME FileTypeOK, NEW batch \in Seq(Files), Flush(batch)
  PROVE  Passed' = Stored \cup Range(batch) \cup lost
<1>1. pending' = <<>> /\ Range(pending') = {}
  BY RangeEmpty DEF Flush
<1>2. CASE rows' = rows \o batch /\ lost' = lost
  <2>1. Range(rows') = Range(rows) \cup Range(batch)
    BY <1>2, RangeConcat DEF FileTypeOK
  <2>2. QED BY <1>1, <1>2, <2>1 DEF Passed, Stored
<1>3. CASE rows' = rows /\ lost' = lost \cup Range(batch)
  BY <1>1, <1>3 DEF Passed, Stored
<1>4. QED BY <1>2, <1>3 DEF Flush, InsertBulk

LEMMA OnFilePasses ==
  ASSUME FilesApart, FileTypeOK, keys \subseteq {Key[g] : g \in Passed},
         NEW f \in Files, OnFile(f)
  PROVE  /\ Passed \subseteq Passed' /\ keys' \subseteq {Key[g] : g \in Passed'}
         /\ ~stop => f \in Passed'
<1>1. Passed \subseteq Files
  BY ElemsType DEF Passed, Stored, FileTypeOK
<1>2. CASE (stop \/ Known(f)) /\ UNCHANGED fileVars
  <2>1. Passed' = Passed /\ keys' = keys
    BY <1>2 DEF fileVars, Passed, Stored
  <2>2. Known(f) => f \in Passed
    <3>1. SUFFICES ASSUME Known(f) PROVE f \in Passed
      OBVIOUS
    <3>2. PICK g \in Passed : Key[g] = Key[f]
      BY <3>1 DEF Known
    <3>3. f = g
      BY <1>1, <3>1, <3>2 DEF Known, FilesApart
    <3>4. QED BY <3>2, <3>3
  <2>3. QED BY <1>2, <2>1, <2>2
<1>3. CASE /\ keys' = keys \cup {Key[f]}
           /\ IF IsFull(Len(pending) + 1)
              THEN Flush(Append(pending, f))
              ELSE pending' = Append(pending, f) /\ UNCHANGED <<rows, lost>>
  <2>1. /\ Append(pending, f) \in Seq(Files)
        /\ Range(Append(pending, f)) = Range(pending) \cup {f}
    BY RangeAppend DEF FileTypeOK
  <2>2. Passed' = Passed \cup {f}
    <3>1. CASE Flush(Append(pending, f))
      BY <2>1, <3>1, FlushPasses DEF Passed
    <3>2. CASE pending' = Append(pending, f) /\ UNCHANGED <<rows, lost>>
      BY <2>1, <3>2 DEF Passed, Stored
    <3>3. QED BY <1>3, <3>1, <3>2
  <2>3. QED BY <1>3, <2>2
<1>4. QED BY <1>2, <1>3 DEF OnFile

\* A step that touches neither files nor videos.
LEMMA KeptSame ==
  ASSUME QueueOK, UNCHANGED <<fileVars, videos>>,
         pc' \in Scanning \/ videos = <<>> \/ pc \notin Scanning
  PROVE  QueueOK' /\ Kept' = Kept /\ Accounts(Kept, Kept')
<1>1. Kept' = Kept /\ Passed' = Passed
  BY DEF Kept, Held, Stored, Passed, fileVars
<1>2. QueueOK'
  BY <1>1 DEF QueueOK, fileVars
<1>3. QED BY <1>1, <1>2, AccountsIfMore

LEMMA KeptParts == Kept = Passed \cup Range(videos)
BY DEF Kept, Held, Passed

LEMMA PassedGrows ==
  ASSUME QueueOK, Passed \subseteq Passed', UNCHANGED videos,
         pc' \in Scanning \/ pc \notin Scanning \/ videos = <<>>,
         keys' \subseteq {Key[g] : g \in Passed'}
  PROVE  QueueOK' /\ Accounts(Kept, Kept')
<1>1. Kept \subseteq Kept'
  BY KeptParts DEF Kept, Held, Passed
<1>2. QED BY <1>1, AccountsIfMore DEF QueueOK

\* The run of videos taken off the list is covered by its first, which went
\* through on_file or was lost.
LEMMA MergeKeeps ==
  ASSUME FilesApart, TypeOK, QueueOK, MergeVideo
  PROVE  QueueOK' /\ Accounts(Kept, Kept')
<1> DEFINE h == Head(videos)
<1>1. /\ pc = "merge" /\ pc' = "merge" /\ videos # <<>> /\ videos \in Seq(RawFiles)
      /\ Len(videos) \in Nat \ {0} /\ h = videos[1] /\ h \in RawFiles /\ h \in Files
  BY HeadTailProperties, LenProperties, EmptySeq, TopLevelFiles
  DEF MergeVideo, TypeOK, LoopTypeOK
<1>2. /\ Passed \subseteq Passed' /\ keys' \subseteq {Key[g] : g \in Passed'}
      /\ h \in Passed'
  <2>1. CASE ~stop /\ OnFile(h)
    BY <1>1, <2>1, OnFilePasses DEF TypeOK, QueueOK
  <2>2. CASE lost' = lost \cup {h} /\ UNCHANGED <<rows, pending, keys>>
    BY <2>2 DEF Passed, Stored, QueueOK
  <2>3. QED BY <2>1, <2>2 DEF MergeVideo
<1> HIDE DEF h
<1>3. PICK n \in 1..Len(videos) :
        RunAhead(n) /\ videos' = SubSeq(videos, n + 1, Len(videos))
  BY DEF MergeVideo
<1>4. \A k \in 1..n : CoveredBy(Kept', videos[k])
  <2>1. CoveredBy(Kept', videos[1])
    BY <1>1, <1>2, KeptParts DEF CoveredBy, Kept, Held, Passed
  <2>2. QED BY <1>1, <1>3, <2>1, RunCovered DEF RunAhead
<1>5. \A k \in n + 1..Len(videos) : videos[k] \in Kept'
  <2>1. TAKE k \in n + 1..Len(videos)
  <2>2. /\ Len(videos') = Len(videos) - n
        /\ \A i \in 1..Len(videos) - n : videos'[i] = videos[n + i]
        /\ videos' \in Seq(RawFiles)
    <3>1. \A i \in (n + 1)..Len(videos) : videos[i] \in RawFiles
      BY <1>1, ElementOfSeq
    <3>2. n + 1 <= Len(videos) + 1 /\ n + 1 \in Int /\ n \in Nat
      BY <1>1
    <3>3. /\ SubSeq(videos, n + 1, Len(videos)) \in Seq(RawFiles)
          /\ Len(SubSeq(videos, n + 1, Len(videos))) = Len(videos) - (n + 1) + 1
          /\ \A i \in 1..Len(videos) - (n + 1) + 1 :
                SubSeq(videos, n + 1, Len(videos))[i] = videos[(n + 1) + i - 1]
      BY <1>1, <3>1, <3>2, SubSeqProperties
    <3>4. Len(videos) - (n + 1) + 1 = Len(videos) - n
      BY <1>1
    <3>5. ASSUME NEW i \in 1..Len(videos) - n PROVE videos'[i] = videos[n + i]
      <4>1. (n + 1) + i - 1 = n + i
        BY <1>1
      <4>2. QED BY <1>3, <3>3, <3>4, <4>1
    <3>6. QED BY <1>3, <3>3, <3>4, <3>5
  <2>3. k - n \in DOMAIN videos' /\ videos'[k - n] = videos[k]
    <3>1. k - n \in 1..Len(videos) - n /\ n + (k - n) = k
      BY <1>1
    <3>2. QED BY <2>2, <3>1, LenProperties
  <2>4. QED BY <2>3 DEF Kept, Held, Range
<1>6. \A g \in Kept : CoveredBy(Kept', g)
  <2>1. TAKE g \in Kept
  <2>2. CASE g \in Passed
    BY <1>2, <2>2 DEF Passed, Kept, Held, CoveredBy
  <2>3. CASE g \in Range(videos)
    <3>1. PICK k \in 1..Len(videos) : g = videos[k]
      BY <1>1, <2>3, LenProperties DEF Range
    <3>2. k \in 1..n \/ k \in n + 1..Len(videos)
      BY <1>1
    <3>3. QED BY <1>4, <1>5, <3>1, <3>2 DEF CoveredBy
  <2>4. QED BY <2>2, <2>3, KeptParts
<1>7. QED BY <1>1, <1>2, <1>6, AccountsIfCovered DEF QueueOK, Scanning

LEMMA QueueStep ==
  ASSUME FilesApart, IInv, QueueOK, [Next]_vars
  PROVE  QueueOK' /\ Accounts(Kept, Kept')
<1> DEFINE Goal == QueueOK' /\ Accounts(Kept, Kept')
<1>0. TypeOK /\ FileTypeOK /\ keys \subseteq {Key[g] : g \in Passed}
  BY DEF IInv, TypeOK, QueueOK
<1>1. CASE \/ \E m \in Modes : StartScan(m) \/ ResumeScan(m)
           \/ StartScanNoCache \/ PauseScan \/ ResumeFromPause \/ StopScan
  BY <1>1, KeptSame DEF StartScan, ResumeScan, StartScanNoCache, PauseScan,
     ResumeFromPause, StopScan, loopVars, Scanning
<1>2. CASE OpenDisk \/ Abandon \/ MetaEnds \/ MarkComplete \/ Notify
  BY <1>2, KeptSame DEF OpenDisk, Abandon, MetaEnds, AfterMeta, MarkComplete,
     Notify, loopVars, Scanning
<1>3. CASE RawLoop \/ BatchEnds \/ MergeEnds \/ EnterReport \/ SaveReport
  BY <1>3, KeptSame DEF RawLoop, BatchEnds, MergeEnds, EnterReport, SaveReport,
     AfterReport, loopVars, Scanning
<1>4. CASE Load
  <2>1. pc = "load" /\ videos = <<>> /\ videos' = <<>>
    BY <1>4 DEF Load, BeginRaw, QueueOK, Scanning, loopVars
  <2>2. Passed' = Passed /\ keys' \subseteq {Key[g] : g \in Passed'}
    BY <1>4 DEF Load, LoadFileKeys, Passed, Stored
  <2>3. QED BY <2>1, <2>2, PassedGrows
<1>5. CASE EnterPhaseTwo
  <2>1. videos = <<>> /\ videos' = <<>> /\ UNCHANGED fileVars
    BY <1>5 DEF EnterPhaseTwo, BeginRaw, QueueOK, Scanning, loopVars
  <2>2. QED BY <2>1, KeptSame
<1>6. CASE BootUnreadable \/ SavePhaseOne
  <2>1. /\ pc' \notin Scanning /\ pc \notin Scanning
        /\ UNCHANGED <<videos, rows, pending, keys>> /\ lost \subseteq lost'
    BY <1>6 DEF BootUnreadable, SavePhaseOne, AfterMeta, loopVars, Scanning
  <2>2. Passed \subseteq Passed'
    BY <2>1 DEF Passed, Stored
  <2>3. QED BY <1>0, <2>1, <2>2, PassedGrows
<1>7. ASSUME NEW f \in MetaFiles, MetaFile(f) PROVE Goal
  <2>1. OnFile(f) /\ f \in Files /\ UNCHANGED videos /\ pc \notin Scanning
    BY <1>7 DEF MetaFile, loopVars, Scanning
  <2>2. QED BY <1>0, <2>1, OnFilePasses, PassedGrows
<1>8. ASSUME NEW f \in RawFiles, RawHit(f) PROVE Goal
  <2>1. f \in Files /\ pc' = pc /\ pc \in Scanning
    BY <1>8, TopLevelFiles DEF RawHit, Scanning
  <2>2. CASE UNCHANGED videos /\ OnFile(f)
    BY <1>0, <2>1, <2>2, OnFilePasses, PassedGrows
  <2>3. CASE videos' = Append(videos, f) /\ UNCHANGED fileVars
    <3>1. Range(videos') = Range(videos) \cup {f}
      BY <1>0, <2>3, RangeAppend DEF TypeOK, LoopTypeOK
    <3>2. Kept \subseteq Kept' /\ Passed' = Passed /\ keys' = keys
      BY <2>3, <3>1 DEF Kept, Held, Passed, Stored, fileVars
    <3>3. QED BY <1>0, <2>1, <3>2, AccountsIfMore DEF QueueOK
  <2>4. QED BY <1>8, <2>2, <2>3 DEF RawHit
<1>9. CASE MergeVideo
  BY <1>0, <1>9, MergeKeeps
<1>10. CASE FinalFlush
  <2>1. Passed' = Passed /\ UNCHANGED <<videos, keys>> /\ pc \notin Scanning
    BY <1>0, <1>10, FlushPasses DEF FinalFlush, FileTypeOK, Passed, loopVars, Scanning
  <2>2. QED BY <1>0, <2>1, PassedGrows
<1>11. CASE Crash
  <2>1. videos' = <<>> /\ keys' = {} /\ Kept \subseteq Kept'
    BY <1>11 DEF Crash, Kept, Held, Stored
  <2>2. QED BY <2>1, AccountsIfMore DEF QueueOK
<1>12. CASE UNCHANGED vars
  BY <1>12, KeptSame DEF vars, fileVars
<1>13. QED
  BY <1>1, <1>2, <1>3, <1>4, <1>5, <1>6, <1>7, <1>8, <1>9, <1>10, <1>11, <1>12
  DEF Next, ScanThread, Application

LEMMA ModeStep == TypeOK /\ ModeOK /\ [Next]_vars => ModeOK'
<1> SUFFICES ASSUME TypeOK, ModeOK, [Next]_vars PROVE ModeOK'
  OBVIOUS
<1> USE DEF ModeOK
<1>1. CASE \/ \E m \in Modes : StartScan(m) \/ ResumeScan(m)
           \/ StartScanNoCache \/ PauseScan \/ ResumeFromPause \/ StopScan
  BY <1>1 DEF StartScan, ResumeScan, StartScanNoCache, PauseScan,
     ResumeFromPause, StopScan, planVars
<1>2. CASE OpenDisk \/ Abandon \/ MarkComplete \/ Notify \/ FinalFlush \/ Crash
  BY <1>2 DEF OpenDisk, Abandon, MarkComplete, Notify, FinalFlush, Crash, planVars
<1>3. CASE \/ RawLoop \/ BatchEnds \/ MergeVideo \/ MergeEnds \/ EnterReport
           \/ SaveReport \/ \E f \in RawFiles : RawHit(f)
  BY <1>3 DEF RawLoop, BatchEnds, MergeVideo, MergeEnds, EnterReport, SaveReport,
     RawHit, AfterReport, planVars
<1>4. CASE Load
  BY <1>4 DEF Load, BeginRaw, TypeOK, PlanTypeOK
<1>5. CASE \/ BootUnreadable \/ MetaEnds \/ SavePhaseOne \/ EnterPhaseTwo
           \/ \E f \in MetaFiles : MetaFile(f)
  BY <1>5 DEF BootUnreadable, MetaEnds, SavePhaseOne, EnterPhaseTwo, MetaFile,
     AfterMeta, BeginRaw, planVars
<1>6. CASE UNCHANGED vars
  BY <1>6 DEF vars
<1>7. QED
  BY <1>1, <1>2, <1>3, <1>4, <1>5, <1>6 DEF Next, ScanThread, Application

LEMMA MetaStep ==
  ASSUME FilesApart, IInv, QueueOK, ModeOK, MetaOK, [Next]_vars
  PROVE  MetaOK'
<1> USE DEF Scanning, Reporting, Ending
<1>0. /\ MetaCovered => MetaCovered'
      /\ \A f \in MetaFiles : CoveredBy(Kept, f) => CoveredBy(Kept', f)
      /\ TypeOK /\ progress \in Progress /\ (prog # NoRow => prog \in Progress)
      /\ ~HasMeta => MetaCovered /\ MetaCovered'
  BY QueueStep, CoveredStays
  DEF MetaCovered, Accounts, IInv, TypeOK, SaveTypeOK, MetaIn
<1>1. ASSUME NEW m \in Modes, StartScan(m) PROVE MetaOK'
  BY <1>1 DEF StartScan, CreateSession, Zero, MetaOK
<1>2. ASSUME NEW m \in Modes, ResumeScan(m) PROVE MetaOK'
  BY <1>0, <1>2 DEF ResumeScan, Resumable, HasSaved, MetaOK
<1>3. CASE StartScanNoCache
  BY <1>0, <1>3 DEF StartScanNoCache, Zero, MetaOK
<1>4. CASE PauseScan \/ ResumeFromPause \/ StopScan
  BY <1>0, <1>4 DEF PauseScan, ResumeFromPause, StopScan, saveVars, planVars, MetaOK
<1>5. CASE OpenDisk \/ Abandon \/ Notify
  BY <1>0, <1>5 DEF OpenDisk, Abandon, Notify, saveVars, planVars, flagVars, MetaOK
<1>6. CASE Load
  <2>1. UNCHANGED <<prog, progress, stop, mode>> /\ pc = "load" /\ prog # NoRow
    BY <1>6 DEF Load, saveVars, flagVars, IInv, ThreadInv
  <2>2. CASE pc' = "finish" /\ stop
    BY <1>0, <2>1, <2>2 DEF MetaOK
  <2>3. CASE pc' = "raw" /\ (mode = "full" \/ (mode = "quick" /\ ~HasMeta))
    BY <1>0, <2>1, <2>3 DEF MetaOK
  <2>4. CASE pc' = "meta" /\ todo' = MetaFiles
    BY <1>0, <2>1, <2>4 DEF MetaOK
  <2>5. CASE pc' = "phase1" /\ ~HasMeta
    BY <1>0, <2>1, <2>5 DEF MetaOK
  <2>6. CASE pc' = "phase2" /\ SkipMetadata
    BY <1>0, <2>1, <2>6 DEF MetaOK, SkipMetadata, HasSaved
  <2>7. QED BY <1>6, <2>2, <2>3, <2>4, <2>5, <2>6 DEF Load, BeginRaw
<1>7. CASE BootUnreadable
  <2>1. MetaCovered'
    BY <1>7 DEF BootUnreadable, MetaCovered, MetaIn, Kept, Held, Stored, CoveredBy
  <2>2. pc' \in {"phase1", "finish"}
    BY <1>7 DEF BootUnreadable, AfterMeta
  <2>3. QED BY <2>1, <2>2 DEF MetaOK
<1>8. ASSUME NEW f \in MetaFiles, MetaFile(f) PROVE MetaOK'
  <2>1. /\ pc = "meta" /\ pc' = "meta" /\ todo' = todo \ {f}
        /\ UNCHANGED <<prog, progress, stop>>
    BY <1>8 DEF MetaFile, saveVars, flagVars
  <2>2. ~stop => CoveredBy(Kept', f)
    <3>1. OnFile(f) /\ f \in Files /\ keys \subseteq {Key[g] : g \in Passed}
      BY <1>8 DEF MetaFile, QueueOK
    <3>2. ~stop => f \in Passed'
      BY <1>0, <3>1, OnFilePasses DEF TypeOK
    <3>3. QED BY <3>2 DEF CoveredBy, Passed, Kept, Held
  <2>3. QED BY <1>0, <2>1, <2>2 DEF MetaOK
<1>9. CASE MetaEnds
  <2>1. /\ pc = "meta" /\ pc' \in {"phase1", "finish"}
        /\ UNCHANGED <<prog, progress, stop, mode>> /\ (~stop => todo = {})
    BY <1>9 DEF MetaEnds, AfterMeta, saveVars, flagVars
  <2>2. ~stop => MetaCovered
    BY <2>1 DEF MetaOK, MetaCovered, MetaIn
  <2>3. QED BY <1>0, <2>1, <2>2 DEF MetaOK
<1>10. CASE SavePhaseOne
  <2>1. MetaCovered'
    <3>1. CASE stop
      BY <1>10, <3>1
      DEF SavePhaseOne, MetaCovered, MetaIn, Kept, Held, Stored, CoveredBy
    <3>2. CASE ~stop
      BY <1>0, <1>10, <3>2 DEF SavePhaseOne, MetaOK
    <3>3. QED BY <3>1, <3>2
  <2>2. pc' = "phase2"
    BY <1>10 DEF SavePhaseOne
  <2>3. QED BY <2>1, <2>2 DEF MetaOK
<1>11. CASE EnterPhaseTwo
  <2>1. MetaCovered' /\ mode = "deep" /\ UNCHANGED mode /\ pc' \in {"raw", "finish"}
    BY <1>0, <1>11 DEF EnterPhaseTwo, BeginRaw, planVars, MetaOK, ModeOK
  <2>2. QED BY <2>1 DEF MetaOK
<1>12. CASE RawLoop \/ BatchEnds \/ \E f \in RawFiles : RawHit(f)
  <2>1. /\ pc \in Scanning /\ pc' \in Scanning
        /\ UNCHANGED <<prog, progress, stop, mode>>
    BY <1>12 DEF RawLoop, BatchEnds, RawHit, saveVars, flagVars, planVars
  <2>2. QED BY <1>0, <2>1 DEF MetaOK
<1>13. CASE MergeVideo \/ MergeEnds \/ EnterReport
  <2>1. /\ pc \in Scanning \cup Reporting /\ pc' \in Scanning \cup Reporting \cup {"finish"}
        /\ UNCHANGED <<prog, progress, stop, mode>>
    BY <1>13 DEF MergeVideo, MergeEnds, EnterReport, AfterReport, saveVars, flagVars, planVars
  <2>2. QED BY <1>0, <2>1 DEF MetaOK
<1>14. CASE SaveReport
  <2>1. /\ pc \in Scanning \cup Reporting /\ pc' \in {"raw", "finish"}
        /\ UNCHANGED <<stop, mode>> /\ progress'.phase = progress.phase
        /\ prog' = progress' \/ prog' = prog
    BY <1>0, <1>14 DEF SaveReport, SaveProgress, AfterReport, flagVars, planVars, Progress
  <2>2. QED BY <1>0, <2>1 DEF MetaOK
<1>15. CASE FinalFlush
  BY <1>0, <1>15 DEF FinalFlush, saveVars, flagVars, planVars, MetaOK
<1>16. CASE MarkComplete
  <2>1. /\ pc = "complete" /\ pc' = "notify" /\ UNCHANGED <<stop, mode>>
        /\ progress'.phase = progress.phase /\ (prog' = progress' \/ prog' = prog)
    BY <1>0, <1>16 DEF MarkComplete, SaveProgress, planVars, Progress
  <2>2. QED BY <1>0, <2>1 DEF MetaOK
<1>17. CASE Crash
  BY <1>0, <1>17 DEF Crash, Zero, MetaOK
<1>18. CASE UNCHANGED vars
  BY <1>0, <1>18 DEF vars, MetaOK
<1>19. QED
  BY <1>1, <1>2, <1>3, <1>4, <1>5, <1>6, <1>7, <1>8, <1>9, <1>10, <1>11, <1>12,
     <1>13, <1>14, <1>15, <1>16, <1>17, <1>18
  DEF Next, ScanThread, Application

LEMMA RawLowType == RawLow \in Nat /\ (~HasMeta => RawLow = StartSector)
                    /\ (HasMeta => MetaEnd <= RawLow)
                    /\ (~(Modes \subseteq {"deep"}) => StartSector <= RawLow)
BY DEF RawLow, MaxOf

LEMMA PointStep ==
  ASSUME FilesApart, IInv, QueueOK, ModeOK, PointOK, LoopOK, [Next]_vars
  PROVE  PointOK'
<1> USE DEF Planning
<1>0. /\ \A x : Covered(x) => CoveredTo(Kept', x)
      /\ CoveredTo(Kept', 0) /\ 0 \in Nat
      /\ TypeOK /\ progress \in Progress /\ (prog # NoRow => prog \in Progress)
      /\ scanned \in Nat /\ sector \in Nat
  BY QueueStep, CoveredStays, CoveredNone, RawLowType
  DEF Covered, IInv, TypeOK, SaveTypeOK, LoopTypeOK
<1>f. /\ (prog # NoRow => CoveredTo(Kept', prog.resume))
      /\ CoveredTo(Kept', progress.resume)
      /\ pc \in Planning => CoveredTo(Kept', from) /\ low <= RawLow
  BY <1>0 DEF PointOK
<1>1. ASSUME NEW m \in Modes, StartScan(m) PROVE PointOK'
  BY <1>0, <1>1 DEF StartScan, CreateSession, Zero, PointOK, Covered
<1>2. ASSUME NEW m \in Modes, ResumeScan(m) PROVE PointOK'
  BY <1>f, <1>2 DEF ResumeScan, Resumable, HasSaved, PointOK, Covered
<1>3. CASE StartScanNoCache
  BY <1>0, <1>f, <1>3 DEF StartScanNoCache, Zero, PointOK, Covered
<1>4. CASE PauseScan \/ ResumeFromPause \/ StopScan
  BY <1>f, <1>4 DEF PauseScan, ResumeFromPause, StopScan, saveVars, planVars,
     PointOK, Covered
<1>5. CASE OpenDisk \/ Abandon \/ Notify \/ FinalFlush
  BY <1>f, <1>5 DEF OpenDisk, Abandon, Notify, FinalFlush, saveVars, planVars,
     PointOK, Covered
<1>6. CASE Load
  <2>1. UNCHANGED <<prog, progress>> /\ prog # NoRow /\ pc = "load"
    BY <1>6 DEF Load, saveVars, IInv, ThreadInv
  <2>2. CASE pc' \in {"finish", "raw"}
    BY <1>f, <2>1, <2>2 DEF PointOK, Covered
  <2>3. CASE pc' \in Planning /\ low' \in {0, StartSector} /\ from' = 0
             /\ (low' # 0 => ~HasMeta)
    BY <1>0, <1>f, <2>1, <2>3, RawLowType DEF PointOK, Covered
  <2>4. CASE pc' = "phase2" /\ low' = 0
             /\ from' = IF prog.phase >= 2 THEN prog.resume ELSE 0
    BY <1>0, <1>f, <2>1, <2>4, RawLowType DEF PointOK, Covered
  <2>5. QED BY <1>6, <2>2, <2>3, <2>4 DEF Load, BeginRaw
<1>7. CASE BootUnreadable \/ \E f \in MetaFiles : MetaFile(f)
  <2>1. UNCHANGED <<prog, progress, low, from>> /\ pc = "meta"
    BY <1>7 DEF BootUnreadable, MetaFile, saveVars, planVars
  <2>2. QED BY <1>f, <2>1 DEF PointOK, Covered
<1>8. CASE MetaEnds
  <2>1. UNCHANGED <<prog, progress, from>> /\ pc = "meta" /\ low' = MetaEnd
    BY <1>8 DEF MetaEnds, saveVars
  <2>2. MetaEnd <= RawLow
    BY <2>1, RawLowType DEF ModeOK
  <2>3. QED BY <1>f, <2>1, <2>2 DEF PointOK, Covered
<1>9. CASE SavePhaseOne
  <2>1. /\ UNCHANGED <<low, from>> /\ pc = "phase1"
        /\ progress'.resume = progress.resume /\ (prog' = progress' \/ prog' = prog)
    BY <1>0, <1>9 DEF SavePhaseOne, SaveProgress, planVars, Progress
  <2>2. QED BY <1>f, <2>1 DEF PointOK, Covered
<1>10. CASE EnterPhaseTwo
  <2>1. /\ progress'.resume = progress.resume /\ prog' = prog
        /\ pc' \in {"raw", "finish"}
    BY <1>0, <1>10 DEF EnterPhaseTwo, BeginRaw, Progress
  <2>2. QED BY <1>f, <2>1 DEF PointOK, Covered
<1>11. CASE \/ RawLoop \/ BatchEnds \/ MergeVideo \/ MergeEnds \/ EnterReport
            \/ \E f \in RawFiles : RawHit(f)
  <2>1. UNCHANGED <<prog, progress>> /\ pc' \notin Planning
    BY <1>11 DEF RawLoop, BatchEnds, MergeVideo, MergeEnds, EnterReport,
       AfterReport, RawHit, saveVars
  <2>2. QED BY <1>f, <2>1 DEF PointOK, Covered
<1>12. CASE SaveReport
  <2>1. /\ pc \in {"wait", "lastWait"} /\ pc' \notin Planning
        /\ progress'.resume = scanned /\ (prog' = progress' \/ prog' = prog)
    BY <1>0, <1>12 DEF SaveReport, SaveProgress, AfterReport, ResumePoint, Progress
  <2>2. Covered(scanned)
    <3>1. scanned <= sector
      BY <2>1 DEF LoopOK, Scanning, Reporting
    <3>2. CASE pc = "wait"
      BY <1>0, <3>1, <3>2, CoveredBelow DEF LoopOK, Covered
    <3>3. CASE pc = "lastWait"
      BY <1>0, <3>3, CoveredBelow DEF LoopOK, Covered
    <3>4. QED BY <2>1, <3>2, <3>3
  <2>3. QED BY <1>0, <1>f, <2>1, <2>2 DEF PointOK, Covered
<1>13. CASE MarkComplete
  <2>1. /\ pc' = "notify" /\ progress'.resume = progress.resume
        /\ (prog' = progress' \/ prog' = prog)
    BY <1>0, <1>13 DEF MarkComplete, SaveProgress, Progress
  <2>2. QED BY <1>f, <2>1 DEF PointOK, Covered
<1>14. CASE Crash
  BY <1>0, <1>f, <1>14 DEF Crash, Zero, PointOK, Covered
<1>15. CASE UNCHANGED vars
  BY <1>f, <1>15 DEF vars, PointOK, Covered
<1>16. QED
  BY <1>1, <1>2, <1>3, <1>4, <1>5, <1>6, <1>7, <1>8, <1>9, <1>10, <1>11, <1>12,
     <1>13, <1>14, <1>15
  DEF Next, ScanThread, Application

\* A RAW scan begins no further than every scan does, or where it left off.
LEMMA BeginRawCovers ==
  ASSUME NEW K, NEW first \in Nat, NEW resume \in Nat, first <= RawLow,
         CoveredTo(K, resume), BeginRaw(first, resume)
  PROVE  /\ scanned' \in Nat /\ sector' \in Nat /\ scanned' <= sector'
         /\ CoveredTo(K, sector') /\ claimed' = 0 /\ pc' = "raw"
<1>1. /\ sector' = ResumeSector(first, resume) /\ scanned' = ResumeCount(first, resume)
      /\ claimed' = 0 /\ pc' = "raw"
  BY DEF BeginRaw
<1>2. /\ sector' \in Nat /\ scanned' \in Nat /\ scanned' <= sector'
      /\ sector' = first \/ sector' <= resume
  BY <1>1 DEF ResumeSector, ResumeCount, MaxOf
<1>3. CoveredTo(K, sector')
  BY <1>2, CoveredNone, CoveredBelow
<1>4. QED BY <1>1, <1>2, <1>3

\* The next signature that is not inside a claimed file is the one taken, or
\* lies behind the batch.
LEMMA NextHit ==
  ASSUME TypeOK, pc = "batch", ClaimBefore(cur), NEW x \in Nat, cur <= x,
         sector < EndSector, x <= sector + BatchCount,
         \A h \in Hits : x <= Pos[h], NEW K, CoveredTo(K, cur)
  PROVE  CoveredTo(K, x)
<1>1. SUFFICES ASSUME NEW f \in TopLevel, RawLow <= Pos[f], Pos[f] < MinOf(x, EndSector),
                      ~(Pos[f] < cur)
               PROVE  FALSE
  <2>1. \A f \in TopLevel : Pos[f] < cur /\ Pos[f] < MinOf(x, EndSector)
                                => Pos[f] < MinOf(cur, EndSector)
    BY TopLevelFiles DEF TypeOK, LoopTypeOK, MinOf
  <2>2. QED BY <2>1 DEF CoveredTo
<1>2. /\ f \in RawFiles /\ Pos[f] \in Nat /\ cur \in Nat /\ claimed \in Nat
      /\ sector \in Nat /\ Pos[f] < x
  BY <1>1, TopLevelFiles DEF TypeOK, LoopTypeOK, MinOf
<1>3. BatchCount \in Int
  BY <1>2, BatchLimits
<1>4. Pos[f] < claimed
  <2>1. f \notin Hits
    BY <1>2
  <2>2. Pos[f] < sector + BatchCount
    BY <1>2, <1>3
  <2>3. QED BY <1>1, <1>2, <2>1, <2>2 DEF Hits, MaxOf
<1>5. PICK g \in RawFiles : claimed = Pos[g] + Size[g] /\ Pos[g] < cur
  BY <1>2, <1>4 DEF ClaimBefore
<1>6. Pos[g] < Pos[f] /\ Pos[f] < Pos[g] + Size[g]
  BY <1>1, <1>2, <1>4, <1>5
<1>7. QED BY <1>1, <1>6 DEF TopLevel

LEMMA HitCovers ==
  ASSUME FilesApart, IInv, QueueOK, LoopOK, NEW f \in RawFiles, RawHit(f),
         Accounts(Kept, Kept')
  PROVE  LoopOK'
<1> USE DEF Scanning, Reporting, Ending
<1>1. /\ pc = "batch" /\ pc' = "batch" /\ f \in Hits /\ \A g \in Hits : Pos[f] <= Pos[g]
      /\ cur' = Pos[f] + 1 /\ claimed' = Pos[f] + Size[f]
      /\ UNCHANGED <<sector, scanned, stop>>
  BY DEF RawHit, flagVars
<1>2. /\ TypeOK /\ Pos[f] \in Nat /\ sector \in Nat /\ cur \in Nat /\ claimed \in Nat
      /\ sector < EndSector
  BY <1>1 DEF IInv, TypeOK, LoopTypeOK, ThreadInv
<1>3. BatchCount \in Nat /\ BatchCount' = BatchCount
  BY <1>1, <1>2, BatchLimits DEF BatchCount
<1>4. /\ cur <= Pos[f] /\ Pos[f] + 1 <= sector + BatchCount /\ sector <= cur
  BY <1>1, <1>2, <1>3 DEF Hits, MaxOf, LoopOK
<1>5. ClaimBefore(cur)'
  BY <1>1, <1>2 DEF ClaimBefore
<1>6. ASSUME ~stop PROVE CoveredTo(Kept', Pos[f] + 1)
  <2>1. CoveredTo(Kept, Pos[f])
    <3>1. ClaimBefore(cur) /\ CoveredTo(Kept, cur)
      BY <1>1, <1>6 DEF LoopOK, Covered
    <3>2. Pos[f] <= sector + BatchCount
      BY <1>2, <1>3, <1>4
    <3>3. QED BY <1>1, <1>2, <1>4, <3>1, <3>2, NextHit
  <2>2. CoveredTo(Kept', Pos[f])
    BY <2>1, CoveredStays
  <2>3. CoveredBy(Kept', f)
    <3>1. CASE OnFile(f)
      BY <1>2, <1>6, <3>1, OnFilePasses, TopLevelFiles
      DEF TypeOK, QueueOK, Passed, Kept, Held, CoveredBy
    <3>2. CASE videos' = Append(videos, f)
      BY <1>2, <3>2, RangeAppend DEF TypeOK, LoopTypeOK, Kept, Held, CoveredBy
    <3>3. QED BY <3>1, <3>2 DEF RawHit
  <2>4. SUFFICES ASSUME NEW g \in TopLevel, RawLow <= Pos[g],
                        Pos[g] < MinOf(Pos[f] + 1, EndSector), ~Cut(Pos[g])
                 PROVE  CoveredBy(Kept', g)
    BY DEF CoveredTo
  <2>5. Pos[g] \in Nat /\ g \in RawFiles
    BY TopLevelFiles
  <2>6. CASE Pos[g] = Pos[f]
    BY <2>3, <2>5, <2>6 DEF FilesApart
  <2>7. CASE Pos[g] # Pos[f]
    BY <1>2, <2>2, <2>4, <2>5, <2>7 DEF CoveredTo, MinOf
  <2>8. QED BY <2>6, <2>7
<1>7. scanned <= sector
  BY <1>1 DEF LoopOK
<1>8. /\ sector' <= cur' /\ cur' <= sector' + BatchCount'
  BY <1>1, <1>2, <1>3, <1>4
<1>9. (~stop => Covered(cur))'
  BY <1>1, <1>6 DEF Covered
<1>10. QED BY <1>1, <1>5, <1>7, <1>8, <1>9 DEF LoopOK

LEMMA LoopStep ==
  ASSUME FilesApart, IInv, QueueOK, ModeOK, PointOK, LoopOK, [Next]_vars
  PROVE  LoopOK'
<1> USE DEF Scanning, Reporting, Ending, Planning
<1>0. /\ \A x : Covered(x) => CoveredTo(Kept', x)
      /\ Accounts(Kept, Kept')
      /\ TypeOK /\ sector \in Nat /\ scanned \in Nat /\ cur \in Nat /\ low \in Nat
      /\ from \in Nat /\ (prog # NoRow => prog.resume \in Nat)
  BY QueueStep, CoveredStays
  DEF Covered, IInv, TypeOK, SaveTypeOK, Progress, LoopTypeOK, PlanTypeOK
<1>r. ASSUME NEW first \in Nat, NEW resume \in Nat, first <= RawLow,
             CoveredTo(Kept', resume), BeginRaw(first, resume)
      PROVE  LoopOK'
  BY <1>r, BeginRawCovers DEF LoopOK, Covered, ClaimBefore
<1>1. CASE \/ \E m \in Modes : StartScan(m) \/ ResumeScan(m)
           \/ OpenDisk \/ Abandon \/ Notify \/ Crash
  BY <1>1 DEF StartScan, ResumeScan, OpenDisk, Abandon, Notify, Crash, LoopOK
<1>2. CASE StartScanNoCache
  BY <1>2 DEF StartScanNoCache, LoopOK
<1>3. CASE PauseScan \/ ResumeFromPause \/ StopScan
  <2>1. /\ UNCHANGED <<pc, sector, cur, claimed, scanned, mode>>
        /\ ~stop' => ~stop
    BY <1>3 DEF PauseScan, ResumeFromPause, StopScan, loopVars, planVars
  <2>2. BatchCount' = BatchCount
    BY <2>1 DEF BatchCount
  <2>3. QED BY <1>0, <2>1, <2>2 DEF LoopOK, Covered, ClaimBefore
<1>4. CASE Load
  <2>1. pc = "load" /\ prog # NoRow /\ UNCHANGED <<stop, mode>>
    BY <1>4 DEF Load, IInv, ThreadInv, flagVars
  <2>2. CASE BeginRaw(StartSector, IF prog.resume > StartSector THEN prog.resume ELSE 0)
             /\ mode = "full"
    <3>1. StartSector <= RawLow
      BY <2>1, <2>2, RawLowType DEF ModeOK
    <3>2. (IF prog.resume > StartSector THEN prog.resume ELSE 0) \in Nat
      BY <1>0, <2>1
    <3>3. CoveredTo(Kept', IF prog.resume > StartSector THEN prog.resume ELSE 0)
      BY <1>0, <2>1, CoveredNone, RawLowType DEF PointOK
    <3>4. QED BY <1>r, <2>2, <3>1, <3>2, <3>3
  <2>3. CASE BeginRaw(StartSector, 0) /\ ~HasMeta
    <3>1. StartSector <= RawLow /\ CoveredTo(Kept', 0)
      BY <2>3, RawLowType, CoveredNone
    <3>2. QED BY <1>r, <2>3, <3>1
  <2>4. CASE pc' \in {"meta", "phase1", "phase2"} \/ (pc' = "finish" /\ stop)
    BY <2>1, <2>4 DEF LoopOK
  <2>5. QED BY <1>4, <2>2, <2>3, <2>4 DEF Load
<1>5. CASE BootUnreadable \/ MetaEnds
  <2>1. pc' = IF mode = "deep" THEN "phase1" ELSE "finish"
    BY <1>5 DEF BootUnreadable, MetaEnds, AfterMeta
  <2>2. pc = "meta" /\ UNCHANGED mode
    BY <1>5 DEF BootUnreadable, MetaEnds, planVars
  <2>3. QED BY <2>1, <2>2 DEF ModeOK, LoopOK
<1>6. CASE SavePhaseOne \/ \E f \in MetaFiles : MetaFile(f)
  BY <1>6 DEF SavePhaseOne, MetaFile, LoopOK
<1>7. CASE EnterPhaseTwo
  <2>1. pc = "phase2" /\ low <= RawLow /\ CoveredTo(Kept', from) /\ UNCHANGED <<stop, mode>>
    BY <1>0, <1>7 DEF EnterPhaseTwo, PointOK, flagVars, planVars
  <2>2. CASE BeginRaw(low, IF from > low THEN from ELSE 0)
    <3>1. (IF from > low THEN from ELSE 0) \in Nat
      BY <1>0
    <3>2. CoveredTo(Kept', IF from > low THEN from ELSE 0)
      BY <2>1, CoveredNone, RawLowType
    <3>3. QED BY <1>0, <1>r, <2>1, <2>2, <3>1, <3>2
  <2>3. CASE ~(low < EndSector /\ ~stop) /\ pc' = "finish"
    <3>1. ~stop => EndSector <= RawLow
      BY <1>0, <2>1, <2>3, RawLowType
    <3>2. ~stop => CoveredTo(Kept', EndSector)
      BY <3>1, CoveredNone
    <3>3. QED BY <2>1, <2>3, <3>2 DEF LoopOK, Covered
  <2>4. QED BY <1>7, <2>2, <2>3 DEF EnterPhaseTwo
<1>8. CASE RawLoop
  <2>1. /\ pc = "raw" /\ cur' = sector /\ UNCHANGED <<sector, scanned, claimed, stop>>
        /\ pc' = IF sector < EndSector /\ ~stop THEN "batch" ELSE "merge"
    BY <1>8 DEF RawLoop, flagVars
  <2>2. scanned <= sector /\ ClaimBefore(sector) /\ (~stop => Covered(sector))
    BY <2>1 DEF LoopOK
  <2>3. CASE sector < EndSector /\ ~stop
    <3>1. BatchCount' \in Nat
      <4>1. BatchCount' = BatchCount
        BY <2>1 DEF BatchCount
      <4>2. QED BY <1>0, <2>3, <4>1, BatchLimits
    <3>2. ClaimBefore(cur)'
      BY <2>1, <2>2 DEF ClaimBefore
    <3>3. pc' = "batch" /\ sector' = sector /\ cur' = sector /\ scanned' = scanned
      BY <2>1, <2>3
    <3>4. sector' <= cur' /\ cur' <= sector' + BatchCount' /\ scanned' <= sector'
      <4>1. \A n \in Nat, m \in Nat : n <= n /\ n <= n + m
        OBVIOUS
      <4>2. QED BY <1>0, <2>2, <3>1, <3>3, <4>1
    <3>5. CoveredTo(Kept', cur')
      BY <1>0, <2>2, <2>3, <3>3
    <3>6. QED BY <3>2, <3>3, <3>4, <3>5 DEF LoopOK, Covered
  <2>4. CASE ~(sector < EndSector /\ ~stop)
    BY <1>0, <2>1, <2>2, <2>4 DEF LoopOK, Covered
  <2>5. QED BY <2>3, <2>4
<1>9. ASSUME NEW f \in RawFiles, RawHit(f) PROVE LoopOK'
  BY <1>0, <1>9, HitCovers
<1>10. CASE BatchEnds
  <2>1. /\ pc = "batch" /\ pc' \in {"raw", "report"} /\ Hits = {}
        /\ scanned' = scanned + BatchCount /\ sector' = sector + Batch
        /\ UNCHANGED <<claimed, stop>>
    BY <1>10 DEF BatchEnds, NextSector, flagVars
  <2>2. /\ BatchCount \in Nat /\ BatchCount <= Batch
        /\ sector + BatchCount <= EndSector /\ sector < EndSector
    BY <1>0, <2>1, BatchLimits DEF IInv, ThreadInv
  <2>3. /\ scanned <= sector /\ cur <= sector + BatchCount /\ ClaimBefore(cur)
        /\ ~stop => CoveredTo(Kept, cur)
    BY <2>1 DEF LoopOK, Covered
  <2>4. scanned' <= sector'
    BY <1>0, <2>1, <2>2, <2>3
  <2>5. ~stop => CoveredTo(Kept', sector')
    <3>1. SUFFICES ASSUME ~stop PROVE CoveredTo(Kept', sector')
      OBVIOUS
    <3>2. CoveredTo(Kept, sector + BatchCount)
      BY <1>0, <2>1, <2>2, <2>3, <3>1, NextHit
    <3>3. CoveredTo(Kept, sector + Batch)
      <4>1. SUFFICES ASSUME NEW f \in TopLevel, RawLow <= Pos[f], ~Cut(Pos[f]),
                            Pos[f] < MinOf(sector + Batch, EndSector)
                     PROVE  CoveredBy(Kept, f)
        BY DEF CoveredTo
      <4>2. Pos[f] \in Nat /\ Pos[f] < sector + Batch /\ Pos[f] < EndSector
        BY <1>0, <4>1, TopLevelFiles DEF MinOf
      <4>3. Pos[f] < sector + BatchCount
        <5>1. \A n, m \in Nat : ~(m <= n) => n < m
          OBVIOUS
        <5>2. sector + BatchCount \in Nat
          BY <1>0, <2>2
        <5>3. QED BY <1>0, <2>2, <4>1, <4>2, <5>1, <5>2, LeftOutIsCut
      <4>4. Pos[f] < MinOf(sector + BatchCount, EndSector)
        BY <4>2, <4>3 DEF MinOf
      <4>5. QED BY <3>2, <4>1, <4>4 DEF CoveredTo
    <3>4. QED BY <1>0, <2>1, <3>3 DEF Covered
  <2>6. ClaimBefore(sector)'
    <3>1. cur <= sector'
      BY <1>0, <2>1, <2>2, <2>3
    <3>2. sector' \in Nat /\ \A g \in RawFiles : Pos[g] \in Nat
      BY <1>0, <2>1
    <3>3. QED BY <1>0, <2>1, <2>3, <3>1, <3>2 DEF ClaimBefore
  <2>7. QED BY <2>1, <2>4, <2>5, <2>6 DEF LoopOK, Covered
<1>11. CASE MergeVideo
  <2>1. pc = "merge" /\ UNCHANGED <<pc, sector, scanned, stop>>
    BY <1>11 DEF MergeVideo, flagVars
  <2>2. QED BY <1>0, <2>1 DEF LoopOK, Covered
<1>12. CASE MergeEnds
  <2>1. pc = "merge" /\ pc' = "lastReport" /\ UNCHANGED <<sector, scanned, stop>>
    BY <1>12 DEF MergeEnds, flagVars, loopVars
  <2>2. ~stop => Covered(EndSector)
    BY <1>0, <2>1, CoveredBelow DEF LoopOK, Covered
  <2>3. QED BY <1>0, <2>1, <2>2 DEF LoopOK, Covered
<1>13. CASE EnterReport
  <2>1. /\ pc \in {"report", "lastReport"}
        /\ pc' = IF stop THEN (IF pc = "report" THEN "raw" ELSE "finish")
                 ELSE IF pc = "report" THEN "wait" ELSE "lastWait"
        /\ UNCHANGED <<sector, scanned, claimed, stop>>
    BY <1>13 DEF EnterReport, AfterReport, flagVars, loopVars
  <2>2. QED BY <1>0, <2>1 DEF LoopOK, Covered, ClaimBefore
<1>14. CASE SaveReport
  <2>1. /\ pc \in {"wait", "lastWait"}
        /\ pc' = IF pc = "wait" THEN "raw" ELSE "finish"
        /\ UNCHANGED <<sector, scanned, claimed, stop>>
    BY <1>14 DEF SaveReport, AfterReport, flagVars, loopVars
  <2>2. QED BY <1>0, <2>1 DEF LoopOK, Covered, ClaimBefore
<1>15. CASE FinalFlush \/ MarkComplete
  <2>1. pc \in Ending /\ pc' \in Ending /\ UNCHANGED <<stop, mode>>
    BY <1>15 DEF FinalFlush, MarkComplete, flagVars, planVars
  <2>2. QED BY <1>0, <2>1 DEF LoopOK, Covered
<1>16. CASE UNCHANGED vars
  <2>1. UNCHANGED <<pc, sector, cur, claimed, scanned, mode, stop>>
    BY <1>16 DEF vars
  <2>2. BatchCount' = BatchCount
    BY <2>1 DEF BatchCount
  <2>3. QED BY <1>0, <2>1, <2>2 DEF LoopOK, Covered, ClaimBefore
<1>17. QED
  BY <1>1, <1>2, <1>3, <1>4, <1>5, <1>6, <1>7, <1>8, <1>9, <1>10, <1>11, <1>12,
     <1>13, <1>14, <1>15, <1>16
  DEF Next, ScanThread, Application

----------------------------------------------------------------------------
(* The theorems.                                                           *)

LEMMA CoverInit == Init => CoverInv
<1> USE DEF Init, Zero
<1>1. Init => IInv
  BY InitInv
<1>2. Init => QueueOK
  BY DEF QueueOK, Scanning
<1>3. Init => ModeOK /\ MetaOK
  BY DEF ModeOK, MetaOK, Scanning, Reporting, Ending
<1>4. Init => PointOK
  BY CoveredNone, RawLowType DEF PointOK, Planning, Covered
<1>5. Init => LoopOK
  BY DEF LoopOK, Scanning, Reporting, Ending
<1>6. QED BY <1>1, <1>2, <1>3, <1>4, <1>5 DEF CoverInv

\* On a disk whose files differ in their keys, what a resume point, a phase
\* and the place of the scanner vouch for is kept by every step of the thread,
\* of the application and of a crash.
THEOREM CoverInductive ==
  ASSUME FilesApart
  PROVE  Spec => []CoverInv
<1>1. CoverInv /\ [Next]_vars => CoverInv'
  <2>1. SUFFICES ASSUME CoverInv, [Next]_vars PROVE CoverInv'
    OBVIOUS
  <2>2. IInv /\ QueueOK /\ ModeOK /\ MetaOK /\ PointOK /\ LoopOK
    BY <2>1 DEF CoverInv
  <2>3. IInv'
    BY <2>1, <2>2, TypeStep, ThreadStep, KeysStep DEF IInv
  <2>4. QueueOK'
    BY <2>1, <2>2, QueueStep
  <2>5. ModeOK'
    BY <2>1, <2>2, ModeStep DEF IInv
  <2>6. MetaOK'
    BY <2>1, <2>2, MetaStep
  <2>7. PointOK'
    BY <2>1, <2>2, PointStep
  <2>8. LoopOK'
    BY <2>1, <2>2, LoopStep
  <2>9. QED BY <2>3, <2>4, <2>5, <2>6, <2>7, <2>8 DEF CoverInv
<1>2. QED BY CoverInit, <1>1, PTL DEF Spec

\* Whatever combination of fresh, resumed, stopped and killed runs got the
\* scanner to a sector, no signature below it was left behind.
THEOREM Scanned ==
  ASSUME FilesApart
  PROVE  Spec => []ScannedIsAccounted
<1>1. CoverInv => ScannedIsAccounted
  <2>1. SUFFICES ASSUME CoverInv, pc \in Scanning, ~stop
                 PROVE  Covered(sector)
    BY DEF ScannedIsAccounted, Scanning, Accounted, Due, Covered, CoveredTo, Kept
  <2>2. sector \in Nat /\ cur \in Nat /\ LoopOK
    BY <2>1 DEF CoverInv, IInv, TypeOK, LoopTypeOK
  <2>3. CASE pc = "batch"
    <3>1. sector <= cur /\ CoveredTo(Kept, cur)
      BY <2>1, <2>2, <2>3 DEF LoopOK, Covered
    <3>2. QED BY <2>2, <3>1, CoveredBelow DEF Covered
  <2>4. QED BY <2>1, <2>2, <2>3 DEF LoopOK, Scanning
<1>2. QED BY <1>1, CoverInductive, PTL

\* What lies below a saved resume point may be skipped: all of it was seen.
THEOREM ResumePointCovered ==
  ASSUME FilesApart
  PROVE  Spec => []ResumePointIsCovered
<1>1. CoverInv => ResumePointIsCovered
  BY DEF CoverInv, PointOK, ResumePointIsCovered, Accounted, Due, Covered, CoveredTo, Kept
<1>2. QED BY <1>1, CoverInductive, PTL

\* A scan that nobody stopped owes nothing once it is marked complete.
THEOREM CompleteStoresAll ==
  ASSUME FilesApart
  PROVE  Spec => []CompleteScanStoresAll
<1>1. CoverInv => CompleteScanStoresAll
  <2>1. SUFFICES ASSUME CoverInv, pc = "notify", ~stop, NEW f \in Owed
                 PROVE  CoveredBy(Stored \cup lost, f)
    BY DEF CompleteScanStoresAll
  <2>2. pending = <<>> /\ videos = <<>>
    BY <2>1 DEF CoverInv, IInv, KeysInv, QueueOK, Scanning
  <2>3. Kept = Stored \cup lost
    BY <2>2, RangeEmpty DEF Kept, Held
  <2>4. mode \in {"quick", "deep", "full"} /\ EndSector \in Nat
    BY <2>1 DEF CoverInv, IInv, TypeOK, PlanTypeOK
  <2>5. CASE f \in MetaFiles /\ HasMeta /\ mode \in {"quick", "deep"}
    BY <2>1, <2>3, <2>5 DEF CoverInv, MetaOK, Ending, MetaCovered, MetaIn
  <2>6. CASE /\ ~(mode = "quick" /\ HasMeta)
             /\ f \in Due(EndSector)
    <3>1. Covered(EndSector)
      BY <2>1, <2>6 DEF CoverInv, LoopOK, Ending
    <3>2. QED BY <2>3, <2>4, <2>6, <3>1 DEF Covered, CoveredTo, Due
  <2>7. QED BY <2>1, <2>5, <2>6 DEF Owed
<1>2. QED BY <1>1, CoverInductive, PTL

----------------------------------------------------------------------------
(* What is saved only moves forward.  A resumed scan that starts again at  *)
(* the first sector of its range counts from zero, so this is a property   *)
(* of the mode that takes the saved sector for an address, "deep".         *)

DeepOnly == Modes \subseteq {"deep"} /\ Overlap <= Batch

\* x is not below r, or, where the cast cuts the batch that a scan resumed at
\* r begins with, not below r by more than the overlap.
NotBehind(r, x) == r <= x \/ (CutAt(MaxOf(0, r - Overlap)) /\ r <= x + Overlap)

\* The running thread has at least what is saved, and its first report will
\* not be below: the batch it starts with reaches the saved sector again,
\* unless it is cut.
AdvOK ==
  /\ scanned <= EndSector /\ progress.resume <= EndSector
  /\ progress.phase <= 1 => progress.resume = 0
  /\ prog # NoRow => prog.resume <= EndSector /\ (prog.phase <= 1 => prog.resume = 0)
  /\ pc \notin {"none", "abandon"} =>
       prog.phase <= progress.phase /\ NotBehind(prog.resume, progress.resume)
  /\ pc \in {"open", "load"} => progress = prog
  /\ pc \in {"meta", "phase1"} => progress.phase = 0 /\ from = 0
  /\ pc = "phase2" =>
       progress.resume = from /\ prog.resume = from /\ (low = 0 \/ from = 0)
  /\ pc \in Scanning \cup Reporting => scanned <= sector /\ progress.phase = 2
  /\ pc \in {"raw", "batch"} =>
       \/ NotBehind(prog.resume, scanned)
       \/ sector < EndSector /\ prog.resume <= scanned + BatchCount
  /\ pc \in {"report", "wait", "lastWait"} => NotBehind(prog.resume, scanned)
  /\ (pc \in {"merge", "lastReport"} /\ ~stop) => NotBehind(prog.resume, scanned)

AdvInv == TypeOK /\ ThreadInv /\ ModeOK /\ AdvOK

LEMMA Onward ==
  ASSUME NEW r \in Nat, NEW x \in Nat, NEW y \in Nat, x <= y, NotBehind(r, x)
  PROVE  NotBehind(r, y)
<1>1. \A o \in Nat : r <= x + o => r <= y + o
  OBVIOUS
<1>2. r <= x => r <= y
  OBVIOUS
<1>3. QED BY <1>1, <1>2 DEF NotBehind

LEMMA BeginRawReaches ==
  ASSUME DeepOnly, NEW first \in Nat, NEW resume \in Nat,
         first = 0 \/ resume = 0, resume <= EndSector, first < EndSector,
         BeginRaw(first, IF resume > first THEN resume ELSE 0)
  PROVE  /\ pc' = "raw" /\ scanned' <= sector' /\ scanned' <= EndSector
         /\ scanned' \in Nat
         /\ \/ NotBehind(resume, scanned')
            \/ sector' < EndSector /\ resume <= scanned' + BatchCount'
<1>1. /\ pc' = "raw"
      /\ sector' = ResumeSector(first, IF resume > first THEN resume ELSE 0)
      /\ scanned' = ResumeCount(first, IF resume > first THEN resume ELSE 0)
  BY DEF BeginRaw
<1>2. CASE resume = 0
  <2>1. sector' = first /\ scanned' = 0
    BY <1>1, <1>2 DEF ResumeSector, ResumeCount
  <2>2. QED BY <1>1, <1>2, <2>1 DEF NotBehind
<1>3. CASE resume # 0 /\ first = 0
  <2> DEFINE s == MaxOf(0, resume - Overlap)
  <2>1. /\ s \in Nat /\ s <= EndSector /\ resume <= s + Overlap
        /\ s < EndSector \/ resume <= s
    BY <1>3 DEF MaxOf
  <2>2. sector' = s /\ scanned' = s
    BY <1>1, <1>3 DEF ResumeSector, ResumeCount, MaxOf
  <2>3. BatchCount' = MinOf(Batch, (EndSector - s) % Word)
    BY <2>2 DEF BatchCount
  <2>4. CASE CutAt(s)
    BY <1>1, <2>1, <2>2, <2>4 DEF NotBehind
  <2>5. CASE ~CutAt(s) /\ s < EndSector
    <3> HIDE DEF s
    <3>1. BatchCount' = MinOf(Batch, EndSector - s)
      BY <2>1, <2>3, <2>5, ShortBatch
    <3>2. resume <= s + BatchCount'
      BY <2>1, <2>5, <3>1 DEF MinOf, DeepOnly
    <3>3. QED BY <1>1, <2>1, <2>2, <2>5, <3>2
  <2>6. CASE resume <= s
    BY <1>1, <2>1, <2>2, <2>6 DEF NotBehind
  <2> HIDE DEF s
  <2>7. QED BY <2>1, <2>4, <2>5, <2>6
<1>4. QED BY <1>2, <1>3

LEMMA AdvStep ==
  ASSUME DeepOnly, AdvInv, [Next]_vars
  PROVE  AdvOK'
<1> USE DEF Scanning, Reporting, Progress
<1>0. /\ TypeOK /\ ThreadInv /\ ModeOK /\ AdvOK
      /\ sector \in Nat /\ scanned \in Nat /\ low \in Nat /\ from \in Nat
      /\ progress \in Progress /\ (prog # NoRow => prog \in Progress)
      /\ pc # "none" => mode = "deep" /\ prog \in Progress
      /\ \A x : NotBehind(x, x) \/ x \notin Nat
  BY DEF AdvInv, TypeOK, SaveTypeOK, LoopTypeOK, PlanTypeOK, ModeOK, DeepOnly, ThreadInv,
             NotBehind
<1>1. CASE \E m \in Modes : StartScan(m)
  <2>1. /\ pc' = "open" /\ prog' = Zero /\ progress' = Zero /\ UNCHANGED scanned
    BY <1>1 DEF StartScan, CreateSession, loopVars
  <2>2. QED BY <1>0, <2>1 DEF AdvOK, Zero
<1>2. CASE \E m \in Modes : ResumeScan(m)
  <2>1. /\ pc' = "open" /\ prog # NoRow /\ prog' = prog /\ progress' = prog
        /\ UNCHANGED scanned
    BY <1>2 DEF ResumeScan, Resumable, HasSaved, loopVars
  <2>2. QED BY <1>0, <2>1 DEF AdvOK
<1>3. CASE StartScanNoCache
  <2>1. /\ pc = "none" /\ pc' = "none" /\ progress' = Zero
        /\ UNCHANGED <<prog, scanned>>
    BY <1>3 DEF StartScanNoCache, loopVars
  <2>2. QED BY <1>0, <2>1 DEF AdvOK, Zero
<1>4. CASE PauseScan \/ ResumeFromPause \/ StopScan \/ UNCHANGED vars
  <2>1. /\ UNCHANGED <<pc, prog, progress, from, low, sector, scanned>>
        /\ ~stop' => ~stop
    BY <1>4 DEF PauseScan, ResumeFromPause, StopScan, vars, saveVars, planVars, loopVars
  <2>2. BatchCount' = BatchCount
    BY <2>1 DEF BatchCount
  <2>3. QED BY <1>0, <2>1, <2>2 DEF AdvOK
<1>5. CASE OpenDisk \/ Abandon
  <2>1. /\ pc' \in {"load", "abandon", "none"} /\ (pc' = "load" => pc = "open")
        /\ UNCHANGED <<prog, progress, scanned>>
    BY <1>5 DEF OpenDisk, Abandon, saveVars, loopVars
  <2>2. QED BY <1>0, <2>1 DEF AdvOK
<1>6. CASE Load
  <2>1. /\ pc = "load" /\ mode = "deep" /\ progress = prog
        /\ UNCHANGED <<prog, progress, stop>>
    BY <1>0, <1>6 DEF Load, AdvOK, saveVars, flagVars
  <2>2. CASE stop /\ pc' = "finish" /\ UNCHANGED loopVars
    BY <1>0, <2>1, <2>2 DEF AdvOK, loopVars
  <2>3. CASE ~SkipMetadata /\ pc' \in {"meta", "phase1"} /\ from' = 0 /\ UNCHANGED loopVars
    <3>1. prog.phase = 0
      BY <1>0, <2>1, <2>3 DEF SkipMetadata, HasSaved, ThreadInv
    <3>2. QED BY <1>0, <2>1, <2>3, <3>1 DEF AdvOK, loopVars
  <2>4. CASE /\ pc' = "phase2" /\ low' = 0 /\ UNCHANGED loopVars
             /\ from' = IF prog.phase >= 2 THEN prog.resume ELSE 0
    BY <1>0, <2>1, <2>4 DEF AdvOK, loopVars
  <2>5. QED BY <1>6, <2>1, <2>2, <2>3, <2>4 DEF Load
<1>7. CASE BootUnreadable \/ MetaEnds
  <2>1. /\ pc = "meta" /\ pc' = "phase1" /\ UNCHANGED <<prog, progress, from, scanned>>
    BY <1>0, <1>7 DEF BootUnreadable, MetaEnds, AfterMeta, saveVars, planVars, loopVars
  <2>2. QED BY <1>0, <2>1 DEF AdvOK
<1>8. ASSUME NEW f \in MetaFiles, MetaFile(f) PROVE AdvOK'
  <2>1. /\ pc = "meta" /\ pc' = "meta" /\ UNCHANGED <<prog, progress, from, scanned>>
    BY <1>8 DEF MetaFile, saveVars, loopVars
  <2>2. QED BY <1>0, <2>1 DEF AdvOK
<1>9. CASE SavePhaseOne
  <2>1. /\ pc = "phase1" /\ pc' = "phase2" /\ UNCHANGED <<from, low, scanned>>
        /\ progress' = [progress EXCEPT !.phase = 1]
        /\ prog' = progress' \/ prog' = prog
    BY <1>9 DEF SavePhaseOne, SaveProgress, planVars, loopVars
  <2>2. /\ progress.phase = 0 /\ progress.resume = 0 /\ from = 0
        /\ progress'.phase = 1 /\ progress'.resume = 0
    BY <1>0, <2>1 DEF AdvOK
  <2>3. QED BY <1>0, <2>1, <2>2 DEF AdvOK
<1>10. CASE EnterPhaseTwo
  <2>1. /\ pc = "phase2" /\ UNCHANGED <<prog, stop>>
        /\ progress'.phase = 2 /\ progress'.resume = progress.resume
    BY <1>0, <1>10 DEF EnterPhaseTwo, flagVars
  <2>2. /\ progress.resume = from /\ (low = 0 \/ from = 0) /\ from <= EndSector
        /\ prog.phase <= 2 /\ prog.resume = from
        /\ NotBehind(prog.resume, progress.resume)
        /\ prog.resume <= EndSector /\ (prog.phase <= 1 => prog.resume = 0)
    BY <1>0, <2>1 DEF AdvOK
  <2>3. CASE low < EndSector /\ BeginRaw(low, IF from > low THEN from ELSE 0)
    <3>1. /\ pc' = "raw" /\ scanned' <= sector' /\ scanned' <= EndSector
          /\ \/ NotBehind(prog.resume, scanned')
             \/ sector' < EndSector /\ prog.resume <= scanned' + BatchCount'
      BY <1>0, <2>2, <2>3, BeginRawReaches
    <3>2. QED BY <2>1, <2>2, <3>1 DEF AdvOK
  <2>4. CASE pc' = "finish" /\ UNCHANGED loopVars
    BY <1>0, <2>1, <2>2, <2>4 DEF AdvOK, loopVars
  <2>5. QED BY <1>10, <2>3, <2>4 DEF EnterPhaseTwo
<1>11. CASE RawLoop
  <2>1. /\ pc = "raw" /\ UNCHANGED <<prog, progress, sector, scanned, stop>>
        /\ pc' = IF sector < EndSector /\ ~stop THEN "batch" ELSE "merge"
    BY <1>11 DEF RawLoop, saveVars, flagVars
  <2>2. BatchCount' = BatchCount
    BY <2>1 DEF BatchCount
  <2>3. QED BY <1>0, <2>1, <2>2 DEF AdvOK
<1>12. ASSUME NEW f \in RawFiles, RawHit(f) PROVE AdvOK'
  <2>1. /\ pc = "batch" /\ pc' = "batch" /\ UNCHANGED <<prog, progress, sector, scanned>>
    BY <1>12 DEF RawHit, saveVars
  <2>2. BatchCount' = BatchCount
    BY <2>1 DEF BatchCount
  <2>3. QED BY <1>0, <2>1, <2>2 DEF AdvOK
<1>13. CASE BatchEnds
  <2>1. /\ pc = "batch" /\ sector < EndSector /\ pc' \in {"raw", "report"}
        /\ scanned' = scanned + BatchCount /\ sector' = sector + Batch
        /\ UNCHANGED <<prog, progress>>
    BY <1>0, <1>13 DEF BatchEnds, NextSector, saveVars, ThreadInv
  <2>2. BatchCount \in Nat /\ BatchCount <= Batch /\ sector + BatchCount <= EndSector
    BY <1>0, <2>1, BatchLimits
  <2>3. /\ scanned' \in Nat /\ scanned' <= EndSector /\ scanned' <= sector'
        /\ scanned <= scanned'
    BY <1>0, <2>1, <2>2 DEF AdvOK
  <2>4. NotBehind(prog.resume, scanned) \/ prog.resume <= scanned'
    BY <1>0, <2>1 DEF AdvOK
  <2>5. NotBehind(prog.resume, scanned')
    BY <1>0, <2>1, <2>3, <2>4, Onward DEF NotBehind
  <2>6. QED BY <1>0, <2>1, <2>3, <2>5 DEF AdvOK
<1>14. CASE MergeVideo \/ MergeEnds
  <2>1. /\ pc = "merge" /\ pc' \in {"merge", "lastReport"}
        /\ UNCHANGED <<prog, progress, sector, scanned, stop>>
    BY <1>14 DEF MergeVideo, MergeEnds, saveVars, flagVars, loopVars
  <2>2. QED BY <1>0, <2>1 DEF AdvOK
<1>15. CASE EnterReport
  <2>1. /\ pc \in {"report", "lastReport"}
        /\ pc' = IF stop THEN (IF pc = "report" THEN "raw" ELSE "finish")
                 ELSE IF pc = "report" THEN "wait" ELSE "lastWait"
        /\ UNCHANGED <<prog, progress, sector, scanned, stop>>
    BY <1>15 DEF EnterReport, AfterReport, saveVars, flagVars, loopVars
  <2>2. QED BY <1>0, <2>1 DEF AdvOK
<1>16. CASE SaveReport
  <2>1. /\ pc \in {"wait", "lastWait"} /\ UNCHANGED <<sector, scanned>>
        /\ pc' = IF pc = "wait" THEN "raw" ELSE "finish"
        /\ progress' = [progress EXCEPT !.resume = scanned]
        /\ prog' = progress' \/ prog' = prog
    BY <1>16 DEF SaveReport, SaveProgress, ResumePoint, AfterReport, loopVars
  <2>2. /\ progress'.resume = scanned /\ progress'.phase = progress.phase
        /\ NotBehind(prog.resume, scanned) /\ scanned <= EndSector
    BY <1>0, <2>1 DEF AdvOK
  <2>3. NotBehind(scanned, scanned)
    BY <1>0
  <2>4. NotBehind(prog'.resume, scanned)
    BY <1>0, <2>1, <2>2, <2>3
  <2>5. /\ progress'.resume <= EndSector
        /\ progress'.phase <= 1 => progress'.resume = 0
        /\ scanned <= sector /\ prog.phase <= progress.phase
        /\ prog.resume <= EndSector
        /\ prog.phase <= 1 => prog.resume = 0
    BY <1>0, <2>1, <2>2 DEF AdvOK
  <2>6. QED BY <1>0, <2>1, <2>2, <2>4, <2>5 DEF AdvOK
<1>17. CASE FinalFlush \/ Notify
  <2>1. /\ pc' \in {"complete", "none"} /\ pc \in {"finish", "notify"}
        /\ UNCHANGED <<prog, progress, scanned>>
    BY <1>17 DEF FinalFlush, Notify, saveVars, loopVars
  <2>2. QED BY <1>0, <2>1 DEF AdvOK
<1>18. CASE MarkComplete
  <2>1. /\ pc = "complete" /\ pc' = "notify" /\ UNCHANGED scanned
        /\ progress'.phase = progress.phase /\ progress'.resume = progress.resume
        /\ prog' = progress' \/ prog' = prog
    BY <1>0, <1>18 DEF MarkComplete, SaveProgress, loopVars
  <2>2. /\ prog.phase <= progress.phase /\ NotBehind(prog.resume, progress.resume)
        /\ NotBehind(progress.resume, progress.resume)
    BY <1>0, <2>1 DEF AdvOK
  <2>3. prog'.phase <= progress'.phase /\ NotBehind(prog'.resume, progress'.resume)
    BY <1>0, <2>1, <2>2
  <2>4. QED BY <1>0, <2>1, <2>3 DEF AdvOK
<1>19. CASE Crash
  <2>1. pc' = "none" /\ prog' = prog /\ progress' = Zero /\ scanned' = 0
    BY <1>19 DEF Crash
  <2>2. QED BY <1>0, <2>1 DEF AdvOK, Zero
<1>20. QED
  BY <1>1, <1>2, <1>3, <1>4, <1>5, <1>6, <1>7, <1>8, <1>9, <1>10, <1>11, <1>12,
     <1>13, <1>14, <1>15, <1>16, <1>17, <1>18, <1>19
  DEF Next, ScanThread, Application

LEMMA AdvanceStep ==
  ASSUME DeepOnly, AdvInv, [Next]_vars,
         prog # NoRow, prog' # prog, runs' = runs
  PROVE  /\ prog'.phase >= prog.phase /\ NotBehind(prog.resume, prog'.resume)
         /\ ~prog.complete
<1> USE DEF Progress
<1>0. /\ ThreadInv /\ AdvOK /\ progress \in Progress /\ prog \in Progress
      /\ scanned \in Nat /\ runs \in Nat
  BY DEF AdvInv, TypeOK, SaveTypeOK, LoopTypeOK
<1>1. SavePhaseOne \/ SaveReport \/ MarkComplete
  <2>1. ~(\E m \in Modes : StartScan(m))
    BY <1>0 DEF StartScan
  <2>2. ASSUME \E f \in MetaFiles : MetaFile(f) PROVE FALSE
    BY <2>2 DEF MetaFile, saveVars
  <2>3. ASSUME \E f \in RawFiles : RawHit(f) PROVE FALSE
    BY <2>3 DEF RawHit, saveVars
  <2>4. QED
    BY <2>1, <2>2, <2>3
    DEF Next, ScanThread, Application, vars, saveVars, ResumeScan, StartScanNoCache,
        PauseScan, ResumeFromPause, StopScan, OpenDisk, Abandon, Load, BootUnreadable,
        MetaEnds, EnterPhaseTwo, RawLoop, BatchEnds, MergeVideo, MergeEnds,
        EnterReport, FinalFlush, Notify, Crash
<1>2. CASE SavePhaseOne
  <2>1. pc = "phase1" /\ prog'.phase = 1 /\ prog'.resume = progress.resume
    BY <1>0, <1>2 DEF SavePhaseOne, SaveProgress
  <2>2. QED BY <1>0, <2>1 DEF AdvOK, ThreadInv
<1>3. CASE SaveReport
  <2>1. /\ pc \in {"wait", "lastWait"}
        /\ prog'.phase = progress.phase /\ prog'.resume = scanned
    BY <1>0, <1>3 DEF SaveReport, SaveProgress, ResumePoint
  <2>2. NotBehind(prog.resume, scanned)
    BY <1>0, <2>1 DEF AdvOK
  <2>3. QED BY <1>0, <2>1, <2>2 DEF AdvOK, ThreadInv
<1>4. CASE MarkComplete
  <2>1. /\ pc = "complete"
        /\ prog'.phase = progress.phase /\ prog'.resume = progress.resume
    BY <1>0, <1>4 DEF MarkComplete, SaveProgress
  <2>2. QED BY <1>0, <2>1 DEF AdvOK, ThreadInv
<1>5. QED BY <1>1, <1>2, <1>3, <1>4

\* In deep scans no save takes back a phase or a sector that an earlier run of
\* the session had saved, or touches a session that is marked complete.
THEOREM Advances ==
  ASSUME DeepOnly
  PROVE  Spec => SavedProgressAdvances
<1>1. Init => AdvInv
  <2>1. Init => TypeOK /\ ThreadInv /\ ModeOK
    BY InitInv DEF IInv, ModeOK, Init
  <2>2. Init => AdvOK
    BY DEF Init, Zero, AdvOK, Scanning, Reporting
  <2>3. QED BY <2>1, <2>2 DEF AdvInv
<1>2. AdvInv /\ [Next]_vars => AdvInv'
  <2>1. SUFFICES ASSUME AdvInv, [Next]_vars PROVE AdvInv'
    OBVIOUS
  <2>2. TypeOK /\ ThreadInv /\ ModeOK /\ AdvOK
    BY <2>1 DEF AdvInv
  <2>3. TypeOK' /\ ThreadInv'
    BY <2>1, <2>2, TypeStep, ThreadStep
  <2>4. ModeOK'
    BY <2>1, <2>2, ModeStep
  <2>5. AdvOK'
    BY <2>1, AdvStep
  <2>6. QED BY <2>3, <2>4, <2>5 DEF AdvInv
<1> DEFINE Adv == (prog # NoRow /\ prog' # prog /\ runs' = runs) =>
                    /\ prog'.phase >= prog.phase
                    /\ \/ prog'.resume >= prog.resume
                       \/ /\ CutAt(MaxOf(0, prog.resume - Overlap))
                          /\ prog'.resume + Overlap >= prog.resume
                    /\ ~prog.complete
<1>3. AdvInv /\ [Next]_vars => Adv
  <2>1. SUFFICES ASSUME AdvInv, [Next]_vars, prog # NoRow, prog' # prog, runs' = runs
                 PROVE  /\ prog'.phase >= prog.phase /\ ~prog.complete
                        /\ \/ prog'.resume >= prog.resume
                           \/ /\ CutAt(MaxOf(0, prog.resume - Overlap))
                              /\ prog'.resume + Overlap >= prog.resume
    OBVIOUS
  <2>2. /\ prog'.phase >= prog.phase /\ ~prog.complete
        /\ NotBehind(prog.resume, prog'.resume)
    BY <2>1, AdvanceStep
  <2>3. QED BY <2>2 DEF NotBehind
<1>4. Spec => [][Adv]_vars
  BY <1>1, <1>2, <1>3, PTL DEF Spec
<1>5. QED BY <1>4 DEF SavedProgressAdvances
=============================================================================
