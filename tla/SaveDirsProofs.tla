--------------------------- MODULE SaveDirsProofs ---------------------------
(***************************************************************************)
(* Theorems about SaveDirs: its types, that the directories of a run lie   *)
(* on distinct disks, and that they spare the drive they were chosen for,  *)
(* for any disks, volumes and directories.                                 *)
(***************************************************************************)
EXTENDS SaveDirs, SequenceTheorems, WellFoundedInduction, TLAPS

USE DisksAssumption

----------------------------------------------------------------------------
(* Drives.                                                                 *)

LEMMA LeastNat ==
  ASSUME NEW T \in SUBSET Nat, T # {}
  PROVE  \E n \in T : \A m \in T : n <= m
<1>1. PICK n \in T : \A m \in T : ~(<<m, n>> \in OpToRel(<, Nat))
  BY NatLessThanWellFounded, WFMin
<1>2. \A m \in T : ~(m < n)
  BY <1>1 DEF OpToRel
<1>3. QED BY <1>2

LEMMA OfferedType == Offered \subseteq Nat
BY DEF Offered

LEMMA LetterType ==
  \A l \in Letters : /\ Extents[l] \in Seq(Nat)
                     /\ Head(Extents[l]) \in Nat
BY HeadTailProperties

\* A directory whose letter is not excluded lies off the selected drive.
LEMMA ExcludedIsEnough ==
  ASSUME NEW p, NEW d \in Nat \cup {NoDrive},
         p.letter \notin (IF d = NoDrive THEN {} ELSE LettersOf(d))
  PROVE  d \notin DisksUnder(p)
<1>1. CASE p.letter \in Letters \ Silent
  <2>1. Extents[p.letter] \in Seq(Nat)
    BY <1>1
  <2>2. ToSet(Extents[p.letter]) \subseteq Nat
    BY <2>1, ElementOfSeq, LenProperties DEF ToSet
  <2>3. CASE d = NoDrive
    BY <2>2, <2>3, <1>1 DEF DisksUnder
  <2>4. CASE d # NoDrive
    BY <2>4, <1>1 DEF DisksUnder, LettersOf
  <2>5. QED BY <2>3, <2>4
<1>2. CASE p.letter \notin Letters \ Silent
  BY <1>2 DEF DisksUnder
<1>3. QED BY <1>1, <1>2

----------------------------------------------------------------------------
(* The list of directories.                                                *)

\* Deleting the k-th entry keeps the others in their order.
LEMMA RemoveAtProperties ==
  ASSUME NEW S, NEW s \in Seq(S), NEW k \in DOMAIN s
  PROVE  /\ RemoveAt(s, k) \in Seq(S)
         /\ DOMAIN RemoveAt(s, k) = 1 .. (Len(s) - 1)
         /\ \A j \in DOMAIN RemoveAt(s, k) :
              RemoveAt(s, k)[j] = s[IF j < k THEN j ELSE j + 1]
<1> DEFINE before == SubSeq(s, 1, k - 1)
           after  == SubSeq(s, k + 1, Len(s))
<1>1. /\ Len(s) \in Nat /\ DOMAIN s = 1..Len(s) /\ k \in 1..Len(s)
      /\ \A i \in 1..Len(s) : s[i] \in S
  BY LenProperties, ElementOfSeq
<1>2. /\ before \in Seq(S) /\ Len(before) = k - 1
      /\ \A i \in 1..(k - 1) : before[i] = s[i]
  <2>1. \A i \in 1..(k - 1) : s[i] \in S
    BY <1>1
  <2>2. /\ before \in Seq(S)
        /\ Len(before) = IF 1 <= k - 1 THEN (k - 1) - 1 + 1 ELSE 0
        /\ \A i \in 1..((k - 1) - 1 + 1) : before[i] = s[1 + i - 1]
    BY <1>1, <2>1, SubSeqProperties
  <2>3. QED BY <1>1, <2>2
<1>3. /\ after \in Seq(S) /\ Len(after) = Len(s) - k
      /\ \A i \in 1..(Len(s) - k) : after[i] = s[k + i]
  <2>1. \A i \in (k + 1)..Len(s) : s[i] \in S
    BY <1>1
  <2>2. /\ after \in Seq(S)
        /\ Len(after) = IF k + 1 <= Len(s) THEN Len(s) - (k + 1) + 1 ELSE 0
        /\ \A i \in 1..(Len(s) - (k + 1) + 1) : after[i] = s[(k + 1) + i - 1]
    BY <1>1, <2>1, SubSeqProperties
  <2>3. QED BY <1>1, <2>2
<1>4. /\ before \o after \in Seq(S)
      /\ Len(before \o after) = Len(s) - 1
      /\ \A i \in 1..(Len(s) - 1) :
           (before \o after)[i] = IF i <= k - 1 THEN before[i]
                                  ELSE after[i - (k - 1)]
  <2>1. Len(before) + Len(after) = Len(s) - 1
    BY <1>1, <1>2, <1>3
  <2> HIDE DEF before, after
  <2>2. /\ before \o after \in Seq(S)
        /\ Len(before \o after) = Len(before) + Len(after)
        /\ \A i \in 1..(Len(before) + Len(after)) :
             (before \o after)[i] = IF i <= Len(before) THEN before[i]
                                    ELSE after[i - Len(before)]
    <3>1. before \in Seq(S) /\ after \in Seq(S)
      BY <1>2, <1>3
    <3>2. QED BY <3>1, ConcatProperties, Zenon
  <2>3. QED BY <1>2, <2>1, <2>2
<1>5. RemoveAt(s, k) = before \o after
  BY DEF RemoveAt
<1> HIDE DEF before, after
<1>6. DOMAIN RemoveAt(s, k) = 1..(Len(s) - 1)
  BY <1>4, <1>5, LenProperties
<1>7. ASSUME NEW j \in 1..(Len(s) - 1)
      PROVE  RemoveAt(s, k)[j] = s[IF j < k THEN j ELSE j + 1]
  <2>1. CASE j < k
    BY <1>1, <1>2, <1>4, <1>5, <2>1
  <2>2. CASE ~(j < k)
    <3>1. j - (k - 1) \in 1..(Len(s) - k) /\ k + (j - (k - 1)) = j + 1
      BY <1>1, <2>2
    <3>2. after[j - (k - 1)] = s[j + 1]
      BY <1>3, <3>1
    <3>3. QED BY <1>1, <1>4, <1>5, <2>2, <3>2
  <2>3. QED BY <2>1, <2>2
<1>8. QED BY <1>4, <1>5, <1>6, <1>7

\* What the dialog keeps after "Delete" was in its list before.
LEMMA RemoveKeeps ==
  ASSUME NEW s \in Seq(Paths), NEW k \in DOMAIN s
  PROVE  /\ RemoveAt(s, k) \in Seq(Paths)
         /\ \A j \in DOMAIN RemoveAt(s, k) :
              \E i \in DOMAIN s : RemoveAt(s, k)[j] = s[i]
         /\ DistinctDisks(s) => DistinctDisks(RemoveAt(s, k))
<1> DEFINE r == RemoveAt(s, k)
           old(j) == IF j < k THEN j ELSE j + 1
<1>1. /\ r \in Seq(Paths) /\ DOMAIN r = 1..(Len(s) - 1)
      /\ \A j \in DOMAIN r : r[j] = s[old(j)]
  BY RemoveAtProperties
<1>2. Len(s) \in Nat /\ DOMAIN s = 1..Len(s) /\ k \in 1..Len(s)
  BY LenProperties
<1>3. \A j \in DOMAIN r : old(j) \in DOMAIN s
  BY <1>1, <1>2
<1>4. \A i, j \in DOMAIN r : i # j => old(i) # old(j)
  BY <1>1, <1>2
<1> HIDE DEF r, old
<1>5. ASSUME DistinctDisks(s) PROVE DistinctDisks(r)
  <2>1. SUFFICES ASSUME NEW i \in DOMAIN r, NEW j \in DOMAIN r, i # j,
                        r[i].letter # NoLetter, r[j].letter # NoLetter
                 PROVE  /\ r[i].letter # r[j].letter
                        /\ {r[i].letter, r[j].letter} \cap Silent = {} =>
                             Head(Extents[r[i].letter])
                               # Head(Extents[r[j].letter])
    BY DEF DistinctDisks
  <2>2. /\ old(i) \in DOMAIN s /\ old(j) \in DOMAIN s /\ old(i) # old(j)
        /\ r[i] = s[old(i)] /\ r[j] = s[old(j)]
    BY <1>1, <1>3, <1>4, <2>1
  <2>3. QED BY <1>5, <2>1, <2>2 DEF DistinctDisks
<1>6. QED BY <1>1, <1>3, <1>5 DEF r

\* A path that IsSamePhysicalDisk tells from every entry may join the list.
LEMMA AddKeeps ==
  ASSUME NEW s \in Seq(Paths), NEW p \in Paths,
         \A q \in ToSet(s) : ~IsSamePhysicalDisk(p, q),
         DistinctDisks(s)
  PROVE  DistinctDisks(Append(s, p))
<1> DEFINE t == Append(s, p)
           Apart(a, b) ==
             a.letter # NoLetter /\ b.letter # NoLetter =>
               /\ a.letter # b.letter
               /\ {a.letter, b.letter} \cap Silent = {} =>
                    Head(Extents[a.letter]) # Head(Extents[b.letter])
<1>1. /\ Len(s) \in Nat /\ DOMAIN s = 1..Len(s) /\ DOMAIN t = 1..(Len(s) + 1)
      /\ \A i \in 1..Len(s) : t[i] = s[i] /\ s[i] \in Paths
      /\ t[Len(s) + 1] = p
  BY AppendProperties, LenProperties, ElementOfSeq
<1>2. ASSUME NEW i \in DOMAIN s
      PROVE  Apart(p, s[i]) /\ Apart(s[i], p)
  <2>1. ~IsSamePhysicalDisk(p, s[i])
    BY DEF ToSet
  <2>2. s[i] \in Paths
    BY <1>1
  <2>3. SUFFICES ASSUME p.letter # NoLetter, s[i].letter # NoLetter
                 PROVE  Apart(p, s[i]) /\ Apart(s[i], p)
    OBVIOUS
  <2>4. p.letter \in Letters /\ s[i].letter \in Letters
    BY <2>2, <2>3
  <2>5. p.letter # s[i].letter
    BY <2>1, <2>3 DEF IsSamePhysicalDisk
  <2>6. ASSUME p.letter \notin Silent, s[i].letter \notin Silent
        PROVE  Head(Extents[p.letter]) # Head(Extents[s[i].letter])
    <3>1. /\ PhysicalDrive(p.letter) = Head(Extents[p.letter])
          /\ PhysicalDrive(s[i].letter) = Head(Extents[s[i].letter])
      BY <2>6 DEF PhysicalDrive
    <3>2. PhysicalDrive(p.letter) >= 0
      BY <3>1, <2>4, LetterType
    <3>3. QED BY <2>1, <2>3, <3>1, <3>2 DEF IsSamePhysicalDisk
  <2>7. QED BY <2>5, <2>6
<1>3. ASSUME NEW i \in DOMAIN t, NEW j \in DOMAIN t, i # j
      PROVE  Apart(t[i], t[j])
  <2>1. CASE i \in DOMAIN s /\ j \in DOMAIN s
    BY <1>1, <1>3, <2>1 DEF DistinctDisks
  <2>2. CASE i \in DOMAIN s /\ j = Len(s) + 1
    BY <1>1, <1>2, <2>2
  <2>3. CASE i = Len(s) + 1 /\ j \in DOMAIN s
    BY <1>1, <1>2, <2>3
  <2>4. QED BY <1>1, <1>3, <2>1, <2>2, <2>3
<1>4. QED BY <1>3 DEF DistinctDisks

LEMMA EmptyList == DistinctDisks(<<>>) /\ \A d : Spares(<<>>, d)
BY DEF DistinctDisks, Spares

----------------------------------------------------------------------------
(* The invariant.                                                          *)

\* The list belongs to an open dialog, which excludes the letters of the
\* drive that is still selected.
DialogIsCurrent ==
  /\ dialog = "closed" => dirs = <<>>
  /\ dialog # "closed" =>
       /\ excluded = IF drive = NoDrive THEN {} ELSE LettersOf(drive)
       /\ \A k \in DOMAIN dirs : dirs[k].letter \notin excluded

IInv == /\ TypeOK /\ DialogIsCurrent
        /\ TargetsOnDistinctDisks /\ Spares(saveDirs, asked)

LEMMA OpenListSpares ==
  ASSUME TypeOK, DialogIsCurrent
  PROVE  Spares(dirs, drive)
<1>1. CASE dialog = "closed"
  BY <1>1, EmptyList DEF DialogIsCurrent
<1>2. CASE dialog # "closed"
  <2>1. SUFFICES ASSUME NEW k \in DOMAIN dirs
                 PROVE  drive \notin DisksUnder(dirs[k])
    BY DEF Spares
  <2>2. dirs[k].letter
          \notin (IF drive = NoDrive THEN {} ELSE LettersOf(drive))
    BY <1>2, <2>1 DEF DialogIsCurrent
  <2>3. drive \in Nat \cup {NoDrive}
    BY OfferedType DEF TypeOK
  <2>4. QED BY <2>2, <2>3, ExcludedIsEnough
<1>3. QED BY <1>1, <1>2

LEMMA InitInv == Init => IInv
<1>1. SUFFICES ASSUME Init PROVE IInv
  OBVIOUS
<1>2. drive \in Offered \cup {NoDrive}
  <2>1. CASE Offered = {}
    BY <1>1, <2>1 DEF Init
  <2>2. CASE Offered # {}
    <3>1. \E d \in Offered : \A e \in Offered : d <= e
      BY <2>2, OfferedType, LeastNat
    <3>2. QED BY <1>1, <2>2, <3>1 DEF Init
  <2>3. QED BY <2>1, <2>2
<1>3. TypeOK
  BY <1>1, <1>2, EmptySeq DEF Init, TypeOK
<1>4. DialogIsCurrent
  BY <1>1 DEF Init, DialogIsCurrent
<1>5. TargetsOnDistinctDisks /\ Spares(saveDirs, asked)
  BY <1>1, EmptyList DEF Init, TargetsOnDistinctDisks
<1>6. QED BY <1>3, <1>4, <1>5 DEF IInv

LEMMA OpenDialogInv ==
  ASSUME IInv, NEW by \in {"button", "start"}, OpenDialog(by),
         UNCHANGED <<drive, saveDirs, label, asked, state, job>>
  PROVE  IInv'
<1>1. dirs' = <<>> /\ dialog' = by
  BY DEF OpenDialog
<1>2. excluded' = IF drive = NoDrive THEN {} ELSE LettersOf(drive)
  BY DEF OpenDialog
<1>3. excluded' \subseteq Letters
  BY <1>2 DEF LettersOf
<1>4. TypeOK'
  BY <1>1, <1>3, EmptySeq DEF IInv, TypeOK
<1>5. DialogIsCurrent'
  BY <1>1, <1>2 DEF DialogIsCurrent, LettersOf
<1>6. TargetsOnDistinctDisks' /\ Spares(saveDirs, asked)'
  BY <1>1, EmptyList DEF IInv, TargetsOnDistinctDisks
<1>7. QED BY <1>4, <1>5, <1>6 DEF IInv

LEMMA AddInv == IInv /\ AddDirectory => IInv'
<1>1. SUFFICES ASSUME IInv, AddDirectory PROVE IInv'
  OBVIOUS
<1>2. PICK p \in Paths :
        /\ p.letter \notin excluded
        /\ \A q \in ToSet(dirs) : ~IsSamePhysicalDisk(p, q)
        /\ dirs' = Append(dirs, p)
  BY <1>1 DEF AddDirectory
<1>3. /\ dialog # "closed"
      /\ UNCHANGED <<drive, state, dialog, excluded, saveDirs, label, job,
                     asked>>
  BY <1>1 DEF AddDirectory
<1>4. /\ dirs \in Seq(Paths) /\ dirs' \in Seq(Paths)
      /\ \A k \in DOMAIN dirs' :
           dirs'[k] = p \/ (k \in DOMAIN dirs /\ dirs'[k] = dirs[k])
  <2>1. dirs \in Seq(Paths)
    BY <1>1 DEF IInv, TypeOK
  <2>2. QED BY <1>2, <2>1, AppendProperties, LenProperties
<1>5. TypeOK'
  BY <1>1, <1>3, <1>4 DEF IInv, TypeOK
<1>6. DialogIsCurrent'
  <2>1. \A k \in DOMAIN dirs' : dirs'[k].letter \notin excluded
    BY <1>1, <1>2, <1>3, <1>4 DEF IInv, DialogIsCurrent
  <2>2. QED BY <1>1, <1>3, <2>1 DEF IInv, DialogIsCurrent, LettersOf
<1>7. TargetsOnDistinctDisks'
  <2>1. DistinctDisks(dirs')
    BY <1>1, <1>2, <1>4, AddKeeps DEF IInv, TargetsOnDistinctDisks
  <2>2. QED BY <1>1, <1>3, <2>1 DEF IInv, TargetsOnDistinctDisks
<1>8. QED BY <1>1, <1>3, <1>5, <1>6, <1>7 DEF IInv

LEMMA RemoveInv == IInv /\ RemoveDirectory => IInv'
<1>1. SUFFICES ASSUME IInv, RemoveDirectory PROVE IInv'
  OBVIOUS
<1>2. PICK k \in DOMAIN dirs : dirs' = RemoveAt(dirs, k)
  BY <1>1 DEF RemoveDirectory
<1>3. /\ dialog # "closed"
      /\ UNCHANGED <<drive, state, dialog, excluded, saveDirs, label, job,
                     asked>>
  BY <1>1 DEF RemoveDirectory
<1>4. /\ dirs' \in Seq(Paths)
      /\ \A j \in DOMAIN dirs' : \E i \in DOMAIN dirs : dirs'[j] = dirs[i]
      /\ DistinctDisks(dirs')
  <2>1. dirs \in Seq(Paths) /\ DistinctDisks(dirs)
    BY <1>1 DEF IInv, TypeOK, TargetsOnDistinctDisks
  <2>2. QED BY <1>2, <2>1, RemoveKeeps
<1>5. TypeOK'
  BY <1>1, <1>3, <1>4 DEF IInv, TypeOK
<1>6. DialogIsCurrent'
  <2>1. \A j \in DOMAIN dirs' : dirs'[j].letter \notin excluded
    BY <1>1, <1>3, <1>4 DEF IInv, DialogIsCurrent
  <2>2. QED BY <1>1, <1>3, <2>1 DEF IInv, DialogIsCurrent, LettersOf
<1>7. TargetsOnDistinctDisks'
  BY <1>1, <1>3, <1>4 DEF IInv, TargetsOnDistinctDisks
<1>8. QED BY <1>1, <1>3, <1>5, <1>6, <1>7 DEF IInv

LEMMA OkInv == IInv /\ ClickOk => IInv'
<1>1. SUFFICES ASSUME IInv, ClickOk PROVE IInv'
  OBVIOUS
<1>2. /\ saveDirs' = dirs /\ label' = dirs /\ asked' = drive
      /\ dialog' = "closed" /\ dirs' = <<>> /\ excluded' = {}
      /\ drive' = drive
  BY <1>1 DEF ClickOk, CloseDialog
<1>3. \/ /\ state' = "Running"
         /\ job' = [source |-> drive, targets |-> dirs]
      \/ UNCHANGED <<state, job>>
  BY <1>1 DEF ClickOk, Run
<1>4. TypeOK'
  <2>1. CASE UNCHANGED <<state, job>>
    BY <1>1, <1>2, <2>1, EmptySeq DEF IInv, TypeOK
  <2>2. CASE state' = "Running" /\ job' = [source |-> drive, targets |-> dirs]
    BY <1>1, <1>2, <2>2, EmptySeq DEF IInv, TypeOK
  <2>3. QED BY <1>3, <2>1, <2>2
<1>5. DialogIsCurrent'
  BY <1>2 DEF DialogIsCurrent
<1>6. TargetsOnDistinctDisks'
  <2>1. DistinctDisks(dirs) /\ DistinctDisks(job.targets)
    BY <1>1 DEF IInv, TargetsOnDistinctDisks
  <2>2. DistinctDisks(job'.targets)
    BY <1>3, <2>1
  <2>3. QED BY <1>2, <2>1, <2>2, EmptyList DEF TargetsOnDistinctDisks
<1>7. Spares(saveDirs', asked')
  BY <1>1, <1>2, OpenListSpares DEF IInv
<1>8. QED BY <1>4, <1>5, <1>6, <1>7 DEF IInv

LEMMA CancelInv == IInv /\ CancelDialog => IInv'
<1>1. SUFFICES ASSUME IInv, CancelDialog PROVE IInv'
  OBVIOUS
<1>2. /\ saveDirs' = <<>> /\ dialog' = "closed" /\ dirs' = <<>>
      /\ excluded' = {} /\ UNCHANGED <<drive, state, label, job, asked>>
  BY <1>1 DEF CancelDialog, CloseDialog
<1>3. TypeOK'
  BY <1>1, <1>2, EmptySeq DEF IInv, TypeOK
<1>4. DialogIsCurrent'
  BY <1>2 DEF DialogIsCurrent
<1>5. TargetsOnDistinctDisks' /\ Spares(saveDirs', asked')
  BY <1>1, <1>2, EmptyList DEF IInv, TargetsOnDistinctDisks
<1>6. QED BY <1>3, <1>4, <1>5 DEF IInv

LEMMA StartInv == IInv /\ ClickStart => IInv'
<1>1. SUFFICES ASSUME IInv, ClickStart PROVE IInv'
  OBVIOUS
<1>2. CASE /\ saveDirs # <<>> /\ Run(saveDirs)
           /\ UNCHANGED <<dialog, excluded, dirs>>
  <2>1. /\ job' = [source |-> drive, targets |-> saveDirs]
        /\ state' = "Running"
        /\ UNCHANGED <<drive, dialog, excluded, dirs, saveDirs, label, asked>>
    BY <1>1, <1>2 DEF ClickStart, Run
  <2>2. TypeOK'
    BY <1>1, <2>1 DEF IInv, TypeOK
  <2>3. DialogIsCurrent'
    BY <1>1, <2>1 DEF IInv, DialogIsCurrent, LettersOf
  <2>4. TargetsOnDistinctDisks' /\ Spares(saveDirs', asked')
    BY <1>1, <2>1 DEF IInv, TargetsOnDistinctDisks
  <2>5. QED BY <2>2, <2>3, <2>4 DEF IInv
<1>3. CASE saveDirs = <<>> /\ OpenDialog("start") /\ UNCHANGED <<state, job>>
  <2>1. UNCHANGED <<drive, saveDirs, label, asked, state, job>>
    BY <1>1, <1>3 DEF ClickStart
  <2>2. QED BY <1>1, <1>3, <2>1, OpenDialogInv
<1>4. QED BY <1>1, <1>2, <1>3 DEF ClickStart

LEMMA RestInv ==
  ASSUME IInv, SelectDrive \/ ClickSaveDirs \/ RunEnds \/ UNCHANGED vars
  PROVE  IInv'
<1>1. CASE SelectDrive
  <2>1. /\ dialog = "closed" /\ drive' \in Offered
        /\ UNCHANGED <<state, dialog, excluded, dirs, saveDirs, label, job,
                       asked>>
    BY <1>1 DEF SelectDrive, MayConfigure
  <2>2. TypeOK'
    BY <2>1 DEF IInv, TypeOK
  <2>3. QED BY <2>1, <2>2 DEF IInv, DialogIsCurrent, TargetsOnDistinctDisks
<1>2. CASE ClickSaveDirs
  <2>1. /\ OpenDialog("button")
        /\ UNCHANGED <<drive, saveDirs, label, asked, state, job>>
    BY <1>2 DEF ClickSaveDirs
  <2>2. QED BY <2>1, OpenDialogInv
<1>3. CASE RunEnds
  <2>1. /\ state' = "Idle"
        /\ UNCHANGED <<drive, dialog, excluded, dirs, saveDirs, label, job,
                       asked>>
    BY <1>3 DEF RunEnds
  <2>2. TypeOK'
    BY <2>1 DEF IInv, TypeOK
  <2>3. DialogIsCurrent'
    BY <2>1 DEF IInv, DialogIsCurrent, LettersOf
  <2>4. QED BY <2>1, <2>2, <2>3 DEF IInv, TargetsOnDistinctDisks
<1>4. CASE UNCHANGED vars
  <2>1. UNCHANGED <<drive, state, dialog, excluded, dirs, saveDirs, label,
                    job, asked>>
    BY <1>4 DEF vars
  <2>2. TypeOK'
    BY <2>1 DEF IInv, TypeOK
  <2>3. DialogIsCurrent'
    BY <2>1 DEF IInv, DialogIsCurrent, LettersOf
  <2>4. QED BY <2>1, <2>2, <2>3 DEF IInv, TargetsOnDistinctDisks
<1>5. QED BY <1>1, <1>2, <1>3, <1>4

----------------------------------------------------------------------------
(* Theorems.                                                               *)

\* The window, the dialog and the last run hold drives and directories that
\* were offered, and the dialog's list goes with its drive.
THEOREM Inductive == Spec => []IInv
<1>1. IInv /\ [Next]_vars => IInv'
  BY AddInv, RemoveInv, OkInv, CancelInv, StartInv, RestInv DEF Next
<1>2. QED BY InitInv, <1>1, PTL DEF Spec

\* IsSamePhysicalDisk keeps the directories of every run apart, whatever the
\* user adds, deletes, accepts or cancels.
THEOREM DistinctTargets == Spec => []TargetsOnDistinctDisks
BY Inductive, PTL DEF IInv

\* The letters excluded when the dialog opens keep every accepted directory
\* off all the disks its volume spans, as far as Windows names them.
THEOREM SparedDrive == Spec => []TargetsSpareTheDriveAskedFor
<1>1. IInv => TargetsSpareTheDriveAskedFor
  BY OpenListSpares DEF IInv, TargetsSpareTheDriveAskedFor
<1>2. QED BY Inductive, <1>1, PTL
=============================================================================
