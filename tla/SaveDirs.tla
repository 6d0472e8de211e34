------------------------------ MODULE SaveDirs ------------------------------
(***************************************************************************)
(* Choosing the disk to scan and the directories to save to: the part of   *)
(* MainWindow that configures a run, SaveDirsDialog, and the queries that  *)
(* tell which physical disks a drive letter lies on.  The rule they share  *)
(* is that nothing is written to the disk being scanned.                   *)
(***************************************************************************)
EXTENDS Integers, Sequences, FiniteSets, SequencesExt

CONSTANTS
  MaxDrives,  \* physical drive numbers that are tried (32)
  Openable,   \* the ones a handle can be opened for
  Letters,    \* drive letters in use
  Extents,    \* the disks a letter's volume lies on, in order
  Silent,     \* letters that do not answer the query for their disks
  Paths,      \* directories the user may pick; a share has no letter
  NoLetter, NoDrive

ASSUME DisksAssumption ==
  /\ MaxDrives \in Nat /\ Openable \subseteq Nat
  /\ Extents \in [Letters -> Seq(Nat)] /\ Silent \subseteq Letters
  /\ \A l \in Letters : Extents[l] # <<>>
  /\ \A p \in Paths : p.letter \in Letters \cup {NoLetter}
  /\ NoLetter \notin Letters /\ NoDrive \notin Nat

VARIABLES
  drive,     \* the drive selected in the combo box
  state,     \* MainWindow::state_, Idle or not
  dialog,    \* who opened the dialog: the button, Start, or nobody
  excluded,  \* DialogData::excluded_letters
  dirs,      \* DialogData::dirs
  saveDirs,  \* MainWindow::save_dirs_
  label,     \* the directories the summary label shows
  job,       \* source and targets of the last run that was started
  asked      \* history: the drive selected when saveDirs was accepted

vars == <<drive, state, dialog, excluded, dirs, saveDirs, label, job, asked>>

----------------------------------------------------------------------------
(* What is known of the disks.                                             *)

\* EnumeratePhysicalDisks: after three numbers in a row that cannot be
\* opened, with a disk before them, no higher one is tried.
Offered ==
  {d \in Openable : /\ d < MaxDrives
                    /\ \A g \in 0..(d - 3) :
                         (g .. (g + 2)) \cap Openable = {}
                           => \A e \in Openable : e > g}

\* GetDriveLettersForPhysicalDrive looks at all the extents of a volume.
LettersOfFirstExtent(d) ==
  {l \in Letters \ Silent : d = Head(Extents[l])}
LettersOf(d) == {l \in Letters \ Silent : d \in ToSet(Extents[l])}

\* GetPhysicalDriveNumberForLetter looks at the first, and gives -1 if it
\* cannot tell.
PhysicalDrive(l) == IF l \in Silent THEN -1 ELSE Head(Extents[l])

IsSameLetter(p, q) == p.letter = q.letter /\ p.letter # NoLetter
\* Directories of which the disk is not known may be added.
IsSamePhysicalDisk(p, q) ==
  /\ NoLetter \notin {p.letter, q.letter}
  /\ \/ p.letter = q.letter
     \/ /\ PhysicalDrive(p.letter) >= 0
        /\ PhysicalDrive(p.letter) = PhysicalDrive(q.letter)

----------------------------------------------------------------------------
\* The window selects the first drive of its list.
Init ==
  /\ drive = IF Offered = {} THEN NoDrive
             ELSE CHOOSE d \in Offered : \A e \in Offered : d <= e
  /\ state = "Idle" /\ dialog = "closed" /\ excluded = {} /\ dirs = <<>>
  /\ saveDirs = <<>> /\ label = <<>>
  /\ job = [source |-> NoDrive, targets |-> <<>>] /\ asked = NoDrive

\* The controls answer while nothing runs and no dialog is in front.
MayConfigure == state = "Idle" /\ dialog = "closed"

SelectDrive ==
  /\ MayConfigure
  /\ drive' \in Offered
  /\ UNCHANGED <<state, dialog, excluded, dirs, saveDirs, label, job, asked>>

\* on_save_dirs: the letters of the selected drive, and an empty list.
OpenDialog(by) ==
  /\ dialog' = by /\ dirs' = <<>>
  /\ excluded' = IF drive = NoDrive THEN {} ELSE LettersOf(drive)

\* The data of the dialog goes with it.
CloseDialog == dialog' = "closed" /\ dirs' = <<>> /\ excluded' = {}

ClickSaveDirs ==
  /\ MayConfigure
  /\ OpenDialog("button")
  /\ UNCHANGED <<drive, state, saveDirs, label, job, asked>>

AddDirectory ==
  /\ dialog # "closed"
  /\ \E p \in Paths :
       /\ p.letter \notin excluded
       /\ p \notin ToSet(dirs)
       /\ \A q \in ToSet(dirs) : ~IsSamePhysicalDisk(p, q)
       /\ dirs' = Append(dirs, p)
  /\ UNCHANGED <<drive, state, dialog, excluded, saveDirs, label, job, asked>>

RemoveDirectory ==
  /\ dialog # "closed"
  /\ \E k \in DOMAIN dirs : dirs' = RemoveAt(dirs, k)
  /\ UNCHANGED <<drive, state, dialog, excluded, saveDirs, label, job, asked>>

Run(targets) ==
  /\ state' = "Running"
  /\ job' = [source |-> drive, targets |-> targets]

\* When Start had opened the dialog the run starts now.
ClickOk ==
  /\ dialog # "closed" /\ dirs # <<>>
  /\ saveDirs' = dirs /\ label' = dirs /\ asked' = drive
  /\ CloseDialog
  /\ IF dialog = "start" THEN Run(dirs) ELSE UNCHANGED <<state, job>>
  /\ UNCHANGED drive

\* Cancel and the close box: the window's list is emptied, its label stays.
CancelDialog ==
  /\ dialog # "closed"
  /\ saveDirs' = <<>> /\ CloseDialog
  /\ UNCHANGED <<drive, state, label, job, asked>>

\* on_start_pause in state Idle.
ClickStart ==
  /\ MayConfigure /\ drive # NoDrive
  /\ \/ /\ saveDirs # <<>> /\ Run(saveDirs)
        /\ UNCHANGED <<dialog, excluded, dirs>>
     \/ /\ saveDirs = <<>> /\ OpenDialog("start")
        /\ UNCHANGED <<state, job>>
  /\ UNCHANGED <<drive, saveDirs, label, asked>>

\* on_stop, or WM_SCAN_RECOVER_COMPLETE.
RunEnds ==
  /\ state = "Running"
  /\ state' = "Idle"
  /\ UNCHANGED <<drive, dialog, excluded, dirs, saveDirs, label, job, asked>>

Next ==
  \/ SelectDrive \/ ClickSaveDirs \/ AddDirectory \/ RemoveDirectory
  \/ ClickOk \/ CancelDialog \/ ClickStart \/ RunEnds

Spec == Init /\ [][Next]_vars

----------------------------------------------------------------------------
\* The disks a directory is written to, as far as its letter tells.
DisksUnder(p) ==
  IF p.letter \in Letters \ Silent THEN ToSet(Extents[p.letter]) ELSE {}

TypeOK ==
  /\ drive \in Offered \cup {NoDrive} /\ asked \in Offered \cup {NoDrive}
  /\ state \in {"Idle", "Running"}
  /\ dialog \in {"closed", "button", "start"} /\ excluded \subseteq Letters
  /\ dirs \in Seq(Paths) /\ saveDirs \in Seq(Paths) /\ label \in Seq(Paths)
  /\ job.source \in Offered \cup {NoDrive} /\ job.targets \in Seq(Paths)

\* Two directories of one run never lie on the same disk, through any
\* sequence of adding, removing, cancelling and opening the dialog again: the
\* writer moves on from a full directory to the next, which has to be on
\* another disk (save_dirs_dialog.cpp:63 and :195; a volume of several disks
\* counts as its first).
DistinctDisks(s) ==
  \A j, k \in DOMAIN s :
    j # k /\ s[j].letter # NoLetter /\ s[k].letter # NoLetter =>
      /\ s[j].letter # s[k].letter
      /\ {s[j].letter, s[k].letter} \cap Silent = {} =>
           Head(Extents[s[j].letter]) # Head(Extents[s[k].letter])

TargetsOnDistinctDisks ==
  \A s \in {dirs, saveDirs, job.targets} : DistinctDisks(s)

\* The directories of the window lie off every disk that was selected when
\* they were accepted, also where a volume spans several disks, and a run
\* that Start's own dialog began spares its source (main_window.cpp:461).
Spares(s, d) == \A k \in DOMAIN s : d \notin DisksUnder(s[k])

TargetsSpareTheDriveAskedFor ==
  /\ Spares(saveDirs, asked)
  /\ dialog = "start" => Spares(dirs, drive)
=============================================================================
